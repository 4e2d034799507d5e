------------------------- MODULE MCAutomationDaemon -------------------------
(***************************************************************************)
(* Small instances of AutomationDaemon.                                    *)
(***************************************************************************)
EXTENDS AutomationDaemon
TLC == INSTANCE TLC

CONSTANTS p, t1, t2, r1

MCChecker == {t1, t2, r1}
MCTick == {t1, t2}
MCRequest == {r1}
\* The owner pauses and resumes the position.
MCBody == [target : {p}, pause : BOOLEAN, by : {"owner"}]
MCPolicyBody == {[target |-> Whole, value |-> "active"]}
=============================================================================
