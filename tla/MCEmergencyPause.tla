-------------------------- MODULE MCEmergencyPause --------------------------
(***************************************************************************)
(* Small instances of EmergencyPause: what the requests may ask for.       *)
(***************************************************************************)
EXTENDS EmergencyPause
TLC == INSTANCE TLC

CONSTANTS p, s1, s2, s3

MCSaver == {s1, s2, s3}
\* The owner asks for anything; the operators for the position only.
AnyBody == [target : Target, pause : BOOLEAN, by : {"owner"}]
                \cup [target : {p}, pause : BOOLEAN, by : {"operator"}]
                \cup {[target |-> p, pause |-> FALSE, by |-> "pauser"]}
PauseSymmetry == TLC!Permutations(MCSaver)
=============================================================================
