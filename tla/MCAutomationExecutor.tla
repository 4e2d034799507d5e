------------------------ MODULE MCAutomationExecutor ------------------------
(***************************************************************************)
(* Small instances of AutomationExecutor: one job with a transaction, one  *)
(* without, the first of the two more urgent.                              *)
(***************************************************************************)
EXTENDS AutomationExecutor
TLC == INSTANCE TLC

CONSTANTS txJob, plainJob

MCJob == {txJob, plainJob}
MCTxJob == {txJob}
MCPriority == [j \in MCJob |-> IF j = txJob THEN 10 ELSE 100]
NoBlockedJob == {}

PlainJobOnMainnet == {plainJob}
NoWorker == {}
WorkerSymmetry == TLC!Permutations(DirectWorker) \cup TLC!Permutations(LeaseWorker)
\* In the lease run every statement may fail.
EveryAwait == {"emergency", "create", "running", "evaluate", "finish", "mark", "audit"}

\* Views that leave out variables no guard of the module reads, and no property of the
\* run but the type invariant: the histories in the direct run, the audit log and the
\* worker rows in the lease run.
WithoutHistory == <<status, attempt, execs, audit, workerRow, paused, tx, localVars>>
WithoutAudit == <<status, attempt, execs, paused, tx, localVars, histVars>>
=============================================================================
