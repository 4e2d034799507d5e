---------------------- MODULE AutomationExecutorProofs ----------------------
(***************************************************************************)
(* Proofs about AutomationExecutor, for any number of jobs, workers and    *)
(* execution rows.                                                         *)
(***************************************************************************)
EXTENDS AutomationExecutor, FiniteSetTheorems, SequenceTheorems, WellFoundedInduction, TLAPS

-----------------------------------------------------------------------------
(***************************************************************************)
(* The inductive invariant.  TypeOK alone is not inductive: the row a      *)
(* statement writes is the worker's own only because of what earlier       *)
(* statements of the same call left in the worker's locals.                *)
(***************************************************************************)

\* A worker has a job exactly while it is inside executeSingleJob.
Held == \A w \in Worker : (pc[w] \in {"idle", "next"}) <=> (cur[w] = NoJob)

\* The locations at which the worker has created its execution row.
Executing == {"running", "evaluate", "submit", "confirm", "finish", "mark", "audit"}

\* That row is about the worker's job, and no other worker will write it.
Owned ==
    \A w \in Worker : pc[w] \in Executing =>
        /\ eid[w] \in 1 .. Len(execs)
        /\ execs[eid[w]].job = cur[w]
        /\ \A v \in Worker \ {w} : pc[v] \in Executing => eid[v] # eid[w]

\* What a worker is about to write is decided, and true, when it writes it.
Decided ==
    \A w \in Worker :
        /\ pc[w] \in {"idle", "next", "emergency", "running", "evaluate", "submit"} => plan[w] = Undecided
        /\ pc[w] = "create" =>
              plan[w] \in {Undecided, [status |-> "PRECHECK_FAILED", txHash |-> FALSE]}
        /\ pc[w] = "confirm" =>
              plan[w] = [status |-> "TX_SUBMITTED", txHash |-> TRUE] /\ tx[eid[w]] \notin {"none", "inflight"}
        /\ pc[w] \in {"running", "evaluate", "submit"} => tx[eid[w]] = "none"
        /\ pc[w] \in {"running", "evaluate", "submit", "confirm", "finish"} =>
              execs[eid[w]].status = "STARTED" /\ ~execs[eid[w]].txHash
        /\ pc[w] \in {"finish", "mark", "audit"} =>
              plan[w].status \in FinalStatus /\ Truthful(plan[w].status, plan[w].txHash, tx[eid[w]])
        /\ pc[w] \in {"mark", "audit"} => execs[eid[w]].status = plan[w].status

\* Nothing has been sent for an execution that does not exist.
Fresh == \A e \in ExecId : e > Len(execs) => tx[e] = "none"

IInv ==
    /\ TypeOK
    /\ Held
    /\ Owned
    /\ Decided
    /\ Fresh
    /\ ExecutionTellsTruth
    /\ AuditMatchesExecution
    /\ SucceededIsBacked

-----------------------------------------------------------------------------
LEMMA InitIInv == Init => IInv
BY ConstantsAssumption DEF Init, IInv, TypeOK, Held, Owned, Decided, Fresh, ExecutionTellsTruth,
   AuditMatchesExecution, SucceededIsBacked, JobStatus, Location, Outcome, Undecided, TxState, Executing

LEMMA FirstOfSubset == ASSUME NEW S PROVE FirstOf(S) \subseteq S
BY DEF FirstOf

\* Recording a decision keeps the plans well typed.
LEMMA DecideType ==
    ASSUME TypeOK, NEW w \in Worker, NEW st \in FinalStatus, NEW h \in BOOLEAN, Decide(w, st, h)
    PROVE  plan' \in [Worker -> Outcome]
<1>1. [status |-> st, txHash |-> h] \in Outcome
  BY DEF Outcome
<1>. QED  BY <1>1 DEF TypeOK, Decide

\* Dropping a worker's locals keeps them well typed.
LEMMA ReturnType ==
    ASSUME TypeOK, NEW w \in Worker, Return(w)
    PROVE  /\ pc' \in [Worker -> Location]
           /\ cur' \in [Worker -> Job \cup {NoJob}]
           /\ eid' \in [Worker -> 0 .. MaxExec]
           /\ plan' \in [Worker -> Outcome]
<1>1. Undecided \in Outcome
  BY DEF Outcome, Undecided
<1>. QED  BY <1>1, ConstantsAssumption DEF TypeOK, Return, Goto, Location

\* A success once backed stays backed while rows keep their job and their success.
LEMMA BackedStep ==
    ASSUME TypeOK, SucceededIsBacked, Len(execs') \in Nat, Len(execs) <= Len(execs'),
           \A e \in 1 .. Len(execs) :
               /\ execs'[e].job = execs[e].job
               /\ execs[e].status \in SuccessStatus => execs'[e].status \in SuccessStatus,
           \A j \in Job : status'[j] = "SUCCEEDED" => status[j] = "SUCCEEDED"
    PROVE  SucceededIsBacked'
<1> SUFFICES ASSUME NEW j \in Job, status'[j] = "SUCCEEDED"
             PROVE  \E e \in ExecutionsOf(j)' : execs'[e].status \in SuccessStatus
  BY DEF SucceededIsBacked
<1>1. PICK e \in ExecutionsOf(j) : execs[e].status \in SuccessStatus
  BY DEF SucceededIsBacked
<1>2. e \in 1 .. Len(execs) /\ e \in 1 .. Len(execs') /\ execs[e].job = j
  BY <1>1 DEF TypeOK, ExecutionsOf
<1>3. e \in ExecutionsOf(j)' /\ execs'[e].status \in SuccessStatus
  BY <1>1, <1>2 DEF ExecutionsOf
<1>. QED  BY <1>3

\* A new execution row is well typed.
LEMMA StartedRowType ==
    ASSUME TypeOK, Held, NEW w \in Worker, pc[w] = "create"
    PROVE  StartedRow(w) \in Execution
<1>1. cur[w] \in Job
  BY DEF TypeOK, Held
<1>2. (w \in LeaseWorker) \in BOOLEAN
  OBVIOUS
<1> DEFINE claimed == w \in LeaseWorker
<1> HIDE DEF claimed
<1>3. [job |-> cur[w], status |-> "STARTED", txHash |-> FALSE, leased |-> claimed] \in Execution
  BY <1>1, <1>2 DEF Execution, claimed
<1>. QED  BY <1>3 DEF StartedRow, claimed

\* The audit log agrees with the rows as long as neither changes.
LEMMA AuditKept ==
    ASSUME AuditMatchesExecution, UNCHANGED <<audit, execs>>
    PROVE  AuditMatchesExecution'
BY DEF AuditMatchesExecution, ExecutionsOf, AuditRow

LEMMA EnqueueKeeps == ASSUME IInv, NEW j \in Job, Enqueue(j) PROVE IInv'
<1> USE ConstantsAssumption DEF IInv, histVars
<1>1. TypeOK'
  BY FirstOfSubset DEF TypeOK, JobStatus, Location, Outcome, Execution, ExecId, TxState,
     FinalStatus, SuccessStatus, AuditEntry, Undecided, Executing, Held, Owned, Enqueue, localVars
<1>2. Held'
  BY FirstOfSubset DEF TypeOK, Held, Enqueue, localVars
<1>3. Owned'
  BY <1>1 DEF TypeOK, Held, Owned, Executing, Enqueue, localVars
<1>4. Decided'
  BY <1>1 DEF TypeOK, JobStatus, Location, Outcome, Execution, ExecId, TxState, FinalStatus,
     SuccessStatus, AuditEntry, Undecided, Executing, Owned, Decided, Truthful, Enqueue, localVars
<1>5. Fresh' /\ ExecutionTellsTruth'
  BY <1>1 DEF TypeOK, ExecId, Owned, Decided, Fresh, Executing, ExecutionTellsTruth, Truthful,
     Enqueue, localVars
<1>6. AuditMatchesExecution'
  BY <1>1, AuditKept DEF TypeOK, Owned, Decided, Executing, Enqueue, localVars
<1>7. SucceededIsBacked'
  BY <1>1, BackedStep DEF TypeOK, Enqueue, localVars
<1>. QED  BY <1>1, <1>2, <1>3, <1>4, <1>5, <1>6, <1>7

LEMMA RetryFailedKeeps == ASSUME IInv, RetryFailed PROVE IInv'
<1> USE ConstantsAssumption DEF IInv, histVars
<1>1. TypeOK'
  BY FirstOfSubset DEF TypeOK, JobStatus, Location, Outcome, Execution, ExecId, TxState,
     FinalStatus, SuccessStatus, AuditEntry, Undecided, Executing, Held, Owned, RetryFailed,
     localVars
<1>2. Held'
  BY FirstOfSubset DEF TypeOK, Held, RetryFailed, localVars
<1>3. Owned'
  BY <1>1 DEF TypeOK, Held, Owned, Executing, RetryFailed, localVars
<1>4. Decided'
  BY <1>1 DEF TypeOK, JobStatus, Location, Outcome, Execution, ExecId, TxState, FinalStatus,
     SuccessStatus, AuditEntry, Undecided, Executing, Owned, Decided, Truthful, RetryFailed,
     localVars
<1>5. Fresh' /\ ExecutionTellsTruth'
  BY <1>1 DEF TypeOK, ExecId, Owned, Decided, Fresh, Executing, ExecutionTellsTruth, Truthful,
     RetryFailed, localVars
<1>6. AuditMatchesExecution'
  BY <1>1, AuditKept DEF TypeOK, Owned, Decided, Executing, RetryFailed, localVars
<1>7. SucceededIsBacked'
  BY <1>1, BackedStep DEF TypeOK, RetryFailed, localVars
<1>. QED  BY <1>1, <1>2, <1>3, <1>4, <1>5, <1>6, <1>7

LEMMA ClaimKeeps == ASSUME IInv, NEW w \in LeaseWorker, Claim(w) PROVE IInv'
<1> USE ConstantsAssumption DEF IInv, histVars
<1>1. TypeOK'
  BY FirstOfSubset DEF TypeOK, JobStatus, Location, Outcome, Execution, ExecId, TxState,
     FinalStatus, SuccessStatus, AuditEntry, Undecided, Executing, Held, Owned, Claim, Worker
<1>2. Held'
  BY FirstOfSubset DEF TypeOK, Held, Claim, Worker
<1>3. Owned'
  BY <1>1 DEF TypeOK, Held, Owned, Executing, Claim, Worker
<1>4. Decided'
  BY <1>1 DEF TypeOK, JobStatus, Location, Outcome, Execution, ExecId, TxState, FinalStatus,
     SuccessStatus, AuditEntry, Undecided, Executing, Owned, Decided, Truthful, Claim, Worker
<1>5. Fresh' /\ ExecutionTellsTruth'
  BY <1>1 DEF TypeOK, ExecId, Owned, Decided, Fresh, Executing, ExecutionTellsTruth, Truthful,
     Claim, Worker
<1>6. AuditMatchesExecution'
  BY <1>1, AuditKept DEF TypeOK, Owned, Decided, Executing, Claim, Worker
<1>7. SucceededIsBacked'
  BY <1>1, BackedStep DEF TypeOK, Claim, Worker
<1>. QED  BY <1>1, <1>2, <1>3, <1>4, <1>5, <1>6, <1>7

LEMMA SelectBatchKeeps == ASSUME IInv, NEW w \in DirectWorker, SelectBatch(w) PROVE IInv'
<1> USE ConstantsAssumption DEF IInv, histVars
<1>1. TypeOK'
  BY FirstOfSubset DEF TypeOK, JobStatus, Location, Outcome, Execution, ExecId, TxState,
     FinalStatus, SuccessStatus, AuditEntry, Undecided, Executing, Held, Owned, SelectBatch,
     Worker, rowVars, Pending
<1>2. Held'
  BY FirstOfSubset DEF TypeOK, Held, SelectBatch, Worker, rowVars, Pending
<1>3. Owned'
  BY <1>1 DEF TypeOK, Held, Owned, Executing, SelectBatch, Worker, rowVars, Pending
<1>4. Decided'
  BY <1>1 DEF TypeOK, JobStatus, Location, Outcome, Execution, ExecId, TxState, FinalStatus,
     SuccessStatus, AuditEntry, Undecided, Executing, Owned, Decided, Truthful, SelectBatch,
     Worker, rowVars, Pending
<1>5. Fresh' /\ ExecutionTellsTruth'
  BY <1>1 DEF TypeOK, ExecId, Owned, Decided, Fresh, Executing, ExecutionTellsTruth, Truthful,
     SelectBatch, Worker, rowVars, Pending
<1>6. AuditMatchesExecution'
  BY <1>1, AuditKept DEF TypeOK, Owned, Decided, Executing, SelectBatch, Worker,
     rowVars, Pending
<1>7. SucceededIsBacked'
  BY <1>1, BackedStep DEF TypeOK, SelectBatch, Worker, rowVars, Pending
<1>. QED  BY <1>1, <1>2, <1>3, <1>4, <1>5, <1>6, <1>7

LEMMA ExecuteByIdKeeps == ASSUME IInv, NEW w \in DirectWorker, NEW j \in Job, ExecuteById(w, j) PROVE IInv'
<1> USE ConstantsAssumption DEF IInv, histVars
<1>1. TypeOK'
  BY FirstOfSubset DEF TypeOK, JobStatus, Location, Outcome, Execution, ExecId, TxState,
     FinalStatus, SuccessStatus, AuditEntry, Undecided, Executing, Held, Owned, ExecuteById,
     Worker, rowVars
<1>2. Held'
  BY FirstOfSubset DEF TypeOK, Held, ExecuteById, Worker, rowVars
<1>3. Owned'
  BY <1>1 DEF TypeOK, Held, Owned, Executing, ExecuteById, Worker, rowVars
<1>4. Decided'
  BY <1>1 DEF TypeOK, JobStatus, Location, Outcome, Execution, ExecId, TxState, FinalStatus,
     SuccessStatus, AuditEntry, Undecided, Executing, Owned, Decided, Truthful, ExecuteById,
     Worker, rowVars
<1>5. Fresh' /\ ExecutionTellsTruth'
  BY <1>1 DEF TypeOK, ExecId, Owned, Decided, Fresh, Executing, ExecutionTellsTruth, Truthful,
     ExecuteById, Worker, rowVars
<1>6. AuditMatchesExecution'
  BY <1>1, AuditKept DEF TypeOK, Owned, Decided, Executing, ExecuteById, Worker, rowVars
<1>7. SucceededIsBacked'
  BY <1>1, BackedStep DEF TypeOK, ExecuteById, Worker, rowVars
<1>. QED  BY <1>1, <1>2, <1>3, <1>4, <1>5, <1>6, <1>7

LEMMA ReadJobKeeps == ASSUME IInv, NEW w \in DirectWorker, ReadJob(w) PROVE IInv'
<1> USE ConstantsAssumption DEF IInv, histVars
<1>0. PICK j \in todo[w] :
        /\ todo' = [todo EXCEPT ![w] = @ \ {j}]
        /\ \/ /\ cur' = [cur EXCEPT ![w] = j]
              /\ pc' = [pc EXCEPT ![w] = "emergency"]
           \/ /\ pc' = [pc EXCEPT ![w] = IF todo'[w] = {} THEN "idle" ELSE "next"]
              /\ UNCHANGED cur
  BY FirstOfSubset, Zenon DEF ReadJob
<1>1. TypeOK'
  <2>1. j \in Job /\ w \in Worker /\ todo[w] \ {j} \in SUBSET Job
    BY DEF TypeOK, Worker
  <2>2. todo' \in [Worker -> SUBSET Job]
    BY <1>0, <2>1 DEF TypeOK
  <2>3. pc' \in [Worker -> Location] /\ cur' \in [Worker -> Job \cup {NoJob}]
    BY <1>0, <2>1 DEF TypeOK, Location
  <2>. QED  BY <2>2, <2>3 DEF TypeOK, ReadJob, rowVars
<1>2. Held'
  BY <1>0 DEF TypeOK, Held, ReadJob, Worker
<1>3. Owned'
  BY <1>1 DEF TypeOK, Held, Owned, Executing, ReadJob, Worker, rowVars
<1>4. Decided'
  <2>1. UNCHANGED <<execs, tx, eid, plan>> /\ pc[w] = "next" /\ w \in Worker
    BY DEF ReadJob, rowVars, Worker
  <2>. QED  BY <1>0, <1>1, <2>1 DEF TypeOK, Decided
<1>5. Fresh' /\ ExecutionTellsTruth'
  BY <1>1 DEF TypeOK, ExecId, Owned, Decided, Fresh, Executing, ExecutionTellsTruth, Truthful,
     ReadJob, Worker, rowVars
<1>6. AuditMatchesExecution'
  BY <1>1, AuditKept DEF TypeOK, Owned, Decided, Executing, ReadJob, Worker, rowVars
<1>7. SucceededIsBacked'
  BY <1>1, BackedStep DEF TypeOK, ReadJob, Worker, rowVars
<1>. QED  BY <1>1, <1>2, <1>3, <1>4, <1>5, <1>6, <1>7

LEMMA CheckEmergencyKeeps == ASSUME IInv, NEW w \in Worker, CheckEmergency(w) PROVE IInv'
<1> USE ConstantsAssumption DEF IInv, histVars
<1>1. TypeOK'
  <2>1. plan' \in [Worker -> Outcome]
    BY DecideType DEF CheckEmergency, TypeOK, FinalStatus
  <2>. QED  BY <2>1 DEF TypeOK, CheckEmergency, Goto, Location, rowVars
<1>2. Held'
  BY FirstOfSubset DEF TypeOK, Held, CheckEmergency, rowVars, Decide, Goto, Undecided
<1>3. Owned'
  BY <1>1 DEF TypeOK, Held, Owned, Executing, CheckEmergency, rowVars, Decide, Goto, Undecided
<1>4. Decided'
  BY <1>1 DEF TypeOK, JobStatus, Location, Outcome, Execution, ExecId, TxState, FinalStatus,
     SuccessStatus, AuditEntry, Undecided, Executing, Owned, Decided, Truthful, CheckEmergency,
     rowVars, Decide, Goto
<1>5. Fresh' /\ ExecutionTellsTruth'
  BY <1>1 DEF TypeOK, ExecId, Owned, Decided, Fresh, Executing, ExecutionTellsTruth, Truthful,
     CheckEmergency, rowVars, Decide, Goto, Undecided
<1>6. AuditMatchesExecution'
  BY <1>1, AuditKept DEF TypeOK, Owned, Decided, Executing, CheckEmergency, rowVars,
     Decide, Goto, Undecided
<1>7. SucceededIsBacked'
  BY <1>1, BackedStep DEF TypeOK, CheckEmergency, rowVars, Decide, Goto, Undecided
<1>. QED  BY <1>1, <1>2, <1>3, <1>4, <1>5, <1>6, <1>7

LEMMA CreateExecutionKeeps == ASSUME IInv, NEW w \in Worker, CreateExecution(w) PROVE IInv'
<1> USE ConstantsAssumption DEF IInv, histVars
<1> DEFINE row == StartedRow(w)
<1>0. /\ row \in Execution
      /\ execs' \in Seq(Execution)
      /\ Len(execs') = Len(execs) + 1
      /\ \A e \in 1 .. Len(execs) : execs'[e] = execs[e]
      /\ execs'[Len(execs) + 1] = row
  <2>1. row \in Execution
    BY StartedRowType DEF CreateExecution
  <2>. QED  BY <2>1, AppendProperties DEF TypeOK, CreateExecution
<1> HIDE DEF row
<1>00. /\ row.job = cur[w] /\ row.status = "STARTED" /\ row.txHash = FALSE
       /\ Len(execs) \in Nat
       /\ Len(execs) + 1 \in 1 .. MaxExec
       /\ UNCHANGED <<status, audit, tx, cur, plan>>
  BY LenProperties DEF row, StartedRow, TypeOK, CreateExecution
<1>1. TypeOK'
  BY <1>0, <1>00 DEF TypeOK, CreateExecution, Goto, Location
<1>2. Held'
  BY FirstOfSubset DEF TypeOK, Held, CreateExecution, Goto, Undecided
<1>3. Owned'
  BY <1>0, <1>00, <1>1 DEF TypeOK, Owned, Executing, CreateExecution, Goto
<1>4. Decided'
  BY <1>0, <1>00 DEF TypeOK, Owned, Decided, Executing, CreateExecution, Goto, Undecided, ExecId,
     Fresh, Truthful, FinalStatus
<1>5. Fresh' /\ ExecutionTellsTruth'
  <2>1. Fresh'
    BY <1>0, <1>00 DEF Fresh, ExecId
  <2>2. ASSUME NEW e \in 1 .. Len(execs')
        PROVE  Truthful(execs'[e].status, execs'[e].txHash, tx'[e])
    <3>1. CASE e \in 1 .. Len(execs)
      BY <3>1, <1>0, <1>00 DEF ExecutionTellsTruth
    <3>2. CASE e = Len(execs) + 1
      BY <3>2, <1>0, <1>00 DEF Fresh, ExecId, Truthful
    <3>. QED  BY <3>1, <3>2, <1>0, <1>00
  <2>. QED  BY <2>1, <2>2 DEF ExecutionTellsTruth
<1>6. AuditMatchesExecution'
  <2>1. ASSUME NEW j \in Job, NEW e \in ExecutionsOf(j)
        PROVE  e \in ExecutionsOf(j)' /\ execs'[e] = execs[e]
    BY <1>0, <1>00 DEF ExecutionsOf
  <2>. QED  BY <1>00, <2>1 DEF TypeOK, AuditMatchesExecution, AuditEntry, AuditRow
<1>7. SucceededIsBacked'
  <2>1. /\ Len(execs') \in Nat /\ Len(execs) <= Len(execs') /\ UNCHANGED status
        /\ \A e \in 1 .. Len(execs) : execs'[e] = execs[e]
    BY <1>0, <1>00
  <2>. QED  BY <2>1, BackedStep
<1>. QED  BY <1>1, <1>2, <1>3, <1>4, <1>5, <1>6, <1>7

LEMMA MarkRunningKeeps == ASSUME IInv, NEW w \in Worker, MarkRunning(w) PROVE IInv'
<1> USE ConstantsAssumption DEF IInv, histVars
<1>1. TypeOK'
  BY FirstOfSubset DEF TypeOK, JobStatus, Location, Outcome, Execution, ExecId, TxState,
     FinalStatus, SuccessStatus, AuditEntry, Undecided, Executing, Held, Owned, MarkRunning, Goto
<1>2. Held'
  BY FirstOfSubset DEF TypeOK, Held, MarkRunning, Goto
<1>3. Owned'
  BY <1>1 DEF TypeOK, Held, Owned, Executing, MarkRunning, Goto
<1>4. Decided'
  BY <1>1 DEF TypeOK, JobStatus, Location, Outcome, Execution, ExecId, TxState, FinalStatus,
     SuccessStatus, AuditEntry, Undecided, Executing, Owned, Decided, Truthful, MarkRunning, Goto
<1>5. Fresh' /\ ExecutionTellsTruth'
  BY <1>1 DEF TypeOK, ExecId, Owned, Decided, Fresh, Executing, ExecutionTellsTruth, Truthful,
     MarkRunning, Goto
<1>6. AuditMatchesExecution'
  BY <1>1, AuditKept DEF TypeOK, Owned, Decided, Executing, MarkRunning, Goto
<1>7. SucceededIsBacked'
  BY <1>1, BackedStep DEF TypeOK, MarkRunning, Goto
<1>. QED  BY <1>1, <1>2, <1>3, <1>4, <1>5, <1>6, <1>7

LEMMA EvaluateKeeps == ASSUME IInv, NEW w \in Worker, Evaluate(w) PROVE IInv'
<1> USE ConstantsAssumption DEF IInv, histVars
<1>1. TypeOK'
  <2>1. plan' \in [Worker -> Outcome]
    BY DecideType DEF Evaluate, TypeOK, FinalStatus, SuccessStatus
  <2>. QED  BY <2>1 DEF TypeOK, Evaluate, Goto, Location, rowVars
<1>2. Held'
  BY FirstOfSubset DEF TypeOK, Held, Evaluate, Goto, Decide, rowVars, Undecided
<1>3. Owned'
  BY <1>1 DEF TypeOK, Held, Owned, Executing, Evaluate, Goto, Decide, rowVars, Undecided
<1>4. Decided'
  BY <1>1 DEF TypeOK, JobStatus, Location, Outcome, Execution, ExecId, TxState, FinalStatus,
     SuccessStatus, AuditEntry, Undecided, Executing, Owned, Decided, Truthful, Evaluate, Goto,
     Decide, rowVars
<1>5. Fresh' /\ ExecutionTellsTruth'
  BY <1>1 DEF TypeOK, ExecId, Owned, Decided, Fresh, Executing, ExecutionTellsTruth, Truthful,
     Evaluate, Goto, Decide, rowVars, Undecided
<1>6. AuditMatchesExecution'
  BY <1>1, AuditKept DEF TypeOK, Owned, Decided, Executing, Evaluate, Goto, Decide,
     rowVars, Undecided
<1>7. SucceededIsBacked'
  BY <1>1, BackedStep DEF TypeOK, Evaluate, Goto, Decide, rowVars, Undecided
<1>. QED  BY <1>1, <1>2, <1>3, <1>4, <1>5, <1>6, <1>7

LEMMA SubmitUnavailableKeeps == ASSUME IInv, NEW w \in Worker, SubmitUnavailable(w) PROVE IInv'
<1> USE ConstantsAssumption DEF IInv, histVars
<1>1. TypeOK'
  BY FirstOfSubset DEF TypeOK, JobStatus, Location, Outcome, Execution, ExecId, TxState,
     FinalStatus, SuccessStatus, AuditEntry, Undecided, Executing, Held, Owned, SubmitUnavailable,
     Goto, Decide, rowVars
<1>2. Held'
  BY FirstOfSubset DEF TypeOK, Held, SubmitUnavailable, Goto, Decide, rowVars, Undecided
<1>3. Owned'
  BY <1>1 DEF TypeOK, Held, Owned, Executing, SubmitUnavailable, Goto, Decide, rowVars, Undecided
<1>4. Decided'
  BY <1>1 DEF TypeOK, JobStatus, Location, Outcome, Execution, ExecId, TxState, FinalStatus,
     SuccessStatus, AuditEntry, Undecided, Executing, Owned, Decided, Truthful, SubmitUnavailable,
     Goto, Decide, rowVars
<1>5. Fresh' /\ ExecutionTellsTruth'
  BY <1>1 DEF TypeOK, ExecId, Owned, Decided, Fresh, Executing, ExecutionTellsTruth, Truthful,
     SubmitUnavailable, Goto, Decide, rowVars, Undecided
<1>6. AuditMatchesExecution'
  BY <1>1, AuditKept DEF TypeOK, Owned, Decided, Executing, SubmitUnavailable, Goto,
     Decide, rowVars, Undecided
<1>7. SucceededIsBacked'
  BY <1>1, BackedStep DEF TypeOK, SubmitUnavailable, Goto, Decide, rowVars, Undecided
<1>. QED  BY <1>1, <1>2, <1>3, <1>4, <1>5, <1>6, <1>7

LEMMA SubmitAcceptedKeeps == ASSUME IInv, NEW w \in Worker, SubmitAccepted(w) PROVE IInv'
<1> USE ConstantsAssumption DEF IInv, histVars
<1>1. TypeOK'
  <2>1. plan' \in [Worker -> Outcome]
    BY DecideType DEF SubmitAccepted, FinalStatus, SuccessStatus
  <2>. QED  BY <2>1 DEF TypeOK, SubmitAccepted, Goto, Location, TxState, rowVars
<1>2. Held'
  BY FirstOfSubset DEF TypeOK, Held, SubmitAccepted, Goto, Decide, rowVars, Undecided
<1>3. Owned'
  BY <1>1 DEF TypeOK, Held, Owned, Executing, SubmitAccepted, Goto, Decide, rowVars, Undecided
<1>4. Decided'
  BY <1>1 DEF TypeOK, JobStatus, Location, Outcome, Execution, ExecId, TxState, FinalStatus,
     SuccessStatus, AuditEntry, Undecided, Executing, Owned, Decided, Truthful, SubmitAccepted,
     Goto, Decide, rowVars
<1>5. Fresh' /\ ExecutionTellsTruth'
  BY <1>1 DEF TypeOK, ExecId, Owned, Decided, Fresh, Executing, ExecutionTellsTruth, Truthful,
     SubmitAccepted, Goto, Decide, rowVars, Undecided
<1>6. AuditMatchesExecution'
  BY <1>1, AuditKept DEF TypeOK, Owned, Decided, Executing, SubmitAccepted, Goto,
     Decide, rowVars, Undecided
<1>7. SucceededIsBacked'
  BY <1>1, BackedStep DEF TypeOK, SubmitAccepted, Goto, Decide, rowVars, Undecided
<1>. QED  BY <1>1, <1>2, <1>3, <1>4, <1>5, <1>6, <1>7

LEMMA SubmitFailedKeeps == ASSUME IInv, NEW w \in Worker, SubmitFailed(w) PROVE IInv'
<1> USE ConstantsAssumption DEF IInv, histVars
<1>1. TypeOK'
  BY FirstOfSubset DEF TypeOK, JobStatus, Location, Outcome, Execution, ExecId, TxState,
     FinalStatus, SuccessStatus, AuditEntry, Undecided, Executing, Held, Owned, SubmitFailed,
     Goto, Decide, rowVars
<1>2. Held'
  BY FirstOfSubset DEF TypeOK, Held, SubmitFailed, Goto, Decide, rowVars, Undecided
<1>3. Owned'
  BY <1>1 DEF TypeOK, Held, Owned, Executing, SubmitFailed, Goto, Decide, rowVars, Undecided
<1>4. Decided'
  BY <1>1 DEF TypeOK, JobStatus, Location, Outcome, Execution, ExecId, TxState, FinalStatus,
     SuccessStatus, AuditEntry, Undecided, Executing, Owned, Decided, Truthful, SubmitFailed,
     Goto, Decide, rowVars
<1>5. Fresh' /\ ExecutionTellsTruth'
  BY <1>1 DEF TypeOK, ExecId, Owned, Decided, Fresh, Executing, ExecutionTellsTruth, Truthful,
     SubmitFailed, Goto, Decide, rowVars, Undecided
<1>6. AuditMatchesExecution'
  BY <1>1, AuditKept DEF TypeOK, Owned, Decided, Executing, SubmitFailed, Goto,
     Decide, rowVars, Undecided
<1>7. SucceededIsBacked'
  BY <1>1, BackedStep DEF TypeOK, SubmitFailed, Goto, Decide, rowVars, Undecided
<1>. QED  BY <1>1, <1>2, <1>3, <1>4, <1>5, <1>6, <1>7

LEMMA ConfirmKeeps == ASSUME IInv, NEW w \in Worker, Confirm(w) PROVE IInv'
<1> USE ConstantsAssumption DEF IInv, histVars
<1>1. TypeOK'
  <2>1. plan' \in [Worker -> Outcome]
    BY DecideType DEF Confirm, FinalStatus, SuccessStatus
  <2>. QED  BY <2>1 DEF TypeOK, Confirm, Goto, Location, rowVars
<1>2. Held'
  BY FirstOfSubset DEF TypeOK, Held, Confirm, Goto, Decide, rowVars, Undecided
<1>3. Owned'
  BY <1>1 DEF TypeOK, Held, Owned, Executing, Confirm, Goto, Decide, rowVars, Undecided
<1>4. Decided'
  BY <1>1 DEF TypeOK, JobStatus, Location, Outcome, Execution, ExecId, TxState, FinalStatus,
     SuccessStatus, AuditEntry, Undecided, Executing, Owned, Decided, Truthful, Confirm, Goto,
     Decide, rowVars
<1>5. Fresh' /\ ExecutionTellsTruth'
  BY <1>1 DEF TypeOK, ExecId, Owned, Decided, Fresh, Executing, ExecutionTellsTruth, Truthful,
     Confirm, Goto, Decide, rowVars, Undecided
<1>6. AuditMatchesExecution'
  BY <1>1, AuditKept DEF TypeOK, Owned, Decided, Executing, Confirm, Goto, Decide,
     rowVars, Undecided
<1>7. SucceededIsBacked'
  BY <1>1, BackedStep DEF TypeOK, Confirm, Goto, Decide, rowVars, Undecided
<1>. QED  BY <1>1, <1>2, <1>3, <1>4, <1>5, <1>6, <1>7

LEMMA FinishExecutionKeeps == ASSUME IInv, NEW w \in Worker, FinishExecution(w) PROVE IInv'
<1> USE ConstantsAssumption DEF IInv, histVars
<1> DEFINE e == eid[w]
           row == [execs[e] EXCEPT !.status = plan[w].status, !.txHash = plan[w].txHash]
<1>0. /\ e \in 1 .. Len(execs)
      /\ e \in ExecId
      /\ execs[e] \in Execution
      /\ plan[w] \in Outcome
      /\ plan[w].status \in FinalStatus
      /\ Truthful(plan[w].status, plan[w].txHash, tx[e])
      /\ execs[e].status = "STARTED"
      /\ execs' = [execs EXCEPT ![e] = row]
      /\ UNCHANGED <<status, audit, tx, cur, eid, plan>>
  BY ElementOfSeq DEF TypeOK, Owned, Decided, Executing, FinishExecution, ExecId
<1>00. /\ row \in Execution
       /\ row.job = execs[e].job
       /\ row.status = plan[w].status
       /\ row.txHash = plan[w].txHash
  BY <1>0 DEF Execution, Outcome
<1>000. /\ execs' \in Seq(Execution)
        /\ Len(execs') = Len(execs)
        /\ \A f \in 1 .. Len(execs) : execs'[f] = IF f = e THEN row ELSE execs[f]
  BY <1>0, <1>00, ExceptSeq DEF TypeOK
<1> HIDE DEF row, e
<1>1. TypeOK'
  BY <1>000 DEF TypeOK, FinishExecution, Goto, Location
<1>2. Held'
  BY FirstOfSubset DEF TypeOK, Held, FinishExecution, Goto
<1>3. Owned'
  BY <1>0, <1>00, <1>000 DEF TypeOK, Owned, Executing, FinishExecution, Goto
<1>4. Decided'
  BY <1>0, <1>00, <1>000 DEF TypeOK, Owned, Decided, Executing, FinishExecution, Goto, e
<1>5. Fresh' /\ ExecutionTellsTruth'
  BY <1>0, <1>00, <1>000 DEF TypeOK, Fresh, ExecutionTellsTruth
<1>6. AuditMatchesExecution'
  <2>1. ASSUME NEW j \in Job, NEW f \in ExecutionsOf(j)
        PROVE  /\ f \in ExecutionsOf(j)'
               /\ execs[f].status \in FinalStatus => execs'[f] = execs[f]
    BY <1>0, <1>00, <1>000 DEF ExecutionsOf, FinalStatus, SuccessStatus
  <2>. QED  BY <1>0, <2>1 DEF TypeOK, AuditMatchesExecution, AuditEntry, AuditRow
<1>7. SucceededIsBacked'
  BY <1>0, <1>00, <1>000, BackedStep, LenProperties DEF TypeOK, SuccessStatus
<1>. QED  BY <1>1, <1>2, <1>3, <1>4, <1>5, <1>6, <1>7

LEMMA MarkJobKeeps == ASSUME IInv, NEW w \in Worker, MarkJob(w) PROVE IInv'
<1> USE ConstantsAssumption DEF IInv, histVars
<1>1. TypeOK'
  BY FirstOfSubset DEF TypeOK, JobStatus, Location, Outcome, Execution, ExecId, TxState,
     FinalStatus, SuccessStatus, AuditEntry, Undecided, Executing, Held, Owned, MarkJob, Goto,
     FailedStatus
<1>2. Held'
  BY FirstOfSubset DEF TypeOK, Held, MarkJob, Goto, FailedStatus
<1>3. Owned'
  BY <1>1 DEF TypeOK, Held, Owned, Executing, MarkJob, Goto, FailedStatus
<1>4. Decided'
  BY <1>1 DEF TypeOK, JobStatus, Location, Outcome, Execution, ExecId, TxState, FinalStatus,
     SuccessStatus, AuditEntry, Undecided, Executing, Owned, Decided, Truthful, MarkJob, Goto,
     FailedStatus
<1>5. Fresh' /\ ExecutionTellsTruth'
  BY <1>1 DEF TypeOK, ExecId, Owned, Decided, Fresh, Executing, ExecutionTellsTruth, Truthful,
     MarkJob, Goto, FailedStatus
<1>6. AuditMatchesExecution'
  BY <1>1, AuditKept DEF TypeOK, Owned, Decided, Executing, MarkJob, Goto, FailedStatus
<1>7. SucceededIsBacked'
  <2> SUFFICES ASSUME NEW j \in Job, status'[j] = "SUCCEEDED"
               PROVE  \E e \in ExecutionsOf(j)' : execs'[e].status \in SuccessStatus
    BY DEF SucceededIsBacked
  <2>1. CASE j = cur[w]
    <3>1. execs[eid[w]].status \in SuccessStatus /\ eid[w] \in ExecutionsOf(j)
      BY <2>1 DEF MarkJob, FailedStatus, Owned, Decided, Executing, ExecutionsOf, TypeOK
    <3>. QED  BY <3>1 DEF MarkJob, ExecutionsOf
  <2>2. CASE j # cur[w]
    BY <2>2 DEF MarkJob, SucceededIsBacked, ExecutionsOf, TypeOK
  <2>. QED  BY <2>1, <2>2
<1>. QED  BY <1>1, <1>2, <1>3, <1>4, <1>5, <1>6, <1>7

LEMMA WriteAuditKeeps == ASSUME IInv, NEW w \in Worker, WriteAudit(w) PROVE IInv'
<1> USE ConstantsAssumption DEF IInv, histVars
<1>0. cur[w] \in Job /\ eid[w] \in 0 .. MaxExec
  BY DEF TypeOK, Held, WriteAudit
<1>1. TypeOK'
  <2>1. AuditRow(cur[w], plan[w].status, eid[w]) \in AuditEntry
    BY <1>0 DEF AuditRow, AuditEntry
  <2>. QED  BY <2>1, ReturnType DEF TypeOK, WriteAudit, Return
<1>2. Held'
  BY FirstOfSubset DEF TypeOK, Held, WriteAudit, Goto, Return, AuditRow, Undecided
<1>3. Owned'
  BY <1>1 DEF TypeOK, Held, Owned, Executing, WriteAudit, Goto, Return, AuditRow, Undecided
<1>4. Decided'
  BY <1>1 DEF TypeOK, JobStatus, Location, Outcome, Execution, ExecId, TxState, FinalStatus,
     SuccessStatus, AuditEntry, Undecided, Executing, Owned, Decided, Truthful, WriteAudit, Goto,
     Return, AuditRow
<1>5. Fresh' /\ ExecutionTellsTruth'
  BY <1>1 DEF TypeOK, ExecId, Owned, Decided, Fresh, Executing, ExecutionTellsTruth, Truthful,
     WriteAudit, Goto, Return, AuditRow, Undecided
<1>6. AuditMatchesExecution'
  <2>1. /\ eid[w] \in ExecutionsOf(cur[w]) /\ eid[w] # 0
        /\ execs[eid[w]].status = plan[w].status /\ plan[w].status \in FinalStatus
    BY DEF WriteAudit, Owned, Decided, Executing, TypeOK, ExecutionsOf
  <2>2. audit' = audit \cup {AuditRow(cur[w], plan[w].status, eid[w])} /\ UNCHANGED execs
    BY DEF WriteAudit
  <2>. QED  BY <2>1, <2>2 DEF AuditMatchesExecution, AuditRow, ExecutionsOf
<1>7. SucceededIsBacked'
  BY <1>1, BackedStep DEF TypeOK, WriteAudit, Goto, Return, AuditRow, Undecided
<1>. QED  BY <1>1, <1>2, <1>3, <1>4, <1>5, <1>6, <1>7

LEMMA ThrowKeeps == ASSUME IInv, NEW w \in Worker, Throw(w) PROVE IInv'
<1> USE ConstantsAssumption DEF IInv, histVars
<1>1. TypeOK'
  <2>1. pc[w] = "audit" => cur[w] \in Job
    BY DEF TypeOK, Held
  <2>2. remarked' \subseteq Job
    BY <2>1 DEF TypeOK, Throw
  <2>. QED  BY <2>2 DEF TypeOK, Throw, Goto, Location, rowVars
<1>2. Held'
  BY FirstOfSubset DEF TypeOK, Held, Throw, Goto, rowVars
<1>3. Owned'
  BY <1>1 DEF TypeOK, Held, Owned, Executing, Throw, Goto, rowVars
<1>4. Decided'
  BY <1>1 DEF TypeOK, JobStatus, Location, Outcome, Execution, ExecId, TxState, FinalStatus,
     SuccessStatus, AuditEntry, Undecided, Executing, Owned, Decided, Truthful, Throw, Goto,
     rowVars
<1>5. Fresh' /\ ExecutionTellsTruth'
  BY <1>1 DEF TypeOK, ExecId, Owned, Decided, Fresh, Executing, ExecutionTellsTruth, Truthful,
     Throw, Goto, rowVars
<1>6. AuditMatchesExecution'
  BY <1>1, AuditKept DEF TypeOK, Owned, Decided, Executing, Throw, Goto, rowVars
<1>7. SucceededIsBacked'
  BY <1>1, BackedStep DEF TypeOK, Throw, Goto, rowVars
<1>. QED  BY <1>1, <1>2, <1>3, <1>4, <1>5, <1>6, <1>7

\* A non-empty set of numbers with an upper bound has a greatest element.
LEMMA MaxOfBounded ==
    ASSUME NEW n \in Nat, NEW S, S \subseteq 0 .. n, S # {}
    PROVE  \E e \in S : \A f \in S : f <= e
<1> DEFINE R == OpToRel(<, Nat)
           T == {n - e : e \in S}
<1>1. T \subseteq Nat /\ T # {}
  <2>1. \A e \in S : e \in Int /\ n - e \in Nat
    OBVIOUS
  <2>. QED  BY <2>1
<1>2. IsWellFoundedOn(R, Nat)
  BY NatLessThanWellFounded
<1> HIDE DEF R, T
<1>3. PICK x \in T : \A y \in T : ~(<<y, x>> \in R)
  BY <1>1, <1>2, WFMin
<1>4. \A y \in T : x <= y
  <2>1. R = {ss \in Nat \X Nat : ss[1] < ss[2]}
    BY DEF R, OpToRel
  <2>2. ASSUME NEW y \in T, y < x PROVE FALSE
    <3>1. <<y, x>> \in Nat \X Nat /\ <<y, x>>[1] < <<y, x>>[2]
      BY <1>1, <2>2
    <3>2. <<y, x>> \in R
      BY <2>1, <3>1
    <3>. QED  BY <1>3, <3>2
  <2>3. \A y \in T : y \in Nat /\ x \in Nat
    BY <1>1
  <2>. QED  BY <2>2, <2>3
<1>5. PICK e \in S : x = n - e
  BY DEF T
<1>6. \A f \in S : n - e <= n - f
  BY <1>4, <1>5 DEF T
<1>. QED  BY <1>6

\* The execution a catch clause names is one of the job's, if it has any.
LEMMA LatestIsOne ==
    ASSUME TypeOK, NEW j
    PROVE  LatestExecution(j) \in ExecutionsOf(j) \cup {0}
<1>1. CASE ExecutionsOf(j) = {}
  BY <1>1 DEF LatestExecution, ExecutionsOf
<1>2. CASE ExecutionsOf(j) # {}
  <2>1. ExecutionsOf(j) \subseteq 0 .. Len(execs)
    BY DEF ExecutionsOf, TypeOK
  <2>2. \E e \in ExecutionsOf(j) : \A f \in ExecutionsOf(j) : f <= e
    BY <1>2, <2>1, MaxOfBounded, LenProperties DEF TypeOK
  <2>. QED  BY <1>2, <2>2 DEF LatestExecution, ExecutionsOf
<1>. QED  BY <1>1, <1>2

LEMMA CatchMarkFailedKeeps == ASSUME IInv, NEW w \in Worker, CatchMarkFailed(w) PROVE IInv'
<1> USE ConstantsAssumption DEF IInv, histVars
<1>1. TypeOK'
  <2>1. status' \in [Job -> JobStatus]
    BY DEF TypeOK, CatchMarkFailed, FailedStatus, JobStatus
  <2>. QED  BY <2>1 DEF TypeOK, CatchMarkFailed, Goto, Location
<1>2. Held'
  BY FirstOfSubset DEF TypeOK, Held, CatchMarkFailed, Goto, FailedStatus
<1>3. Owned'
  BY <1>1 DEF TypeOK, Held, Owned, Executing, CatchMarkFailed, Goto, FailedStatus
<1>4. Decided'
  BY <1>1 DEF TypeOK, JobStatus, Location, Outcome, Execution, ExecId, TxState, FinalStatus,
     SuccessStatus, AuditEntry, Undecided, Executing, Owned, Decided, Truthful, CatchMarkFailed,
     Goto, FailedStatus
<1>5. Fresh' /\ ExecutionTellsTruth'
  BY <1>1 DEF TypeOK, ExecId, Owned, Decided, Fresh, Executing, ExecutionTellsTruth, Truthful,
     CatchMarkFailed, Goto, FailedStatus
<1>6. AuditMatchesExecution'
  BY <1>1, AuditKept DEF TypeOK, Owned, Decided, Executing, CatchMarkFailed, Goto,
     FailedStatus
<1>7. SucceededIsBacked'
  BY <1>1, BackedStep DEF TypeOK, CatchMarkFailed, Goto, FailedStatus
<1>. QED  BY <1>1, <1>2, <1>3, <1>4, <1>5, <1>6, <1>7

LEMMA CatchReportKeeps == ASSUME IInv, NEW w \in Worker, CatchReport(w) PROVE IInv'
<1> USE ConstantsAssumption DEF IInv, histVars
<1>0. cur[w] \in Job
  BY DEF TypeOK, Held, CatchReport
<1>1. TypeOK'
  <2>1. LatestExecution(cur[w]) \in 0 .. MaxExec
    <3>1. ExecutionsOf(cur[w]) \cup {0} \subseteq 0 .. MaxExec
      BY LenProperties DEF ExecutionsOf, TypeOK
    <3>. QED  BY <3>1, LatestIsOne
  <2> DEFINE row == [action |-> "failed", unexpected |-> TRUE,
                     job |-> cur[w], exec |-> LatestExecution(cur[w])]
  <2>3. row \in AuditEntry
    BY <2>1, <1>0 DEF AuditEntry
  <2>2. audit' \subseteq AuditEntry
    BY <2>3 DEF TypeOK, CatchReport
  <2>. QED  BY <2>2, ReturnType DEF TypeOK, CatchReport, Return
<1>2. Held'
  BY FirstOfSubset DEF TypeOK, Held, CatchReport, Goto, Return, Undecided
<1>3. Owned'
  BY <1>1 DEF TypeOK, Held, Owned, Executing, CatchReport, Goto, Return, Undecided
<1>4. Decided'
  BY <1>1 DEF TypeOK, JobStatus, Location, Outcome, Execution, ExecId, TxState, FinalStatus,
     SuccessStatus, AuditEntry, Undecided, Executing, Owned, Decided, Truthful, CatchReport,
     Goto, Return, Undecided
<1>5. Fresh' /\ ExecutionTellsTruth'
  BY <1>1 DEF TypeOK, ExecId, Owned, Decided, Fresh, Executing, ExecutionTellsTruth, Truthful,
     CatchReport, Goto, Return, Undecided
<1>6. AuditMatchesExecution'
  <2>1. /\ \/ audit' = audit \cup {[action |-> "failed", unexpected |-> TRUE,
                                   job |-> cur[w], exec |-> LatestExecution(cur[w])]}
           \/ UNCHANGED audit
        /\ UNCHANGED execs
    BY DEF CatchReport
  <2>. QED  BY <2>1, LatestIsOne DEF AuditMatchesExecution, AuditRow, ExecutionsOf
<1>7. SucceededIsBacked'
  BY <1>1, BackedStep DEF TypeOK, CatchReport, Goto, Return, Undecided
<1>. QED  BY <1>1, <1>2, <1>3, <1>4, <1>5, <1>6, <1>7

LEMMA CatchThrowsKeeps == ASSUME IInv, NEW w \in Worker, CatchThrows(w) PROVE IInv'
<1> USE ConstantsAssumption DEF IInv, histVars
<1>1. TypeOK'
  BY FirstOfSubset DEF TypeOK, JobStatus, Location, Outcome, Execution, ExecId, TxState,
     FinalStatus, SuccessStatus, AuditEntry, Undecided, Executing, Held, Owned, CatchThrows,
     Abandon, Goto, rowVars
<1>2. Held'
  BY FirstOfSubset DEF TypeOK, Held, CatchThrows, Abandon, Goto, rowVars, Undecided
<1>3. Owned'
  BY <1>1 DEF TypeOK, Held, Owned, Executing, CatchThrows, Abandon, Goto, rowVars, Undecided
<1>4. Decided'
  BY <1>1 DEF TypeOK, JobStatus, Location, Outcome, Execution, ExecId, TxState, FinalStatus,
     SuccessStatus, AuditEntry, Undecided, Executing, Owned, Decided, Truthful, CatchThrows,
     Abandon, Goto, rowVars
<1>5. Fresh' /\ ExecutionTellsTruth'
  BY <1>1 DEF TypeOK, ExecId, Owned, Decided, Fresh, Executing, ExecutionTellsTruth, Truthful,
     CatchThrows, Abandon, Goto, rowVars, Undecided
<1>6. AuditMatchesExecution'
  BY <1>1, AuditKept DEF TypeOK, Owned, Decided, Executing, CatchThrows, Abandon,
     Goto, rowVars, Undecided
<1>7. SucceededIsBacked'
  BY <1>1, BackedStep DEF TypeOK, CatchThrows, Abandon, Goto, rowVars, Undecided
<1>. QED  BY <1>1, <1>2, <1>3, <1>4, <1>5, <1>6, <1>7

LEMMA CrashKeeps == ASSUME IInv, NEW w \in Worker, Crash(w) PROVE IInv'
<1> USE ConstantsAssumption DEF IInv, histVars
<1>1. TypeOK'
  BY FirstOfSubset DEF TypeOK, JobStatus, Location, Outcome, Execution, ExecId, TxState,
     FinalStatus, SuccessStatus, AuditEntry, Undecided, Executing, Held, Owned, Crash, Abandon,
     Goto, rowVars
<1>2. Held'
  BY FirstOfSubset DEF TypeOK, Held, Crash, Abandon, Goto, rowVars, Undecided
<1>3. Owned'
  BY <1>1 DEF TypeOK, Held, Owned, Executing, Crash, Abandon, Goto, rowVars, Undecided
<1>4. Decided'
  BY <1>1 DEF TypeOK, JobStatus, Location, Outcome, Execution, ExecId, TxState, FinalStatus,
     SuccessStatus, AuditEntry, Undecided, Executing, Owned, Decided, Truthful, Crash, Abandon,
     Goto, rowVars
<1>5. Fresh' /\ ExecutionTellsTruth'
  BY <1>1 DEF TypeOK, ExecId, Owned, Decided, Fresh, Executing, ExecutionTellsTruth, Truthful,
     Crash, Abandon, Goto, rowVars, Undecided
<1>6. AuditMatchesExecution'
  BY <1>1, AuditKept DEF TypeOK, Owned, Decided, Executing, Crash, Abandon, Goto,
     rowVars, Undecided
<1>7. SucceededIsBacked'
  BY <1>1, BackedStep DEF TypeOK, Crash, Abandon, Goto, rowVars, Undecided
<1>. QED  BY <1>1, <1>2, <1>3, <1>4, <1>5, <1>6, <1>7

LEMMA TogglePauseKeeps == ASSUME IInv, TogglePause PROVE IInv'
<1> USE ConstantsAssumption DEF IInv, histVars
<1>1. TypeOK'
  BY FirstOfSubset DEF TypeOK, JobStatus, Location, Outcome, Execution, ExecId, TxState,
     FinalStatus, SuccessStatus, AuditEntry, Undecided, Executing, Held, Owned, TogglePause,
     rowVars, localVars
<1>2. Held'
  BY FirstOfSubset DEF TypeOK, Held, TogglePause, rowVars, localVars
<1>3. Owned'
  BY <1>1 DEF TypeOK, Held, Owned, Executing, TogglePause, rowVars, localVars
<1>4. Decided'
  BY <1>1 DEF TypeOK, JobStatus, Location, Outcome, Execution, ExecId, TxState, FinalStatus,
     SuccessStatus, AuditEntry, Undecided, Executing, Owned, Decided, Truthful, TogglePause,
     rowVars, localVars
<1>5. Fresh' /\ ExecutionTellsTruth'
  BY <1>1 DEF TypeOK, ExecId, Owned, Decided, Fresh, Executing, ExecutionTellsTruth, Truthful,
     TogglePause, rowVars, localVars
<1>6. AuditMatchesExecution'
  BY <1>1, AuditKept DEF TypeOK, Owned, Decided, Executing, TogglePause, rowVars,
     localVars
<1>7. SucceededIsBacked'
  BY <1>1, BackedStep DEF TypeOK, TogglePause, rowVars, localVars
<1>. QED  BY <1>1, <1>2, <1>3, <1>4, <1>5, <1>6, <1>7

LEMMA RelayerTakesUpKeeps == ASSUME IInv, NEW e \in ExecId, RelayerTakesUp(e) PROVE IInv'
<1> USE ConstantsAssumption DEF IInv, histVars
<1>1. TypeOK'
  BY FirstOfSubset DEF TypeOK, JobStatus, Location, Outcome, Execution, ExecId, TxState,
     FinalStatus, SuccessStatus, AuditEntry, Undecided, Executing, Held, Owned, RelayerTakesUp,
     rowVars, localVars
<1>2. Held'
  BY FirstOfSubset DEF TypeOK, Held, RelayerTakesUp, rowVars, localVars
<1>3. Owned'
  BY <1>1 DEF TypeOK, Held, Owned, Executing, RelayerTakesUp, rowVars, localVars
<1>4. Decided'
  BY <1>1 DEF TypeOK, JobStatus, Location, Outcome, Execution, ExecId, TxState, FinalStatus,
     SuccessStatus, AuditEntry, Undecided, Executing, Owned, Decided, Truthful, RelayerTakesUp,
     rowVars, localVars
<1>5. Fresh' /\ ExecutionTellsTruth'
  BY <1>1 DEF TypeOK, ExecId, Owned, Decided, Fresh, Executing, ExecutionTellsTruth, Truthful,
     RelayerTakesUp, rowVars, localVars
<1>6. AuditMatchesExecution'
  BY <1>1, AuditKept DEF TypeOK, Owned, Decided, Executing, RelayerTakesUp, rowVars,
     localVars
<1>7. SucceededIsBacked'
  BY <1>1, BackedStep DEF TypeOK, RelayerTakesUp, rowVars, localVars
<1>. QED  BY <1>1, <1>2, <1>3, <1>4, <1>5, <1>6, <1>7

LEMMA SettleKeeps == ASSUME IInv, NEW e \in ExecId, Settle(e) PROVE IInv'
<1> USE ConstantsAssumption DEF IInv, histVars
<1>1. TypeOK'
  BY FirstOfSubset DEF TypeOK, JobStatus, Location, Outcome, Execution, ExecId, TxState,
     FinalStatus, SuccessStatus, AuditEntry, Undecided, Executing, Held, Owned, Settle, rowVars,
     localVars
<1>2. Held'
  BY FirstOfSubset DEF TypeOK, Held, Settle, rowVars, localVars
<1>3. Owned'
  BY <1>1 DEF TypeOK, Held, Owned, Executing, Settle, rowVars, localVars
<1>4. Decided'
  BY <1>1 DEF TypeOK, JobStatus, Location, Outcome, Execution, ExecId, TxState, FinalStatus,
     SuccessStatus, AuditEntry, Undecided, Executing, Owned, Decided, Truthful, Settle, rowVars,
     localVars
<1>5. Fresh' /\ ExecutionTellsTruth'
  BY <1>1 DEF TypeOK, ExecId, Owned, Decided, Fresh, Executing, ExecutionTellsTruth, Truthful,
     Settle, rowVars, localVars
<1>6. AuditMatchesExecution'
  BY <1>1, AuditKept DEF TypeOK, Owned, Decided, Executing, Settle, rowVars, localVars
<1>7. SucceededIsBacked'
  BY <1>1, BackedStep DEF TypeOK, Settle, rowVars, localVars
<1>. QED  BY <1>1, <1>2, <1>3, <1>4, <1>5, <1>6, <1>7

LEMMA StutterKeeps == ASSUME IInv, UNCHANGED vars PROVE IInv'
BY DEF vars, IInv, TypeOK, Held, Owned, Decided, Fresh, ExecutionTellsTruth, AuditMatchesExecution,
   SucceededIsBacked, ExecutionsOf

\* Every step keeps the invariant.
LEMMA NextKeeps == IInv /\ [Next]_vars => IInv'
<1> SUFFICES ASSUME IInv, Next PROVE IInv'
  BY StutterKeeps
<1>1. CASE \E j \in Job : Enqueue(j)
  BY <1>1, EnqueueKeeps
<1>2. CASE RetryFailed
  BY <1>2, RetryFailedKeeps
<1>3. CASE \E w \in LeaseWorker : Claim(w)
  BY <1>3, ClaimKeeps
<1>4. CASE \E w \in DirectWorker : SelectBatch(w) \/ ReadJob(w) \/ \E j \in Job : ExecuteById(w, j)
  BY <1>4, SelectBatchKeeps, ReadJobKeeps, ExecuteByIdKeeps
<1>5. ASSUME NEW w \in Worker, Step(w) PROVE IInv'
  BY <1>5, CheckEmergencyKeeps, CreateExecutionKeeps, MarkRunningKeeps, EvaluateKeeps,
     SubmitUnavailableKeeps,
     SubmitAcceptedKeeps, SubmitFailedKeeps, ConfirmKeeps, FinishExecutionKeeps, MarkJobKeeps, WriteAuditKeeps,
     ThrowKeeps, CatchMarkFailedKeeps, CatchReportKeeps, CatchThrowsKeeps, CrashKeeps DEF Step
<1>6. CASE TogglePause
  BY <1>6, TogglePauseKeeps
<1>7. CASE \E e \in ExecId : RelayerTakesUp(e) \/ Settle(e)
  BY <1>7, RelayerTakesUpKeeps, SettleKeeps
<1>. QED  BY <1>1, <1>2, <1>3, <1>4, <1>5, <1>6, <1>7 DEF Next

\* The inductive invariant holds in every reachable state.
THEOREM Invariance == Spec => []IInv
BY InitIInv, NextKeeps, PTL DEF Spec

\* Every variable has its type: rows, audit entries and transactions are about
\* executions that exist, and no worker writes a status outside the enum.
THEOREM TypeCorrect == Spec => []TypeOK
BY Invariance, PTL DEF IInv

\* A SUCCEEDED job has an execution that finished in success, however many
\* workers execute it at once and whatever fails or crashes in between.
THEOREM SuccessBacked == Spec => []SucceededIsBacked
BY Invariance, PTL DEF IInv

\* The execution rows tell the truth about their transactions.
THEOREM ExecutionTruth == Spec => []ExecutionTellsTruth
BY Invariance, PTL DEF IInv

\* Every audit row that names an execution names one of its job, and those that
\* executeSingleJob wrote tell its status.
THEOREM AuditAgreement == Spec => []AuditMatchesExecution
BY Invariance, PTL DEF IInv

-----------------------------------------------------------------------------
(***************************************************************************)
(* A finished execution row is final: only its owner writes it, and its    *)
(* owner writes it once, while the row is STARTED.                         *)
(***************************************************************************)
LEMMA FinishedStep ==
    ASSUME IInv, [Next]_vars, NEW e \in 1 .. Len(execs), execs[e].status # "STARTED"
    PROVE  execs'[e] = execs[e]
<1>1. ASSUME NEW w \in Worker, CreateExecution(w) PROVE execs'[e] = execs[e]
  <2>1. StartedRow(w) \in Execution
    BY <1>1, StartedRowType DEF IInv, CreateExecution
  <2>. QED  BY <1>1, <2>1, AppendProperties DEF IInv, TypeOK, CreateExecution
<1>2. ASSUME NEW w \in Worker, FinishExecution(w) PROVE execs'[e] = execs[e]
  <2>1. eid[w] # e /\ eid[w] \in 1 .. Len(execs)
    BY <1>2 DEF IInv, Owned, Decided, Executing, FinishExecution
  <2>. QED  BY <1>2, <2>1 DEF IInv, TypeOK, FinishExecution
<1>3. CASE UNCHANGED execs
  BY <1>3
<1>4. \/ UNCHANGED execs
      \/ \E w \in Worker : CreateExecution(w) \/ FinishExecution(w)
  BY DEF Next, Step, vars, rowVars, localVars, Enqueue, RetryFailed, Claim, SelectBatch, ReadJob,
     ExecuteById,
     CheckEmergency, MarkRunning, Evaluate, SubmitUnavailable, SubmitAccepted, SubmitFailed, Confirm, MarkJob,
     WriteAudit, Throw, CatchMarkFailed, CatchReport, CatchThrows, Crash, Abandon, TogglePause, RelayerTakesUp, Settle
<1>. QED  BY <1>1, <1>2, <1>3, <1>4

\* No step of any worker changes an execution row that has finished.
THEOREM FinishedFinal == Spec => FinishedExecutionIsFinal
<1>1. IInv /\ [Next]_vars =>
        [\A e \in 1 .. Len(execs) : execs[e].status # "STARTED" => execs'[e] = execs[e]]_vars
  BY FinishedStep
<1>. QED  BY <1>1, Invariance, PTL DEF Spec, FinishedExecutionIsFinal

-----------------------------------------------------------------------------
(***************************************************************************)
(* Only a crash, or a catch clause that fails itself, strands a job.       *)
(***************************************************************************)
LEMMA StrandInit == Init => OnlyCrashStrandsAJob
BY DEF Init, OnlyCrashStrandsAJob

LEMMA StrandStep == ASSUME IInv, OnlyCrashStrandsAJob, [Next]_vars PROVE OnlyCrashStrandsAJob'
<1> USE DEF IInv, TypeOK, OnlyCrashStrandsAJob, histVars
<1>1. ASSUME NEW w \in LeaseWorker, Claim(w) PROVE OnlyCrashStrandsAJob'
  <2>1. PICK j \in Job : /\ status' = [status EXCEPT ![j] = "LEASED"]
                         /\ cur' = [cur EXCEPT ![w] = j]
    BY <1>1, FirstOfSubset DEF Claim
  <2>2. /\ pc' = [pc EXCEPT ![w] = "emergency"] /\ cur[w] = NoJob /\ w \in Worker
        /\ UNCHANGED orphaned
    BY <1>1 DEF Claim, Held, Worker
  <2>. QED  BY <2>1, <2>2, ConstantsAssumption DEF Unmarked
<1>2. ASSUME NEW w \in Worker, MarkRunning(w) PROVE OnlyCrashStrandsAJob'
  BY <1>2 DEF MarkRunning, Goto, Unmarked
<1>3. ASSUME NEW w \in Worker, MarkJob(w) PROVE OnlyCrashStrandsAJob'
  BY <1>3 DEF MarkJob, FailedStatus, Goto, Unmarked, Held
<1>4. ASSUME NEW w \in Worker, CatchMarkFailed(w) PROVE OnlyCrashStrandsAJob'
  BY <1>4 DEF CatchMarkFailed, FailedStatus, Goto, Unmarked, Held
<1>5. ASSUME NEW w \in Worker, Abandon(w) PROVE OnlyCrashStrandsAJob'
  BY <1>5, ConstantsAssumption DEF Abandon, rowVars, Goto, Unmarked
<1>6. ASSUME NEW w \in Worker,
             \/ CheckEmergency(w) \/ CreateExecution(w) \/ Evaluate(w) \/ SubmitUnavailable(w)
             \/ SubmitAccepted(w) \/ SubmitFailed(w) \/ Confirm(w) \/ FinishExecution(w) \/ Throw(w)
      PROVE OnlyCrashStrandsAJob'
  <2>1. /\ UNCHANGED <<status, cur, orphaned>>
        /\ \E l \in Unmarked : pc' = [pc EXCEPT ![w] = l]
    BY <1>6 DEF CheckEmergency, CreateExecution, Evaluate, SubmitUnavailable, SubmitAccepted,
       SubmitFailed,
       Confirm, FinishExecution, Throw, Goto, Unmarked, rowVars
  <2>. QED  BY <2>1
<1>7. ASSUME NEW w \in Worker, WriteAudit(w) \/ CatchReport(w) PROVE OnlyCrashStrandsAJob'
  <2>1. /\ UNCHANGED <<status, orphaned>> /\ pc[w] \notin Unmarked
        /\ \A v \in Worker \ {w} : cur'[v] = cur[v] /\ pc'[v] = pc[v]
    BY <1>7 DEF WriteAudit, CatchReport, Return, Goto, Unmarked
  <2>. QED  BY <2>1
<1>8. ASSUME NEW w \in DirectWorker,
             SelectBatch(w) \/ ReadJob(w) \/ \E j \in Job : ExecuteById(w, j)
      PROVE OnlyCrashStrandsAJob'
  <2>1. /\ UNCHANGED <<status, orphaned>> /\ cur[w] = NoJob
        /\ \A v \in Worker \ {w} : cur'[v] = cur[v] /\ pc'[v] = pc[v]
    <3>1. w \in Worker /\ pc[w] \in {"idle", "next"}
      BY <1>8 DEF SelectBatch, ReadJob, ExecuteById, Worker
    <3>2. cur[w] = NoJob
      BY <3>1 DEF Held
    <3>3. UNCHANGED <<status, orphaned>>
      BY <1>8 DEF SelectBatch, ReadJob, ExecuteById, rowVars
    <3>4. /\ \E l \in Location : pc' = [pc EXCEPT ![w] = l]
          /\ UNCHANGED cur \/ \E k : cur' = [cur EXCEPT ![w] = k]
      BY <1>8 DEF SelectBatch, ReadJob, ExecuteById, Location
    <3>. QED  BY <3>2, <3>3, <3>4
  <2> SUFFICES ASSUME NEW j \in Job, status[j] \in {"LEASED", "RUNNING"}, j \notin orphaned
               PROVE  \E v \in Worker : cur'[v] = j /\ pc'[v] \in Unmarked
    BY <2>1
  <2>2. PICK v \in Worker : cur[v] = j /\ pc[v] \in Unmarked
    OBVIOUS
  <2>3. v # w
    BY <2>1, <2>2, ConstantsAssumption
  <2>. QED  BY <2>1, <2>2, <2>3
<1>9. CASE (\E j \in Job : Enqueue(j)) \/ RetryFailed
  <2>1. /\ UNCHANGED <<pc, cur, orphaned>>
        /\ \A j \in Job : status'[j] \in {"LEASED", "RUNNING"} => status[j] \in {"LEASED", "RUNNING"}
    BY <1>9 DEF Enqueue, RetryFailed, localVars
  <2>. QED  BY <2>1
<1>10. CASE TogglePause \/ (\E e \in ExecId : RelayerTakesUp(e) \/ Settle(e)) \/ UNCHANGED vars
  BY <1>10 DEF TogglePause, RelayerTakesUp, Settle, rowVars, localVars, vars
<1>. QED
  BY <1>1, <1>2, <1>3, <1>4, <1>5, <1>6, <1>7, <1>8, <1>9, <1>10 DEF Next, Step, CatchThrows, Crash

\* A job that no worker is about to mark is LEASED or RUNNING only after a crash.
THEOREM OnlyCrashStrands == Spec => []OnlyCrashStrandsAJob
BY StrandInit, StrandStep, Invariance, PTL DEF Spec

-----------------------------------------------------------------------------
(***************************************************************************)
(* A success that no worker holds is final.  A row is written only by a    *)
(* retry, which takes FAILED rows, by a claim, which takes QUEUED rows,    *)
(* and by the worker that holds it; a worker takes hold of a row only      *)
(* after it has read a status that is not SUCCEEDED.                       *)
(***************************************************************************)
Quiet(j) == status[j] = "SUCCEEDED" /\ \A w \in Worker : cur[w] # j

\* A worker inside executeSingleJob writes no row but its own, and keeps or drops it.
LEMMA QuietWorker ==
    ASSUME IInv, NEW j \in Job, Quiet(j), NEW w \in Worker, Step(w)
    PROVE  Quiet(j)'
<1> USE DEF IInv, TypeOK, Quiet
<1>1. CASE MarkRunning(w) \/ MarkJob(w)
  BY <1>1 DEF MarkRunning, MarkJob, Goto
<1>2. CASE CatchMarkFailed(w)
  BY <1>2 DEF CatchMarkFailed, Goto
<1>3. CASE WriteAudit(w) \/ CatchReport(w)
  BY <1>3, ConstantsAssumption DEF WriteAudit, CatchReport, Return
<1>4. CASE Abandon(w)
  BY <1>4, ConstantsAssumption DEF Abandon, rowVars
<1>5. CASE UNCHANGED <<status, cur>>
  BY <1>5
<1>. QED
  BY <1>1, <1>2, <1>3, <1>4, <1>5 DEF Step, CheckEmergency, CreateExecution, Evaluate, SubmitUnavailable,
     SubmitAccepted, SubmitFailed, Confirm, FinishExecution, Throw, CatchThrows, Crash, rowVars

LEMMA QuietStep ==
    ASSUME IInv, NEW j \in Job, Quiet(j), [Next]_vars
    PROVE  Quiet(j)'
<1> USE DEF IInv, TypeOK, Quiet
<1>1. CASE (\E k \in Job : Enqueue(k)) \/ RetryFailed
  BY <1>1 DEF Enqueue, RetryFailed, localVars
<1>2. ASSUME NEW w \in LeaseWorker, Claim(w) PROVE Quiet(j)'
  <2>1. PICK k \in Job : /\ status[k] = "QUEUED"
                         /\ status' = [status EXCEPT ![k] = "LEASED"]
                         /\ cur' = [cur EXCEPT ![w] = k]
    BY <1>2 DEF Claim, FirstOf
  <2>. QED  BY <2>1
<1>3. ASSUME NEW w \in DirectWorker, ReadJob(w) PROVE Quiet(j)'
  <2>1. PICK k : \/ status[k] \in {"QUEUED", "FAILED"} /\ cur' = [cur EXCEPT ![w] = k]
                 \/ UNCHANGED cur
    BY <1>3 DEF ReadJob
  <2>2. UNCHANGED status
    BY <1>3 DEF ReadJob, rowVars
  <2>. QED  BY <2>1, <2>2
<1>4. CASE UNCHANGED <<status, cur>>
  BY <1>4
<1>5. \/ \E k \in Job : Enqueue(k)
      \/ RetryFailed
      \/ \E w \in LeaseWorker : Claim(w)
      \/ \E w \in DirectWorker : ReadJob(w)
      \/ \E w \in Worker : Step(w)
      \/ UNCHANGED <<status, cur>>
  BY DEF Next, SelectBatch, ExecuteById, TogglePause, RelayerTakesUp, Settle, rowVars, localVars, vars
<1>. QED  BY <1>1, <1>2, <1>3, <1>4, <1>5, QuietWorker

\* A job that succeeded and is in nobody's hands stays so, on both paths and whatever
\* fails: no retry, no second enqueue and no second read opens it again.
THEOREM QuietSuccessFinal == Spec => QuietSuccessIsFinal
<1>1. IInv /\ [Next]_vars =>
        [\A j \in Job : status[j] = "SUCCEEDED" /\ (\A w \in Worker : cur[w] # j)
            => status'[j] = "SUCCEEDED" /\ \A w \in Worker : cur'[w] # j]_vars
  BY QuietStep DEF Quiet
<1>. QED  BY <1>1, Invariance, PTL DEF Spec, QuietSuccessIsFinal

-----------------------------------------------------------------------------
(***************************************************************************)
(* Attempts.  Whatever the direct path does with a job meanwhile, a row    *)
(* that can be claimed has attempts left, and its attempt column counts    *)
(* the executions made through claims and the claims that have not made    *)
(* theirs yet.                                                             *)
(***************************************************************************)
Count(j) == Cardinality(ClaimedExecutionsOf(j))

\* The workers that have claimed job j and have not created its execution row.
Claiming(j) == {w \in LeaseWorker : cur[w] = j /\ pc[w] \in {"emergency", "create"}}

AttemptsLeft ==
    \A j \in Job :
        /\ attempt[j] <= MaxAttempts
        /\ status[j] \in {"ABSENT", "QUEUED", "FAILED"} => attempt[j] < MaxAttempts

AttemptsCount ==
    \A j \in Job : /\ IsFiniteSet(Claiming(j))
                   /\ Count(j) + Cardinality(Claiming(j)) <= attempt[j]

AttemptInv == AttemptsLeft /\ AttemptsCount

LEMMA AttemptInit == Init => AttemptInv
<1> SUFFICES ASSUME Init PROVE AttemptInv
  OBVIOUS
<1>1. ASSUME NEW j \in Job PROVE ClaimedExecutionsOf(j) = {} /\ Claiming(j) = {}
  BY DEF Init, ExecutionsOf, ClaimedExecutionsOf, Claiming, Worker
<1>2. \A j \in Job : Count(j) = 0 /\ IsFiniteSet(Claiming(j)) /\ Cardinality(Claiming(j)) = 0
  BY <1>1, FS_EmptySet DEF Count
<1>. QED  BY <1>2, ConstantsAssumption DEF Init, AttemptInv, AttemptsLeft, AttemptsCount

\* The executions of a job are finitely many.
LEMMA ExecutionsFinite ==
    ASSUME TypeOK, NEW j
    PROVE  IsFiniteSet(ClaimedExecutionsOf(j)) /\ Count(j) \in Nat
<1>1. IsFiniteSet(1 .. Len(execs))
  BY FS_Interval DEF TypeOK
<1>2. IsFiniteSet(ClaimedExecutionsOf(j))
  BY <1>1, FS_Subset DEF ExecutionsOf, ClaimedExecutionsOf
<1>. QED  BY <1>2, FS_CardinalityType DEF Count

\* A claiming worker's new execution row adds one to its job, a direct worker's none.
LEMMA ExecutionsGrow ==
    ASSUME IInv, NEW w \in Worker, CreateExecution(w), NEW j
    PROVE  Count(j)' = IF j = cur[w] /\ w \in LeaseWorker THEN Count(j) + 1 ELSE Count(j)
<1> DEFINE row == StartedRow(w)
<1>1. /\ row \in Execution /\ execs' = Append(execs, row)
      /\ row.job = cur[w] /\ (row.leased <=> w \in LeaseWorker)
  BY StartedRowType DEF IInv, StartedRow, CreateExecution
<1>2. /\ Len(execs') = Len(execs) + 1 /\ Len(execs) \in Nat
      /\ \A e \in 1 .. Len(execs) : execs'[e] = execs[e]
      /\ execs'[Len(execs) + 1] = row
  BY <1>1, AppendProperties, LenProperties DEF IInv, TypeOK
<1> HIDE DEF row
<1>3. ClaimedExecutionsOf(j)' = IF j = cur[w] /\ w \in LeaseWorker
                                THEN ClaimedExecutionsOf(j) \cup {Len(execs) + 1}
                                ELSE ClaimedExecutionsOf(j)
  BY <1>1, <1>2 DEF ExecutionsOf, ClaimedExecutionsOf
<1>4. Len(execs) + 1 \notin ClaimedExecutionsOf(j)
  BY <1>2 DEF ExecutionsOf, ClaimedExecutionsOf
<1>. QED  BY <1>3, <1>4, ExecutionsFinite, FS_AddElement DEF IInv, Count

\* Finishing a row does not move it to another job or another path.
LEMMA ExecutionsKept ==
    ASSUME IInv, NEW w \in Worker, FinishExecution(w), NEW j
    PROVE  Count(j)' = Count(j)
<1>1. eid[w] \in 1 .. Len(execs) /\ execs[eid[w]] \in Execution
  BY ElementOfSeq DEF IInv, TypeOK, Owned, Executing, FinishExecution
<1>2. /\ Len(execs') = Len(execs)
      /\ \A e \in 1 .. Len(execs) : execs'[e].job = execs[e].job /\ execs'[e].leased = execs[e].leased
  BY <1>1 DEF IInv, TypeOK, FinishExecution, Execution
<1>3. ClaimedExecutionsOf(j)' = ClaimedExecutionsOf(j)
  BY <1>2 DEF ExecutionsOf, ClaimedExecutionsOf
<1>. QED  BY <1>3 DEF Count

\* Nor does a step that leaves the rows alone.
LEMMA CountKept == ASSUME UNCHANGED execs, NEW j PROVE Count(j)' = Count(j)
BY DEF Count, ExecutionsOf, ClaimedExecutionsOf

\* The types the arguments about attempts and leases need.
LEMMA LeaseTypes ==
    ASSUME IInv
    PROVE  /\ status \in [Job -> JobStatus] /\ attempt \in [Job -> Nat]
           /\ pc \in [Worker -> Location] /\ cur \in [Worker -> Job \cup {NoJob}]
           /\ \A w \in Worker : pc[w] \in Unmarked \cup {"audit", "report"} => cur[w] \in Job
           /\ \A w \in Worker : pc[w] \in {"idle", "next"} => cur[w] = NoJob
           /\ \A j \in Job : Count(j) \in Nat
           /\ remarked \subseteq Job
BY ExecutionsFinite DEF IInv, TypeOK, Held, Unmarked

\* No step but a claim takes a row with no attempts left to a status that can be claimed.
LEMMA AttemptsLeftStep ==
    ASSUME IInv, AttemptsLeft, [Next]_vars
    PROVE  AttemptsLeft'
<1> USE LeaseTypes, ConstantsAssumption DEF AttemptsLeft
<1>1. ASSUME NEW w \in LeaseWorker, Claim(w) PROVE AttemptsLeft'
  <2>1. PICK j \in Job : /\ status[j] = "QUEUED"
                         /\ status' = [status EXCEPT ![j] = "LEASED"]
                         /\ attempt' = [attempt EXCEPT ![j] = @ + 1]
    BY <1>1, FirstOfSubset DEF Claim
  <2>. QED  BY <2>1
<1>2. ASSUME NEW w \in Worker, MarkRunning(w) \/ MarkJob(w) \/ CatchMarkFailed(w) PROVE AttemptsLeft'
  <2>1. /\ UNCHANGED attempt /\ cur[w] \in Job
        /\ \E st \in {"RUNNING", "SUCCEEDED", FailedStatus(cur[w])} : status' = [status EXCEPT ![cur[w]] = st]
    BY <1>2 DEF MarkRunning, MarkJob, CatchMarkFailed, Unmarked
  <2>. QED  BY <2>1 DEF FailedStatus
<1>3. CASE (\E j \in Job : Enqueue(j)) \/ RetryFailed
  BY <1>3 DEF Enqueue, RetryFailed
<1>4. CASE UNCHANGED <<status, attempt>>
  BY <1>4
<1>5. \/ UNCHANGED <<status, attempt>>
      \/ \E w \in Worker : MarkRunning(w) \/ MarkJob(w) \/ CatchMarkFailed(w)
      \/ (\E j \in Job : Enqueue(j)) \/ RetryFailed
      \/ \E w \in LeaseWorker : Claim(w)
  BY DEF Next, Step, vars, rowVars, localVars, SelectBatch, ReadJob, ExecuteById, CheckEmergency,
     CreateExecution, Evaluate, SubmitUnavailable, SubmitAccepted, SubmitFailed, Confirm, FinishExecution,
     WriteAudit, Throw, CatchReport, CatchThrows, Crash, Abandon, TogglePause, RelayerTakesUp, Settle
<1>. QED  BY <1>1, <1>2, <1>3, <1>4, <1>5

\* The sum goes down when no row is made and no worker begins a claim.
LEMMA CountDown ==
    ASSUME AttemptsCount, UNCHANGED attempt, IInv,
           \A j \in Job : Count(j)' = Count(j) /\ Claiming(j)' \subseteq Claiming(j)
    PROVE  AttemptsCount'
<1> SUFFICES ASSUME NEW j \in Job
             PROVE  /\ IsFiniteSet(Claiming(j)')
                    /\ Count(j)' + Cardinality(Claiming(j)') <= attempt'[j]
  BY DEF AttemptsCount
<1>1. /\ IsFiniteSet(Claiming(j)') /\ Cardinality(Claiming(j)') \in Nat
      /\ Cardinality(Claiming(j)) \in Nat
      /\ Cardinality(Claiming(j)') <= Cardinality(Claiming(j))
  BY FS_Subset, FS_CardinalityType DEF AttemptsCount
<1>. QED  BY <1>1, LeaseTypes DEF AttemptsCount

LEMMA ClaimCounts ==
    ASSUME IInv, AttemptsCount, NEW w \in LeaseWorker, Claim(w)
    PROVE  AttemptsCount'
<1>1. PICK k \in Job : /\ attempt' = [attempt EXCEPT ![k] = @ + 1]
                       /\ cur' = [cur EXCEPT ![w] = k]
                       /\ pc' = [pc EXCEPT ![w] = "emergency"]
                       /\ pc[w] = "idle" /\ w \in Worker
  BY FirstOfSubset DEF Claim, Worker
<1> SUFFICES ASSUME NEW j \in Job
             PROVE  /\ IsFiniteSet(Claiming(j)')
                    /\ Count(j)' + Cardinality(Claiming(j)') <= attempt'[j]
  BY DEF AttemptsCount
<1>2. Count(j)' = Count(j) /\ Count(j) \in Nat
  BY CountKept, LeaseTypes DEF Claim
<1>3. w \notin Claiming(j)
  BY <1>1 DEF Claiming
<1>4. Claiming(j)' = IF j = k THEN Claiming(j) \cup {w} ELSE Claiming(j)
  BY <1>1, LeaseTypes, ConstantsAssumption DEF Claiming, Worker
<1>5. /\ IsFiniteSet(Claiming(j)') /\ Cardinality(Claiming(j)) \in Nat
      /\ Cardinality(Claiming(j)') = IF j = k THEN Cardinality(Claiming(j)) + 1 ELSE Cardinality(Claiming(j))
  BY <1>3, <1>4, FS_AddElement, FS_CardinalityType DEF AttemptsCount
<1>6. attempt'[j] = IF j = k THEN attempt[j] + 1 ELSE attempt[j]
  BY <1>1, LeaseTypes
<1>. QED  BY <1>2, <1>5, <1>6, LeaseTypes DEF AttemptsCount

LEMMA CreateCounts ==
    ASSUME IInv, AttemptsCount, NEW w \in Worker, CreateExecution(w)
    PROVE  AttemptsCount'
<1>1. /\ UNCHANGED <<attempt, cur>> /\ pc[w] = "create"
      /\ \E l \in {"running", "finish"} : pc' = [pc EXCEPT ![w] = l]
  BY DEF CreateExecution, Goto
<1> SUFFICES ASSUME NEW j \in Job
             PROVE  /\ IsFiniteSet(Claiming(j)')
                    /\ Count(j)' + Cardinality(Claiming(j)') <= attempt'[j]
  BY DEF AttemptsCount
<1>2. Count(j)' = IF j = cur[w] /\ w \in LeaseWorker THEN Count(j) + 1 ELSE Count(j)
  BY ExecutionsGrow
<1>3. Claiming(j)' = IF j = cur[w] /\ w \in LeaseWorker THEN Claiming(j) \ {w} ELSE Claiming(j)
  BY <1>1, LeaseTypes DEF Claiming, Worker
<1>4. j = cur[w] /\ w \in LeaseWorker => w \in Claiming(j)
  BY <1>1 DEF Claiming
<1>5. /\ IsFiniteSet(Claiming(j)') /\ Cardinality(Claiming(j)) \in Nat
      /\ Cardinality(Claiming(j)') = IF j = cur[w] /\ w \in LeaseWorker
                                     THEN Cardinality(Claiming(j)) - 1 ELSE Cardinality(Claiming(j))
  <2>1. IsFiniteSet(Claiming(j)) /\ Cardinality(Claiming(j)) \in Nat
    BY FS_CardinalityType DEF AttemptsCount
  <2>2. CASE j = cur[w] /\ w \in LeaseWorker
    BY <1>3, <1>4, <2>1, <2>2, FS_RemoveElement
  <2>3. CASE ~(j = cur[w] /\ w \in LeaseWorker)
    BY <1>3, <2>1, <2>3
  <2>. QED  BY <2>2, <2>3
<1>. QED  BY <1>1, <1>2, <1>5, LeaseTypes DEF AttemptsCount

\* Every other step of a worker, or of anybody else, begins no claim.
LEMMA OtherCounts ==
    ASSUME IInv, AttemptsCount, [Next]_vars,
           \A w \in LeaseWorker : ~Claim(w), \A w \in Worker : ~CreateExecution(w)
    PROVE  AttemptsCount'
<1>1. \A j \in Job : Count(j)' = Count(j)
  <2>1. CASE \E w \in Worker : FinishExecution(w)
    BY <2>1, ExecutionsKept
  <2>2. CASE UNCHANGED execs
    BY <2>2, CountKept
  <2>3. UNCHANGED execs \/ \E w \in Worker : FinishExecution(w)
    BY DEF Next, Step, vars, rowVars, localVars, Enqueue, RetryFailed, SelectBatch, ReadJob, ExecuteById,
       CheckEmergency, MarkRunning, Evaluate, SubmitUnavailable, SubmitAccepted, SubmitFailed, Confirm,
       MarkJob, WriteAudit, Throw, CatchMarkFailed, CatchReport, CatchThrows, Crash, Abandon, TogglePause,
       RelayerTakesUp, Settle
  <2>. QED  BY <2>1, <2>2, <2>3
<1>2. UNCHANGED attempt
  BY DEF Next, Step, vars, rowVars, localVars, Enqueue, RetryFailed, SelectBatch, ReadJob, ExecuteById,
     CheckEmergency, MarkRunning, Evaluate, SubmitUnavailable, SubmitAccepted, SubmitFailed, Confirm,
     FinishExecution, MarkJob, WriteAudit, Throw, CatchMarkFailed, CatchReport, CatchThrows, Crash, Abandon,
     TogglePause, RelayerTakesUp, Settle
<1>3. ASSUME NEW w \in Worker, Step(w) PROVE \A j \in Job : Claiming(j)' \subseteq Claiming(j)
  <2>1. \E l \in Location : /\ pc' = [pc EXCEPT ![w] = l]
                            /\ l \in {"emergency", "create"} => pc[w] = "emergency"
    BY <1>3 DEF Step, CheckEmergency, MarkRunning, Evaluate, SubmitUnavailable, SubmitAccepted, SubmitFailed,
       Confirm, FinishExecution, MarkJob, WriteAudit, Throw, CatchMarkFailed, CatchReport, CatchThrows, Crash,
       Abandon, Return, Goto, Location
  <2>2. UNCHANGED cur \/ cur' = [cur EXCEPT ![w] = NoJob]
    BY <1>3 DEF Step, CheckEmergency, MarkRunning, Evaluate, SubmitUnavailable, SubmitAccepted, SubmitFailed,
       Confirm, FinishExecution, MarkJob, WriteAudit, Throw, CatchMarkFailed, CatchReport, CatchThrows, Crash,
       Abandon, Return
  <2>. QED  BY <2>1, <2>2, LeaseTypes, ConstantsAssumption DEF Claiming, Worker
<1>4. ASSUME NEW w \in DirectWorker, SelectBatch(w) \/ ReadJob(w) \/ \E k \in Job : ExecuteById(w, k)
      PROVE  \A j \in Job : Claiming(j)' \subseteq Claiming(j)
  <2>1. /\ \E l \in Location : pc' = [pc EXCEPT ![w] = l]
        /\ UNCHANGED cur \/ \E k : cur' = [cur EXCEPT ![w] = k]
    BY <1>4 DEF SelectBatch, ReadJob, ExecuteById, Location
  <2>2. w \notin LeaseWorker
    BY ConstantsAssumption
  <2>. QED  BY <2>1, <2>2, LeaseTypes DEF Claiming, Worker
<1>5. ASSUME UNCHANGED <<pc, cur>> PROVE \A j \in Job : Claiming(j)' \subseteq Claiming(j)
  BY <1>5 DEF Claiming
<1>6. \/ \E w \in Worker : Step(w)
      \/ \E w \in DirectWorker : SelectBatch(w) \/ ReadJob(w) \/ \E k \in Job : ExecuteById(w, k)
      \/ UNCHANGED <<pc, cur>>
  BY DEF Next, vars, localVars, Enqueue, RetryFailed, TogglePause, RelayerTakesUp, Settle
<1>7. \A j \in Job : Claiming(j)' \subseteq Claiming(j)
  BY <1>3, <1>4, <1>5, <1>6
<1>. QED  BY <1>1, <1>2, <1>7, CountDown

LEMMA AttemptStep == ASSUME IInv, AttemptInv, [Next]_vars PROVE AttemptInv'
BY AttemptsLeftStep, ClaimCounts, CreateCounts, OtherCounts DEF AttemptInv

\* A job is executed at most maxAttempts times through claims, retries included, with
\* any number of direct workers at it as well and whatever statement throws.
THEOREM LeaseAttempts == Spec => []ExecutionsWithinMaxAttempts
<1>1. Spec => []AttemptInv
  BY AttemptInit, AttemptStep, Invariance, PTL DEF Spec
<1>2. ASSUME IInv, AttemptInv, NEW j \in Job PROVE Cardinality(ClaimedExecutionsOf(j)) <= MaxAttempts
  <2>1. Cardinality(Claiming(j)) \in Nat
    BY <1>2, FS_CardinalityType DEF AttemptInv, AttemptsCount
  <2>. QED  BY <1>2, <2>1, LeaseTypes, ConstantsAssumption DEF AttemptInv, AttemptsLeft, AttemptsCount, Count
<1>3. IInv /\ AttemptInv => ExecutionsWithinMaxAttempts
  BY <1>2 DEF ExecutionsWithinMaxAttempts
<1>. QED  BY <1>1, <1>3, Invariance, PTL

-----------------------------------------------------------------------------
(***************************************************************************)
(* The lease path on its own: executeAutomationQueueOnce as the only       *)
(* executor.  The direct path, which is the one with callers, claims       *)
(* nothing, and the two theorems below do not hold of it.  Every statement *)
(* may throw; the jobs for which an audit insert threw after the mark are  *)
(* the ones the theorems except, by name of the history remarked.          *)
(***************************************************************************)
LeasePathOnly == DirectWorker = {}

\* The job of a worker that has still to mark it is its own, by status and by owner.
LeaseHeld ==
    \A w \in Worker : pc[w] \in Unmarked /\ cur[w] \notin remarked
        => status[cur[w]] \in {"LEASED", "RUNNING"}

LeaseInv == LeaseHeld /\ LeaseIsExclusive

LEMMA LeaseInit == Init => LeaseInv
BY DEF Init, LeaseInv, LeaseIsExclusive, LeaseHeld, Unmarked

\* Worker w moves within Unmarked, and its job at most to RUNNING.
LEMMA LeaseMove ==
    ASSUME IInv, LeaseInv, NEW w \in Worker, NEW l \in Unmarked, pc[w] \in Unmarked,
           pc' = [pc EXCEPT ![w] = l], UNCHANGED <<cur, remarked>>,
           status' = status \/ status' = [status EXCEPT ![cur[w]] = "RUNNING"]
    PROVE  LeaseInv'
<1> USE LeaseTypes, ConstantsAssumption DEF LeaseInv
<1>1. LeaseHeld'
  BY DEF LeaseHeld
<1>2. LeaseIsExclusive'
  BY DEF LeaseIsExclusive
<1>. QED  BY <1>1, <1>2

\* Worker w leaves Unmarked, and its job with it takes the status st or keeps its own.
LEMMA LeaseLeave ==
    ASSUME IInv, LeaseInv, NEW w \in Worker, NEW l \in {"idle", "next", "audit", "report"}, NEW c,
           pc' = [pc EXCEPT ![w] = l], UNCHANGED remarked,
           cur' = [cur EXCEPT ![w] = c],
           \/ status' = status
           \/ /\ pc[w] \in Unmarked
              /\ \E st \in {"SUCCEEDED", FailedStatus(cur[w])} : status' = [status EXCEPT ![cur[w]] = st]
    PROVE  LeaseInv'
<1> USE LeaseTypes, ConstantsAssumption DEF LeaseInv
<1>1. LeaseHeld'
  <2> SUFFICES ASSUME NEW v \in Worker, pc'[v] \in Unmarked, cur'[v] \notin remarked
               PROVE  status'[cur'[v]] \in {"LEASED", "RUNNING"}
    BY DEF LeaseHeld
  <2>1. v # w /\ pc[v] \in Unmarked /\ cur'[v] = cur[v] /\ cur[v] \in Job
    BY DEF Unmarked
  <2>2. pc[w] \in Unmarked => cur[w] # cur[v]
    BY <2>1 DEF LeaseIsExclusive
  <2>. QED  BY <2>1, <2>2 DEF LeaseHeld
<1>2. LeaseIsExclusive'
  <2>1. \A v \in Worker : pc'[v] \in Unmarked => v # w /\ pc[v] \in Unmarked /\ cur'[v] = cur[v]
    BY DEF Unmarked
  <2>. QED  BY <2>1 DEF LeaseIsExclusive
<1>. QED  BY <1>1, <1>2

\* The throwing audit insert: the job counts as remarked from here on.
LEMMA LeaseRemark ==
    ASSUME IInv, LeaseInv, NEW w \in Worker, pc[w] = "audit", Throw(w)
    PROVE  LeaseInv'
<1> USE LeaseTypes, ConstantsAssumption DEF LeaseInv
<1>1. /\ pc' = [pc EXCEPT ![w] = "catch"] /\ UNCHANGED <<status, cur>>
      /\ remarked' = remarked \cup {cur[w]}
  BY DEF Throw, Goto, rowVars
<1>2. LeaseHeld'
  BY <1>1 DEF LeaseHeld
<1>3. LeaseIsExclusive'
  BY <1>1 DEF LeaseIsExclusive
<1>. QED  BY <1>2, <1>3

LEMMA LeaseClaim ==
    ASSUME IInv, LeaseInv, NEW w \in LeaseWorker, Claim(w)
    PROVE  LeaseInv'
<1> USE LeaseTypes, ConstantsAssumption DEF LeaseInv
<1>1. PICK j \in Job : /\ status[j] = "QUEUED" /\ pc[w] = "idle" /\ w \in Worker
                       /\ status' = [status EXCEPT ![j] = "LEASED"]
                       /\ cur' = [cur EXCEPT ![w] = j]
                       /\ pc' = [pc EXCEPT ![w] = "emergency"]
  BY FirstOfSubset DEF Claim, Worker
<1>2. UNCHANGED remarked
  BY DEF Claim, histVars
<1>3. LeaseHeld'
  BY <1>1, <1>2 DEF LeaseHeld, Unmarked
<1>4. \A v \in Worker : cur[v] = j /\ pc[v] \in Unmarked => j \in remarked
  BY <1>1 DEF LeaseHeld
<1>5. LeaseIsExclusive'
  BY <1>1, <1>2, <1>4 DEF LeaseIsExclusive
<1>. QED  BY <1>3, <1>5

LEMMA LeaseStep ==
    ASSUME LeasePathOnly, IInv, LeaseInv, [Next]_vars
    PROVE  LeaseInv'
<1>1. ASSUME NEW w \in Worker,
             MarkJob(w) \/ CatchMarkFailed(w) \/ WriteAudit(w) \/ CatchReport(w) \/ Abandon(w)
      PROVE  LeaseInv'
  <2>1. pc[w] \in Unmarked \/ UNCHANGED status
    BY <1>1 DEF MarkJob, CatchMarkFailed, WriteAudit, CatchReport, Abandon, rowVars, Unmarked
  <2>2. /\ \E l \in {"idle", "next", "audit", "report"} : pc' = [pc EXCEPT ![w] = l]
        /\ \/ status' = status
           \/ \E st \in {"SUCCEEDED", FailedStatus(cur[w])} : status' = [status EXCEPT ![cur[w]] = st]
        /\ UNCHANGED remarked
    BY <1>1 DEF MarkJob, CatchMarkFailed, WriteAudit, CatchReport, Abandon, Return, Goto, rowVars, histVars
  <2>3. cur' = [cur EXCEPT ![w] = NoJob] \/ cur' = [cur EXCEPT ![w] = cur[w]]
    BY <1>1, LeaseTypes DEF MarkJob, CatchMarkFailed, WriteAudit, CatchReport, Abandon, Return
  <2>. QED  BY <2>1, <2>2, <2>3, LeaseLeave
<1>2. ASSUME NEW w \in Worker,
             \/ CheckEmergency(w) \/ CreateExecution(w) \/ MarkRunning(w) \/ Evaluate(w)
             \/ SubmitUnavailable(w) \/ SubmitAccepted(w) \/ SubmitFailed(w) \/ Confirm(w)
             \/ FinishExecution(w) \/ (Throw(w) /\ pc[w] # "audit")
      PROVE LeaseInv'
  <2>1. /\ UNCHANGED <<cur, remarked>> /\ pc[w] \in Unmarked
        /\ status' = status \/ status' = [status EXCEPT ![cur[w]] = "RUNNING"]
    BY <1>2, ConstantsAssumption DEF CheckEmergency, CreateExecution, MarkRunning, Evaluate,
       SubmitUnavailable, SubmitAccepted, SubmitFailed, Confirm, FinishExecution, Throw, Unmarked,
       rowVars, histVars
  <2>2. \E l \in Unmarked : pc' = [pc EXCEPT ![w] = l]
    BY <1>2 DEF CheckEmergency, CreateExecution, MarkRunning, Evaluate, SubmitUnavailable,
       SubmitAccepted, SubmitFailed, Confirm, FinishExecution, Throw, Goto, Unmarked
  <2>. QED  BY <2>1, <2>2, LeaseMove
<1>3. CASE (\E j \in Job : Enqueue(j)) \/ RetryFailed
  <2>1. /\ UNCHANGED <<pc, cur, remarked>>
        /\ \A j \in Job : \/ status'[j] = status[j]
                          \/ status[j] \in {"ABSENT", "FAILED"} /\ status'[j] = "QUEUED"
    BY <1>3, LeaseTypes DEF Enqueue, RetryFailed, localVars, histVars
  <2>. QED  BY <2>1, LeaseTypes DEF LeaseInv, LeaseHeld, LeaseIsExclusive
<1>4. CASE TogglePause \/ (\E e \in ExecId : RelayerTakesUp(e) \/ Settle(e)) \/ UNCHANGED vars
  <2>1. UNCHANGED <<status, pc, cur, remarked>>
    BY <1>4 DEF TogglePause, RelayerTakesUp, Settle, rowVars, localVars, histVars, vars
  <2>. QED  BY <2>1 DEF LeaseInv, LeaseHeld, LeaseIsExclusive
<1>. QED
  BY <1>1, <1>2, <1>3, <1>4, LeaseRemark, LeaseClaim DEF LeasePathOnly, Next, Step, CatchThrows, Crash

LEMMA LeaseInvariance == ASSUME LeasePathOnly PROVE Spec => []LeaseInv
BY LeasePathOnly, LeaseInit, LeaseStep, Invariance, PTL DEF Spec

\* No two workers hold the same unmarked job, unless an audit insert threw for it: the
\* claim of a queued row moves it to LEASED, and it stays LEASED or RUNNING until its
\* worker marks it, or until another's catch clause marks it a second time.
THEOREM LeaseExclusive == ASSUME LeasePathOnly PROVE Spec => []LeaseIsExclusive
BY LeaseInvariance, PTL DEF LeaseInv

\* SUCCEEDED and DEAD_LETTER are left only through that second mark: every other
\* status write of a worker is to a row that is LEASED or RUNNING, and retries and
\* claims take other rows.
THEOREM LeaseTerminal == ASSUME LeasePathOnly PROVE Spec => TerminalIsFinal
<1>1. ASSUME IInv, LeaseInv, [Next]_vars,
             NEW j \in Job, status[j] \in {"SUCCEEDED", "DEAD_LETTER"}, j \notin remarked
      PROVE  status'[j] = status[j]
  <2>1. ASSUME NEW w \in Worker, MarkRunning(w) \/ MarkJob(w) \/ CatchMarkFailed(w)
        PROVE  status'[j] = status[j]
    <3>1. pc[w] \in Unmarked
      BY <2>1 DEF Unmarked, MarkRunning, MarkJob, CatchMarkFailed
    <3>2. cur[w] # j
      BY <1>1, <3>1 DEF LeaseInv, LeaseHeld
    <3>3. \E st : status' = [status EXCEPT ![cur[w]] = st]
      BY <2>1 DEF MarkRunning, MarkJob, CatchMarkFailed
    <3>. QED  BY <1>1, <3>2, <3>3, LeaseTypes
  <2>2. CASE (\E k \in Job : Enqueue(k)) \/ RetryFailed \/ \E w \in LeaseWorker : Claim(w)
    BY <1>1, <2>2 DEF IInv, TypeOK, Enqueue, RetryFailed, Claim, FirstOf
  <2>3. CASE UNCHANGED status
    BY <2>3
  <2>4. \/ UNCHANGED status
        \/ \E w \in Worker : MarkRunning(w) \/ MarkJob(w) \/ CatchMarkFailed(w)
        \/ (\E k \in Job : Enqueue(k)) \/ RetryFailed \/ \E w \in LeaseWorker : Claim(w)
    BY <1>1 DEF Next, Step, vars, rowVars, localVars, SelectBatch, ReadJob, ExecuteById,
       CheckEmergency, CreateExecution, Evaluate, SubmitUnavailable, SubmitAccepted, SubmitFailed, Confirm,
       FinishExecution, WriteAudit, Throw, CatchReport, CatchThrows, Crash, Abandon, TogglePause,
       RelayerTakesUp, Settle
  <2>. QED  BY <2>1, <2>2, <2>3, <2>4
<1>2. IInv /\ LeaseInv /\ [Next]_vars =>
        [\A j \in Job : status[j] \in {"SUCCEEDED", "DEAD_LETTER"} /\ j \notin remarked
            => status'[j] = status[j]]_vars
  BY <1>1
<1>. QED  BY <1>2, LeaseInvariance, Invariance, PTL DEF Spec, TerminalIsFinal
=============================================================================
