------------------------- MODULE AutomationExecutor -------------------------
(***************************************************************************)
(* The automation job queue and the code that executes its jobs:           *)
(* services/automation-queue.ts, services/automation-executor.ts and, as   *)
(* their environment, the transaction relayer and the chain behind         *)
(* services/automation-tx-relayer.ts.                                      *)
(*                                                                         *)
(* Every awaited call of executeSingleJob is one action, because any other *)
(* worker, and a failure of the process or of the database, can come       *)
(* between two of them.  A direct worker runs executeQueuedJobsForWallet / *)
(* executeAutomationJobById (the daemon's tick, the tick and execute-now   *)
(* routes and the strategy worker); a lease worker runs                    *)
(* executeAutomationQueueOnce, which is exported but called from nowhere   *)
(* in the repository.                                                      *)
(***************************************************************************)
EXTENDS Integers, Sequences, FiniteSets

CONSTANTS
    Job,               \* job rows that may come to exist, of one wallet
    NoJob,             \* "no job", outside Job
    TxJob,             \* the jobs whose payload holds a valid txRequest
    MainnetAutoJob,    \* the jobs the mainnet guard refuses
    Priority,          \* the priority column, lower first
    DirectWorker,      \* concurrent callers of executeAutomationJobById
    LeaseWorker,       \* concurrent callers of executeAutomationQueueOnce
    MaxAttempts,       \* the maxAttempts column (the same for every job)
    MaxJobs,           \* maxJobs, the LIMIT of a wallet's batch
    RetryLimit,        \* the LIMIT of the retry-failed update
    RelayerAvailable,  \* AUTOMATION_RELAYER_ENABLED and a URL is set
    WaitConfirmation,  \* AUTOMATION_RELAYER_WAIT_CONFIRMATION
    ThrowAt,           \* the awaits whose database call may fail
    MaxExec            \* bound on the number of execution rows

ASSUME ConstantsAssumption ==
    /\ NoJob \notin Job
    /\ TxJob \subseteq Job
    /\ MainnetAutoJob \subseteq Job
    /\ Priority \in [Job -> Nat]
    /\ DirectWorker \cap LeaseWorker = {}
    /\ MaxAttempts \in Nat \ {0}
    /\ MaxJobs \in Nat \ {0}
    /\ RetryLimit \in Nat \ {0}
    /\ RelayerAvailable \in BOOLEAN
    /\ WaitConfirmation \in BOOLEAN
    /\ ThrowAt \subseteq {"emergency", "create", "running", "evaluate", "finish", "mark", "audit"}
    /\ MaxExec \in Nat

Worker == DirectWorker \cup LeaseWorker

\* CANCELLED is a value of the enum that no code writes.
JobStatus == {"ABSENT", "QUEUED", "LEASED", "RUNNING", "SUCCEEDED", "FAILED", "DEAD_LETTER"}

SuccessStatus == {"COMPLETED", "TX_SUBMITTED", "TX_CONFIRMED"}
FinalStatus == SuccessStatus \cup {"PRECHECK_FAILED", "FAILED"}

\* What a worker is going to write with finishExecution.
Outcome == [status : FinalStatus \cup {"UNDECIDED"}, txHash : BOOLEAN]
Undecided == [status |-> "UNDECIDED", txHash |-> FALSE]

\* leased is history: the row is about a job its worker had claimed.
Execution == [job : Job, status : FinalStatus \cup {"STARTED"}, txHash : BOOLEAN, leased : BOOLEAN]
ExecId == 1 .. MaxExec

\* The relayer's and the chain's view of the transaction of an execution; a lost
\* request stays inflight and a transaction no block takes stays accepted.
TxState == {"none", "inflight", "accepted", "mined", "reverted"}

\* The automation_execution_* rows of the audit log.  executeSingleJob writes them
\* about its own execution; the catch clauses write an unexpected_exception row that
\* names the newest execution of the job, or the job itself (0) when it has none.
AuditEntry == [action : {"completed", "precheck_failed", "failed"}, unexpected : BOOLEAN,
               job : Job, exec : 0 .. MaxExec]

(***************************************************************************)
(* The await a worker is at.  "next" is the loop head of a batch; "catch"  *)
(* and "report" are the two awaits of the handlers' catch clauses.         *)
(***************************************************************************)
Location == {"idle", "next", "emergency", "create", "running", "evaluate", "submit",
             "confirm", "finish", "mark", "audit", "catch", "report"}

VARIABLES
    status,     \* the status column of each job row
    attempt,    \* its attempt column
    execs,      \* the AutomationExecution rows in startedAt order
    audit,      \* the AuditLogV2 rows about executions
    workerRow,  \* AutomationWorker.currentJobId of each lease worker
    paused,     \* what checkEmergencyPaused reads for the wallet
    tx,         \* the transaction sent for each execution
    pc, cur, eid, todo, plan,   \* a worker's location and local variables
    orphaned,   \* history: the jobs a worker abandoned without a final mark
    remarked    \* history: the jobs whose worker threw when it had marked them already

rowVars == <<status, attempt, execs, audit, workerRow>>
localVars == <<pc, cur, eid, todo, plan>>
histVars == <<orphaned, remarked>>
vars == <<status, attempt, execs, audit, workerRow, paused, tx, pc, cur, eid, todo, plan, orphaned, remarked>>

-----------------------------------------------------------------------------
Init ==
    /\ status = [j \in Job |-> "ABSENT"]
    /\ attempt = [j \in Job |-> 0]
    /\ execs = << >>
    /\ audit = {}
    /\ workerRow = [w \in LeaseWorker |-> NoJob]
    /\ paused \in BOOLEAN
    /\ tx = [e \in ExecId |-> "none"]
    /\ pc = [w \in Worker |-> "idle"]
    /\ cur = [w \in Worker |-> NoJob]
    /\ eid = [w \in Worker |-> 0]
    /\ todo = [w \in Worker |-> {}]
    /\ plan = [w \in Worker |-> Undecided]
    /\ orphaned = {}
    /\ remarked = {}

-----------------------------------------------------------------------------
(***************************************************************************)
(* The queue.                                                              *)
(***************************************************************************)

\* Mutant: ON CONFLICT also sets the status column back.
EnqueueRequeues(j) ==
    /\ status' = [status EXCEPT ![j] = "QUEUED"]
    /\ UNCHANGED <<attempt, execs, audit, workerRow, paused, tx, localVars, histVars>>

\* enqueueAutomationJob: an existing row with the idempotency key is left as it is.
Enqueue(j) ==
    /\ status' = [status EXCEPT ![j] = IF @ = "ABSENT" THEN "QUEUED" ELSE @]
    /\ UNCHANGED <<attempt, execs, audit, workerRow, paused, tx, localVars, histVars>>

\* What markAutomationJobFailed makes of a row, whatever its status is.
FailedStatus(j) == IF attempt[j] >= MaxAttempts THEN "DEAD_LETTER" ELSE "FAILED"

\* retryFailedAutomationJobs[ForWallet]: all the failed jobs, or RetryLimit of them.
RetryFailed ==
    \E S \in SUBSET {j \in Job : status[j] = "FAILED"} :
        /\ S # {}
        /\ S = {j \in Job : status[j] = "FAILED"} \/ Cardinality(S) = RetryLimit
        /\ Cardinality(S) <= RetryLimit
        /\ status' = [j \in Job |-> IF j \in S THEN "QUEUED" ELSE status[j]]
        /\ UNCHANGED <<attempt, execs, audit, workerRow, paused, tx, localVars, histVars>>

\* The rows S in the order of a priority-ordered query; scheduledAt breaks ties.
FirstOf(S) == {j \in S : \A k \in S : Priority[j] <= Priority[k]}

\* Mutant: the row is read but not moved to LEASED.
ClaimWithoutLease(w) ==
    /\ pc[w] = "idle"
    /\ \E j \in FirstOf({k \in Job : status[k] = "QUEUED"}) :
        /\ attempt' = [attempt EXCEPT ![j] = @ + 1]
        /\ workerRow' = [workerRow EXCEPT ![w] = j]
        /\ cur' = [cur EXCEPT ![w] = j]
    /\ pc' = [pc EXCEPT ![w] = "emergency"]
    /\ UNCHANGED <<status, execs, audit, paused, tx, eid, todo, plan, histVars>>

\* claimNextAutomationJob: one statement picks and leases a queued job.
Claim(w) ==
    /\ pc[w] = "idle"
    /\ \E j \in FirstOf({k \in Job : status[k] = "QUEUED"}) :
        /\ status' = [status EXCEPT ![j] = "LEASED"]
        /\ attempt' = [attempt EXCEPT ![j] = @ + 1]
        /\ workerRow' = [workerRow EXCEPT ![w] = j]
        /\ cur' = [cur EXCEPT ![w] = j]
    /\ pc' = [pc EXCEPT ![w] = "emergency"]
    /\ UNCHANGED <<execs, audit, paused, tx, eid, todo, plan, histVars>>

(***************************************************************************)
(* The direct path.  executeQueuedJobsForWallet reads a batch, then        *)
(* executeAutomationJobById reads each row again and skips the jobs that   *)
(* are finished or in somebody's hands; nothing claims the row.            *)
(***************************************************************************)
Pending == {j \in Job : status[j] \in {"QUEUED", "FAILED"}}

SelectBatch(w) ==
    /\ pc[w] = "idle"
    /\ \E S \in SUBSET Pending :
        /\ S # {}
        /\ Cardinality(S) <= MaxJobs
        /\ S = Pending \/ Cardinality(S) = MaxJobs
        /\ \A j \in S, k \in Pending \ S : Priority[j] <= Priority[k]
        /\ todo' = [todo EXCEPT ![w] = S]
    /\ pc' = [pc EXCEPT ![w] = "next"]
    /\ UNCHANGED <<rowVars, paused, tx, cur, eid, plan, histVars>>

\* POST /automation/execute and the strategy executors name one job.
ExecuteById(w, j) ==
    /\ pc[w] = "idle"
    /\ status[j] # "ABSENT"
    /\ todo' = [todo EXCEPT ![w] = {j}]
    /\ pc' = [pc EXCEPT ![w] = "next"]
    /\ UNCHANGED <<rowVars, paused, tx, cur, eid, plan, histVars>>

\* The SELECT and the early returns of executeAutomationJobById.
ReadJob(w) ==
    /\ pc[w] = "next"
    /\ \E j \in FirstOf(todo[w]) :
        /\ todo' = [todo EXCEPT ![w] = @ \ {j}]
        /\ IF status[j] \in {"QUEUED", "FAILED"}
           THEN /\ cur' = [cur EXCEPT ![w] = j]
                /\ pc' = [pc EXCEPT ![w] = "emergency"]
           ELSE /\ pc' = [pc EXCEPT ![w] = IF todo'[w] = {} THEN "idle" ELSE "next"]
                /\ UNCHANGED cur
    /\ UNCHANGED <<rowVars, paused, tx, eid, plan, histVars>>

(***************************************************************************)
(* executeSingleJob, common to both paths.                                 *)
(***************************************************************************)
Goto(w, l) == pc' = [pc EXCEPT ![w] = l]

\* The worker is done with its job: next of the batch, or return.
Return(w) ==
    /\ Goto(w, IF todo[w] = {} THEN "idle" ELSE "next")
    /\ cur' = [cur EXCEPT ![w] = NoJob]
    /\ eid' = [eid EXCEPT ![w] = 0]
    /\ plan' = [plan EXCEPT ![w] = Undecided]
    /\ UNCHANGED todo

Decide(w, st, hash) == plan' = [plan EXCEPT ![w] = [status |-> st, txHash |-> hash]]

\* checkEmergencyPaused, then the mainnet guard; both end in PRECHECK_FAILED.
CheckEmergency(w) ==
    /\ pc[w] = "emergency"
    /\ IF paused \/ cur[w] \in MainnetAutoJob
       THEN Decide(w, "PRECHECK_FAILED", FALSE)
       ELSE UNCHANGED plan
    /\ Goto(w, "create")
    /\ UNCHANGED <<rowVars, paused, tx, cur, eid, todo, histVars>>

\* The row createExecution inserts.
StartedRow(w) == [job |-> cur[w], status |-> "STARTED", txHash |-> FALSE, leased |-> w \in LeaseWorker]

CreateExecution(w) ==
    /\ pc[w] = "create"
    /\ Len(execs) < MaxExec
    /\ execs' = Append(execs, StartedRow(w))
    /\ eid' = [eid EXCEPT ![w] = Len(execs) + 1]
    /\ Goto(w, IF plan[w] = Undecided THEN "running" ELSE "finish")
    /\ UNCHANGED <<status, attempt, audit, workerRow, paused, tx, cur, todo, plan, histVars>>

MarkRunning(w) ==
    /\ pc[w] = "running"
    /\ status' = [status EXCEPT ![cur[w]] = "RUNNING"]
    /\ Goto(w, "evaluate")
    /\ UNCHANGED <<attempt, execs, audit, workerRow, paused, tx, cur, eid, todo, plan, histVars>>

\* readPolicy and the gas, risk and net-profit checks, whose inputs are data.
Evaluate(w) ==
    /\ pc[w] = "evaluate"
    /\ \/ Decide(w, "PRECHECK_FAILED", FALSE) /\ Goto(w, "finish")
       \/ cur[w] \in TxJob /\ Goto(w, "submit") /\ UNCHANGED plan
       \/ cur[w] \notin TxJob /\ Decide(w, "COMPLETED", FALSE) /\ Goto(w, "finish")
    /\ UNCHANGED <<rowVars, paused, tx, cur, eid, todo, histVars>>

\* Without a relayer the job counts as done: relayer_disabled, relayer_url_missing.
SubmitUnavailable(w) ==
    /\ pc[w] = "submit"
    /\ ~RelayerAvailable
    /\ Decide(w, "COMPLETED", FALSE)
    /\ Goto(w, "finish")
    /\ UNCHANGED <<rowVars, paused, tx, cur, eid, todo, histVars>>

\* The relayer answers with a hash: a transaction exists, perhaps already mined.
SubmitAccepted(w) ==
    /\ pc[w] = "submit"
    /\ RelayerAvailable
    /\ \/ /\ tx' = [tx EXCEPT ![eid[w]] = "accepted"]
          /\ Decide(w, "TX_SUBMITTED", TRUE)
          /\ Goto(w, IF WaitConfirmation THEN "confirm" ELSE "finish")
       \/ /\ tx' = [tx EXCEPT ![eid[w]] = "mined"]
          /\ Decide(w, "TX_CONFIRMED", TRUE)
          /\ Goto(w, "finish")
    /\ UNCHANGED <<rowVars, paused, cur, eid, todo, histVars>>

\* Mutant: a failed call leaves the outcome open.
SubmitFailedUndecided(w) ==
    /\ pc[w] = "submit"
    /\ RelayerAvailable
    /\ \E t \in {"none", "inflight"} : tx' = [tx EXCEPT ![eid[w]] = t]
    /\ Goto(w, "finish")
    /\ UNCHANGED <<rowVars, paused, cur, eid, todo, plan, histVars>>

\* An HTTP error, a malformed answer or the abort timer; the request may be under way.
SubmitFailed(w) ==
    /\ pc[w] = "submit"
    /\ RelayerAvailable
    /\ \E t \in {"none", "inflight"} : tx' = [tx EXCEPT ![eid[w]] = t]
    /\ Decide(w, "FAILED", FALSE)
    /\ Goto(w, "finish")
    /\ UNCHANGED <<rowVars, paused, cur, eid, todo, histVars>>

\* Mutant: the receipt's status is not looked at.
ConfirmAnyReceipt(w) ==
    /\ pc[w] = "confirm"
    /\ \/ tx[eid[w]] \in {"mined", "reverted"} /\ Decide(w, "TX_CONFIRMED", TRUE)
       \/ Decide(w, "FAILED", TRUE)
    /\ Goto(w, "finish")
    /\ UNCHANGED <<rowVars, paused, tx, cur, eid, todo, histVars>>

\* confirmAutomationTxOnchain: a receipt, or a timeout or RPC error at any moment.
Confirm(w) ==
    /\ pc[w] = "confirm"
    /\ \/ tx[eid[w]] = "mined" /\ Decide(w, "TX_CONFIRMED", TRUE)
       \/ Decide(w, "FAILED", TRUE)
    /\ Goto(w, "finish")
    /\ UNCHANGED <<rowVars, paused, tx, cur, eid, todo, histVars>>

\* The newest execution row of a job, 0 when it has none.
LatestExecution(j) ==
    LET ids == {e \in 1 .. Len(execs) : execs[e].job = j}
    IN  IF ids = {} THEN 0 ELSE CHOOSE e \in ids : \A f \in ids : f <= e

FinishExecution(w) ==
    /\ pc[w] = "finish"
    /\ execs' = [execs EXCEPT ![eid[w]] = [@ EXCEPT !.status = plan[w].status, !.txHash = plan[w].txHash]]
    /\ Goto(w, "mark")
    /\ UNCHANGED <<status, attempt, audit, workerRow, paused, tx, cur, eid, todo, plan, histVars>>

\* Mutant: a job that failed its precheck counts as done.
MarkSkippedAsDone(w) ==
    /\ pc[w] = "mark"
    /\ status' = [status EXCEPT ![cur[w]] =
                    IF plan[w].status = "FAILED" THEN FailedStatus(cur[w]) ELSE "SUCCEEDED"]
    /\ Goto(w, "audit")
    /\ UNCHANGED <<attempt, execs, audit, workerRow, paused, tx, cur, eid, todo, plan, histVars>>

\* markAutomationJobSucceeded or markAutomationJobFailed, by id alone.
MarkJob(w) ==
    /\ pc[w] = "mark"
    /\ status' = [status EXCEPT ![cur[w]] =
                    IF plan[w].status \in SuccessStatus THEN "SUCCEEDED" ELSE FailedStatus(cur[w])]
    /\ Goto(w, "audit")
    /\ UNCHANGED <<attempt, execs, audit, workerRow, paused, tx, cur, eid, todo, plan, histVars>>

\* The audit row executeSingleJob leaves about execution e of job j.
AuditRow(j, st, e) ==
    [action |-> IF st \in SuccessStatus THEN "completed"
                ELSE IF st = "PRECHECK_FAILED" THEN "precheck_failed" ELSE "failed",
     unexpected |-> FALSE, job |-> j, exec |-> e]

\* Mutant: the audit row names the job's newest execution.
AuditLatest(w) ==
    /\ pc[w] = "audit"
    /\ audit' = audit \cup {AuditRow(cur[w], plan[w].status, LatestExecution(cur[w]))}
    /\ Return(w)
    /\ UNCHANGED <<status, attempt, execs, workerRow, paused, tx, histVars>>

WriteAudit(w) ==
    /\ pc[w] = "audit"
    /\ audit' = audit \cup {AuditRow(cur[w], plan[w].status, eid[w])}
    /\ Return(w)
    /\ UNCHANGED <<status, attempt, execs, workerRow, paused, tx, histVars>>

(***************************************************************************)
(* Failures.  A statement that throws lands in the caller's catch clause;  *)
(* the relayer and confirmation calls catch their own errors.              *)
(***************************************************************************)
Throw(w) ==
    /\ pc[w] \in ThrowAt
    /\ Goto(w, "catch")
    /\ remarked' = IF pc[w] = "audit" THEN remarked \cup {cur[w]} ELSE remarked
    /\ UNCHANGED <<rowVars, paused, tx, cur, eid, todo, plan, orphaned>>

\* Mutant: the catch clause reports the error without marking the job.
CatchForgetsJob(w) ==
    /\ pc[w] = "catch"
    /\ Goto(w, "report")
    /\ UNCHANGED <<rowVars, paused, tx, cur, eid, todo, plan, histVars>>

\* The catch clause begins with markAutomationJobFailed, whatever the job is by now.
CatchMarkFailed(w) ==
    /\ pc[w] = "catch"
    /\ status' = [status EXCEPT ![cur[w]] = FailedStatus(cur[w])]
    /\ Goto(w, "report")
    /\ UNCHANGED <<attempt, execs, audit, workerRow, paused, tx, cur, eid, todo, plan, histVars>>

\* Then it writes a "failed" row about the newest execution of the job, whatever that
\* one's status is and whoever made it; a failure of this audit row is swallowed.
CatchReport(w) ==
    /\ pc[w] = "report"
    /\ \/ audit' = audit \cup {[action |-> "failed", unexpected |-> TRUE,
                                job |-> cur[w], exec |-> LatestExecution(cur[w])]}
       \/ UNCHANGED audit
    /\ Return(w)
    /\ UNCHANGED <<status, attempt, execs, workerRow, paused, tx, histVars>>

\* The local state of a worker that is gone; its job keeps the status it has.
Abandon(w) ==
    /\ orphaned' = IF cur[w] = NoJob THEN orphaned ELSE orphaned \cup {cur[w]}
    /\ Goto(w, "idle")
    /\ cur' = [cur EXCEPT ![w] = NoJob]
    /\ eid' = [eid EXCEPT ![w] = 0]
    /\ todo' = [todo EXCEPT ![w] = {}]
    /\ plan' = [plan EXCEPT ![w] = Undecided]
    /\ UNCHANGED <<rowVars, paused, tx, remarked>>

\* markAutomationJobFailed of the catch clause throws too: the exception leaves the batch.
CatchThrows(w) == pc[w] = "catch" /\ Abandon(w)

\* The process dies, and with it whatever the worker was doing.
Crash(w) == pc[w] # "idle" /\ Abandon(w)

(***************************************************************************)
(* The environment: the user's pause switch, the relayer and the chain.    *)
(***************************************************************************)
TogglePause ==
    /\ paused' = ~paused
    /\ UNCHANGED <<rowVars, tx, localVars, histVars>>

\* A request whose answer was lost may still arrive at the relayer.
RelayerTakesUp(e) ==
    /\ tx[e] = "inflight"
    /\ tx' = [tx EXCEPT ![e] = "accepted"]
    /\ UNCHANGED <<rowVars, paused, localVars, histVars>>

\* An accepted transaction is executed by the chain.
Settle(e) ==
    /\ tx[e] = "accepted"
    /\ \E t \in {"mined", "reverted"} : tx' = [tx EXCEPT ![e] = t]
    /\ UNCHANGED <<rowVars, paused, localVars, histVars>>

-----------------------------------------------------------------------------
Step(w) ==
    \/ CheckEmergency(w) \/ CreateExecution(w) \/ MarkRunning(w) \/ Evaluate(w)
    \/ SubmitUnavailable(w) \/ SubmitAccepted(w) \/ SubmitFailed(w) \/ Confirm(w)
    \/ FinishExecution(w) \/ MarkJob(w) \/ WriteAudit(w)
    \/ Throw(w) \/ CatchMarkFailed(w) \/ CatchReport(w) \/ CatchThrows(w) \/ Crash(w)

Next ==
    \/ \E j \in Job : Enqueue(j)
    \/ RetryFailed
    \/ \E w \in LeaseWorker : Claim(w)
    \/ \E w \in DirectWorker : SelectBatch(w) \/ ReadJob(w) \/ \E j \in Job : ExecuteById(w, j)
    \/ \E w \in Worker : Step(w)
    \/ TogglePause
    \/ \E e \in ExecId : RelayerTakesUp(e) \/ Settle(e)

Spec == Init /\ [][Next]_vars

-----------------------------------------------------------------------------
(***************************************************************************)
(* Properties.                                                             *)
(***************************************************************************)
TypeOK ==
    /\ status \in [Job -> JobStatus]
    /\ attempt \in [Job -> Nat]
    /\ execs \in Seq(Execution)
    /\ Len(execs) <= MaxExec
    /\ audit \subseteq AuditEntry
    /\ workerRow \in [LeaseWorker -> Job \cup {NoJob}]
    /\ paused \in BOOLEAN
    /\ tx \in [ExecId -> TxState]
    /\ pc \in [Worker -> Location]
    /\ cur \in [Worker -> Job \cup {NoJob}]
    /\ eid \in [Worker -> 0 .. MaxExec]
    /\ todo \in [Worker -> SUBSET Job]
    /\ plan \in [Worker -> Outcome]
    /\ orphaned \subseteq Job
    /\ remarked \subseteq Job

ExecutionsOf(j) == {e \in 1 .. Len(execs) : execs[e].job = j}

\* A job is SUCCEEDED only when one of its executions has finished in success:
\* finishExecution comes before markAutomationJobSucceeded on every path.
SucceededIsBacked ==
    \A j \in Job : status[j] = "SUCCEEDED" => \E e \in ExecutionsOf(j) : execs[e].status \in SuccessStatus

\* What an execution row (status, txHash) says about its transaction is so: a
\* recorded hash was really sent, TX_CONFIRMED is mined, and an execution that was
\* refused by a precheck or recorded as not submitted never sent anything.
Truthful(st, hash, t) ==
    /\ hash => t \notin {"none", "inflight"}
    /\ st = "TX_SUBMITTED" => hash
    /\ st = "TX_CONFIRMED" => t = "mined"
    /\ st \in {"PRECHECK_FAILED", "COMPLETED"} => t = "none"

\* Every execution row tells the truth about its transaction at every moment, so
\* also while the transaction is settled behind the executor's back.
ExecutionTellsTruth ==
    \A e \in 1 .. Len(execs) : Truthful(execs[e].status, execs[e].txHash, tx[e])

\* Every audit row that names an execution names one of its own job.  A row of
\* executeSingleJob agrees with the execution it names, whose status it tells; the
\* unexpected_exception row of a catch clause does not: it may name an execution
\* that succeeded, or that another worker is still at.
AuditMatchesExecution ==
    \A a \in audit :
        /\ a.exec # 0 => a.exec \in ExecutionsOf(a.job)
        /\ ~a.unexpected =>
              /\ a.exec # 0
              /\ execs[a.exec].status \in FinalStatus
              /\ a = AuditRow(a.job, execs[a.exec].status, a.exec)

\* A job is LEASED or RUNNING only while some worker is still going to mark it,
\* or because a crash or a failing catch clause abandoned it: only those can
\* leave a job in a status that executeAutomationJobById skips for ever.
Unmarked == {"emergency", "create", "running", "evaluate", "submit", "confirm", "finish", "mark", "catch"}

OnlyCrashStrandsAJob ==
    \A j \in Job : status[j] \in {"LEASED", "RUNNING"} =>
        j \in orphaned \/ \E w \in Worker : cur[w] = j /\ pc[w] \in Unmarked

\* A finished execution row never changes again, whoever else executes the job.
FinishedExecutionIsFinal ==
    [][\A e \in 1 .. Len(execs) : execs[e].status # "STARTED" => execs'[e] = execs[e]]_vars

\* A job that succeeded and that no worker holds stays SUCCEEDED: retries, new
\* enqueues of its key and the direct path's second read all leave it alone.
QuietSuccessIsFinal ==
    [][\A j \in Job : status[j] = "SUCCEEDED" /\ (\A w \in Worker : cur[w] # j)
            => status'[j] = "SUCCEEDED" /\ \A w \in Worker : cur'[w] # j]_vars

\* On the lease path no two workers hold the same job before either has marked it:
\* FOR UPDATE SKIP LOCKED and the LEASED status exclude the second claim.  The one
\* way around it is a worker whose audit insert throws after its mark: its catch
\* clause marks the job again, which by then may be another worker's.
LeaseIsExclusive ==
    \A v, w \in Worker :
        cur[v] = cur[w] /\ cur[v] # NoJob /\ pc[v] \in Unmarked /\ pc[w] \in Unmarked
            => v = w \/ cur[v] \in remarked

\* A job is executed at most maxAttempts times through claims, once per claim,
\* whatever the direct path does with the job meanwhile (it counts no attempts).
ClaimedExecutionsOf(j) == {e \in ExecutionsOf(j) : execs[e].leased}

ExecutionsWithinMaxAttempts ==
    \A j \in Job : Cardinality(ClaimedExecutionsOf(j)) <= MaxAttempts

\* On the lease path SUCCEEDED and DEAD_LETTER are final, but for the same throw.
TerminalIsFinal ==
    [][\A j \in Job : status[j] \in {"SUCCEEDED", "DEAD_LETTER"} /\ j \notin remarked
            => status'[j] = status[j]]_vars
=============================================================================
