-------------------------- MODULE AutomationDaemon --------------------------
(***************************************************************************)
(* The automation daemon (services/automation-daemon.ts) and the routes    *)
(* that execute jobs beside it (routes/automation.ts), composed with the   *)
(* emergency pause that each job is checked against.                       *)
(*                                                                         *)
(* An actor is one call of runTick (by the timer, by start or by the       *)
(* tick-now route) or one request to the worker-tick or the execute route. *)
(* What AutomationExecutor does in eight awaits per job is one step here   *)
(* after the check: the job ends SUCCEEDED or FAILED, unless even its      *)
(* catch clause fails.  Every wallet has one job (AutomationExecutor has   *)
(* the batch by priority and maxJobs); one wallet, Managed, has settings   *)
(* and is evaluated.                                                       *)
(***************************************************************************)
EXTENDS EmergencyPause, FiniteSets

CONSTANTS
    Wallet,           \* wallets, numbered in the order of the wallet column
    Managed,          \* the wallet EmergencyPause is about
    JobTarget,        \* what Managed's job is about: a position, or the wallet
    Tick,             \* concurrent calls of runTick
    Request,          \* requests to the two routes
    RequestKind,      \* of these kinds
    MaxWallets,       \* maxWalletsPerTick
    RetryLimit,       \* retryFailedLimit
    EvaluateEnabled,  \* AUTOMATION_DAEMON_EVALUATE_ENABLED
    MaxThrows         \* bound on the failures

ASSUME DaemonAssumption ==
    /\ Wallet \subseteq Nat
    /\ Managed \in Wallet
    /\ JobTarget \in Target
    /\ Tick \cap Request = {}
    /\ Checker = Tick \cup Request
    /\ RequestKind \subseteq {"workerTick", "executeNow", "executeLater"}
    /\ MaxWallets \in Nat \ {0}
    /\ RetryLimit \in Nat
    /\ EvaluateEnabled \in BOOLEAN
    /\ MaxThrows \in Nat

Actor == Tick \cup Request

\* "none" is a job that has no row.  RUNNING is one whose executor could not even
\* mark it FAILED; LEASED and DEAD_LETTER belong to AutomationExecutor.
JobStatus == {"none", "QUEUED", "RUNNING", "FAILED", "SUCCEEDED"}
Pending == {"QUEUED", "FAILED"}

(***************************************************************************)
(* Where an actor is.  "job" is the loop head over the wallets to do;      *)
(* "check" and "strategyCheck" last from the first lookup to the end of    *)
(* the head wallet's job, the latter inside evaluateWallet; "precheck" is  *)
(* the check of the execute route itself; "log" is the tick's last await.  *)
(***************************************************************************)
Place == {"idle", "evaluate", "strategy", "strategyCheck", "retry", "list", "job", "check",
          "log", "precheck", "enqueue", "done"}
Kind == RequestKind \cup {"tick"}

VARIABLES
    running,    \* state.running, and with it the timer
    inTick,     \* the module's inTick
    job,        \* the status of each wallet's job
    at,         \* each actor's place
    todo,       \* the wallets it has still to do, in their order
    kind,       \* what a request is; "tick" for a call of runTick
    throws      \* how many times a statement has failed, and what catches it

daemonVars == <<running, inTick, job, at, todo, kind, throws>>
vars == <<pauseVars, daemonVars>>
settingVars == <<tables, save, pauseHistory>>

-----------------------------------------------------------------------------
Init ==
    /\ PauseInit
    /\ running = FALSE
    /\ inTick = FALSE
    /\ job = [w \in Wallet |-> "none"]
    /\ at = [a \in Actor |-> "idle"]
    /\ todo = [a \in Actor |-> {}]
    /\ kind = [a \in Actor |-> "tick"]
    /\ throws = 0

Goto(a, place) == at' = [at EXCEPT ![a] = place]
Do(a, wallets) == todo' = [todo EXCEPT ![a] = wallets]
Busy(t) == at[t] # "idle"

\* The wallet an actor is at: the first of those it has still to do.
Current(a) == CHOOSE w \in todo[a] : \A v \in todo[a] : w <= v

-----------------------------------------------------------------------------
(***************************************************************************)
(* start, stop, the timer and the tick.                                    *)
(***************************************************************************)

\* runTick up to its first await.
RunTick(t) ==
    /\ at[t] = "idle"
    /\ ~inTick
    /\ running
    /\ inTick' = TRUE
    /\ Goto(t, "evaluate")
    /\ UNCHANGED <<pauseVars, running, job, todo, kind, throws>>

\* startAutomationDaemon: at boot.  The tick it begins with is the RunTick that follows.
Start ==
    /\ running' = TRUE
    /\ UNCHANGED <<pauseVars, inTick, job, at, todo, kind, throws>>

\* Mutant: stop resets the guard of a tick that is still at work.
StopResetsGuard ==
    /\ running' = FALSE
    /\ inTick' = FALSE
    /\ UNCHANGED <<pauseVars, job, at, todo, kind, throws>>

\* stopAutomationDaemon: a tick at work goes on to its end.
Stop ==
    /\ running' = FALSE
    /\ UNCHANGED <<pauseVars, inTick, job, at, todo, kind, throws>>

\* listAutoManagedWallets: a policy in either spelling makes the wallet auto-managed.
AutoManaged == \E s \in Spelling, t \in Target : policy[s][t] = "active"

Evaluate(t) ==
    /\ at[t] = "evaluate"
    /\ Goto(t, IF EvaluateEnabled /\ AutoManaged THEN "strategy" ELSE "retry")
    /\ UNCHANGED <<pauseVars, running, inTick, job, todo, kind, throws>>

\* evaluateWallet finds nothing to do, or throws, which evaluateAutoManagedWallets
\* catches.
StrategyIdle(t) ==
    /\ at[t] = "strategy"
    /\ Goto(t, "retry")
    /\ UNCHANGED <<pauseVars, running, inTick, job, todo, kind, throws>>

\* evaluateWallet enqueues a job and executes it at once.
StrategyActs(t) ==
    /\ at[t] = "strategy"
    /\ job[Managed] \in {"none", "RUNNING", "SUCCEEDED"}
    /\ job' = [job EXCEPT ![Managed] = "QUEUED"]
    /\ BeginCheck(t, JobTarget)
    /\ Goto(t, "strategyCheck")
    /\ Do(t, {Managed})
    /\ UNCHANGED <<settingVars, running, inTick, kind, throws>>

\* The retry-failed update: RetryLimit of the FAILED jobs, or all of them.
Requeue(failed) ==
    \E S \in SUBSET failed :
        /\ Cardinality(S) = IF Cardinality(failed) < RetryLimit THEN Cardinality(failed) ELSE RetryLimit
        /\ job' = [w \in Wallet |-> IF w \in S THEN "QUEUED" ELSE job[w]]

RetryFailed(a) ==
    /\ at[a] = "retry"
    /\ Requeue({w \in Wallet : job[w] = "FAILED" /\ (kind[a] = "tick" \/ w \in todo[a])})
    /\ Goto(a, IF kind[a] = "tick" THEN "list" ELSE "job")
    /\ UNCHANGED <<pauseVars, running, inTick, todo, kind, throws>>

PendingWallets == {w \in Wallet : job[w] \in Pending}

\* Mutant: the list begins at the other end.
ListLast(t) ==
    /\ at[t] = "list"
    /\ Do(t, {w \in PendingWallets : Cardinality({v \in PendingWallets : w < v}) < MaxWallets})
    /\ Goto(t, "job")
    /\ UNCHANGED <<pauseVars, running, inTick, job, kind, throws>>

\* listWalletsWithPendingAutomationJobs: the first MaxWallets of them.
ListWallets(t) ==
    /\ at[t] = "list"
    /\ Do(t, {w \in PendingWallets : Cardinality({v \in PendingWallets : v < w}) < MaxWallets})
    /\ Goto(t, "job")
    /\ UNCHANGED <<pauseVars, running, inTick, job, kind, throws>>

-----------------------------------------------------------------------------
(***************************************************************************)
(* executeQueuedJobsForWallet for the wallet at the head of the list.      *)
(***************************************************************************)
NextWallet(a) == Do(a, todo[a] \ {Current(a)})

\* The job is through: back to the loop, or to the rest of the tick.
AfterJob(a) ==
    /\ Goto(a, IF at[a] = "strategyCheck" THEN "retry" ELSE "job")
    /\ NextWallet(a)

\* The wallet has no pending job, or somebody else took it out of that status.
SkipWallet(a) ==
    /\ at[a] = "job"
    /\ todo[a] # {}
    /\ job[Current(a)] \notin Pending
    /\ NextWallet(a)
    /\ UNCHANGED <<pauseVars, running, inTick, job, at, kind, throws>>

\* Its job is read; checkEmergencyPaused begins.  The other wallets have no
\* settings, so their lookups find nothing and are left out.
SelectJob(a) ==
    /\ at[a] = "job"
    /\ todo[a] # {}
    /\ job[Current(a)] \in Pending
    /\ IF Current(a) = Managed THEN BeginCheck(a, JobTarget) ELSE UNCHANGED check
    /\ Goto(a, "check")
    /\ UNCHANGED <<settingVars, running, inTick, job, todo, kind, throws>>

\* Mutant: the verdict of the check is not looked at.
ExecuteAnyway(a) ==
    LET w == Current(a)
    IN  /\ at[a] \in {"check", "strategyCheck"}
        /\ IF w = Managed THEN EndCheck(a) ELSE UNCHANGED check
        /\ \E outcome \in {"FAILED", "SUCCEEDED"} : job' = [job EXCEPT ![w] = outcome]
        /\ AfterJob(a)
        /\ UNCHANGED <<settingVars, running, inTick, kind, throws>>

\* The rest of executeSingleJob: a paused job fails, any other succeeds or fails.
\* (The failure that the strategy worker turns into an exception is caught.)
ExecuteJob(a) ==
    LET w == Current(a)
    IN  /\ at[a] \in {"check", "strategyCheck"}
        /\ IF w = Managed THEN EndCheck(a) ELSE UNCHANGED check
        /\ \E outcome \in IF w = Managed /\ check[a].at = "blocked"
                          THEN {"FAILED"} ELSE {"FAILED", "SUCCEEDED"} :
                job' = [job EXCEPT ![w] = outcome]
        /\ AfterJob(a)
        /\ UNCHANGED <<settingVars, running, inTick, kind, throws>>

\* Mutant: the end of the loop returns without the finally clause.
EndLoopReturns(a) ==
    /\ at[a] = "job"
    /\ todo[a] = {}
    /\ Goto(a, "done")
    /\ UNCHANGED <<pauseVars, running, inTick, job, todo, kind, throws>>

\* All wallets are done: a tick persists its log, a request answers.
EndLoop(a) ==
    /\ at[a] = "job"
    /\ todo[a] = {}
    /\ Goto(a, IF kind[a] = "tick" THEN "log" ELSE "done")
    /\ UNCHANGED <<pauseVars, running, inTick, job, todo, kind, throws>>

\* The finally clause.
EndTick(t) ==
    /\ at[t] = "log"
    /\ inTick' = FALSE
    /\ Goto(t, "idle")
    /\ UNCHANGED <<pauseVars, running, job, todo, kind, throws>>

-----------------------------------------------------------------------------
(***************************************************************************)
(* POST /automation/worker/tick and POST /automation/execute.              *)
(***************************************************************************)
Receive(r, k, w) ==
    /\ at[r] = "idle"
    /\ kind' = [kind EXCEPT ![r] = k]
    /\ Do(r, {w})
    /\ IF k = "executeNow" /\ w = Managed
       THEN Goto(r, "precheck") /\ BeginCheck(r, JobTarget)
       ELSE Goto(r, IF k = "workerTick" THEN "retry" ELSE "enqueue") /\ UNCHANGED check
    /\ UNCHANGED <<settingVars, running, inTick, job, throws>>

\* The execute route answers 403 when its own check is blocked.
EndPrecheck(r) ==
    /\ at[r] = "precheck"
    /\ EndCheck(r)
    /\ Goto(r, IF check[r].at = "blocked" THEN "done" ELSE "enqueue")
    /\ UNCHANGED <<settingVars, running, inTick, job, todo, kind, throws>>

\* enqueueAutomationJob: an existing row with the idempotency key is left as it is.
Enqueue(r) ==
    LET w == Current(r)
    IN  /\ at[r] = "enqueue"
        /\ job' = [job EXCEPT ![w] = IF @ = "none" THEN "QUEUED" ELSE @]
        /\ Goto(r, IF kind[r] = "executeNow" THEN "job" ELSE "done")
        /\ UNCHANGED <<pauseVars, running, inTick, todo, kind, throws>>

-----------------------------------------------------------------------------
(***************************************************************************)
(* Failures.                                                               *)
(***************************************************************************)
Leave(a) == IF kind[a] = "tick" THEN "log" ELSE "done"

\* A statement throws outside the try block of a job (and of evaluateWallet, see
\* StrategyIdle).  In a tick the catch clause logs and the finally clause follows:
\* the wallets behind the current one are not executed.
Throw(a) ==
    /\ throws < MaxThrows
    /\ at[a] \in {"evaluate", "retry", "list", "job", "precheck", "enqueue"}
    /\ Goto(a, Leave(a))
    /\ Do(a, {})
    /\ check' = [check EXCEPT ![a] = NoCheck]
    /\ throws' = throws + 1
    /\ UNCHANGED <<settingVars, running, inTick, job, kind>>

\* A statement throws while a job is checked or executed: executeAutomationJobById
\* catches it, marks the job FAILED and the loop goes on to the next.
JobThrows(a) ==
    /\ throws < MaxThrows
    /\ at[a] \in {"check", "strategyCheck"}
    /\ job' = [job EXCEPT ![Current(a)] = "FAILED"]
    /\ AfterJob(a)
    /\ check' = [check EXCEPT ![a] = NoCheck]
    /\ throws' = throws + 1
    /\ UNCHANGED <<settingVars, running, inTick, kind>>

\* What executeSingleJob may have marked its job when it throws.
MarksOf(a) ==
    IF Current(a) # Managed \/ check[a].at = "passed" THEN {"RUNNING", "FAILED", "SUCCEEDED"}
    ELSE IF check[a].at = "blocked" THEN {"FAILED"} ELSE {}

\* The catch clause's own update throws as well: the job stays as it was marked,
\* and the exception leaves the loop (evaluateAutoManagedWallets catches its own).
CatchThrows(a) ==
    /\ throws < MaxThrows
    /\ at[a] \in {"check", "strategyCheck"}
    /\ \E mark \in {job[Current(a)]} \cup MarksOf(a) : job' = [job EXCEPT ![Current(a)] = mark]
    /\ Goto(a, IF at[a] = "strategyCheck" THEN "retry" ELSE Leave(a))
    /\ Do(a, {})
    /\ check' = [check EXCEPT ![a] = NoCheck]
    /\ throws' = throws + 1
    /\ UNCHANGED <<settingVars, running, inTick, kind>>

\* The process ends: what is in memory is gone, requests get no answer.
Crash ==
    /\ running' = FALSE
    /\ inTick' = FALSE
    /\ at' = [a \in Actor |-> IF a \in Request /\ at[a] # "idle" THEN "done" ELSE "idle"]
    /\ todo' = [a \in Actor |-> {}]
    /\ check' = [c \in Checker |-> NoCheck]
    /\ save' = [s \in Saver |-> IF save[s].at \in {"idle", "done", "refused"} THEN save[s]
                                ELSE [save[s] EXCEPT !.at = "dead"]]
    /\ UNCHANGED <<tables, pauseHistory, job, kind, throws>>

-----------------------------------------------------------------------------
TickStep(t) ==
    \/ Evaluate(t)
    \/ StrategyIdle(t)
    \/ StrategyActs(t)
    \/ ListWallets(t)
    \/ EndTick(t)

RequestStep(r) ==
    \/ \E k \in RequestKind, w \in Wallet : Receive(r, k, w)
    \/ EndPrecheck(r)
    \/ Enqueue(r)

ActorStep(a) ==
    \/ RetryFailed(a)
    \/ SkipWallet(a)
    \/ SelectJob(a)
    \/ ExecuteJob(a)
    \/ EndLoop(a)

Failure(a) == Throw(a) \/ JobThrows(a) \/ CatchThrows(a)

Next ==
    \/ \E t \in Tick : RunTick(t) \/ TickStep(t)
    \/ \E r \in Request : RequestStep(r)
    \/ \E a \in Actor : ActorStep(a) \/ Failure(a)
    \/ Start \/ Stop \/ Crash
    \/ SettingsNext /\ UNCHANGED daemonVars

Spec == Init /\ [][Next]_vars

\* Every await of a tick ends, and the timer keeps firing while it is set.
Fairness ==
    /\ \A t \in Tick : WF_vars(TickStep(t) \/ ActorStep(t))
    /\ \A t \in Tick : WF_vars(Lookup(t) /\ UNCHANGED daemonVars)
    /\ WF_vars(\E t \in Tick : RunTick(t))

FairSpec == Spec /\ Fairness

-----------------------------------------------------------------------------
TickPlace == Place \ {"precheck", "enqueue", "done"}
RequestPlace == {"idle", "retry", "job", "check", "precheck", "enqueue", "done"}

\* Whoever executes a job has its wallet at the head of its list.
TypeOK ==
    /\ PauseTypeOK
    /\ running \in BOOLEAN
    /\ inTick \in BOOLEAN
    /\ job \in [Wallet -> JobStatus]
    /\ at \in [Actor -> Place]
    /\ \A t \in Tick : at[t] \in TickPlace /\ kind[t] = "tick"
    /\ \A r \in Request : at[r] \in RequestPlace /\ (at[r] # "idle" => kind[r] \in RequestKind)
    /\ \A a \in Actor : at[a] \in {"check", "strategyCheck"} => todo[a] # {}
    /\ todo \in [Actor -> SUBSET Wallet]
    /\ kind \in [Actor -> Kind]
    /\ throws \in 0 .. MaxThrows

\* inTick is set exactly while one tick is at work, through exceptions, a stop
\* and a start in the middle of a tick, and restarts.
OneTickAtATime ==
    /\ inTick <=> \E t \in Tick : Busy(t)
    /\ \A t, u \in Tick : Busy(t) /\ Busy(u) => t = u

\* A job whose target the settings pause from the first lookup of its own check
\* until the check is acted on is not executed but fails, through exceptions
\* too, but for the race that PauseHolds names (automation-executor.ts:177).
PausedJobsFail ==
    [][\A a \in Actor :
        at[a] \in {"check", "strategyCheck"} /\ at'[a] # at[a]
                /\ Current(a) = Managed /\ check[a].sure /\ ~check[a].missed
            => job'[Managed] \in {job[Managed], "FAILED"}]_vars

\* As many wallets before w as a tick takes have pending jobs.
Crowded(w) == Cardinality({v \in PendingWallets : v < w}) >= MaxWallets

\* While the daemon runs and a wallet is not crowded out, its queued job is
\* executed: failing ticks and other wallets' failures do not keep it waiting.
EveryWalletServed ==
    \A w \in Wallet :
        <>[](running /\ ~Crowded(w)) => (job[w] = "QUEUED" ~> job[w] # "QUEUED")
=============================================================================
