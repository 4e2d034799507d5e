-------------------------- MODULE DailyDistribution --------------------------
(***************************************************************************)
(* How the profit of a day is turned into distributions, once per owner:   *)
(* the scheduler's tick (services/daily-distribution-scheduler.ts), the    *)
(* trigger route POST /profit/daily-distribution/trigger (routes/profit.ts)*)
(* and the engine that both call (services/daily-profit-engine.ts).        *)
(*                                                                         *)
(* A runner is one execution of the tick or one trigger request.  Every    *)
(* awaited statement is an action: another runner, a database error or a   *)
(* crash of the process can come between two of them.                      *)
(***************************************************************************)
EXTENDS Integers, Sequences

CONSTANTS
    Owners,          \* the wallets with open positions, in the order they are read
    Beneficiaries,   \* owner -> the wallets its distribution has an item for
    Day,             \* the days that triggers may name
    Today,           \* the day of the tick
    Tick,            \* calls of runDailyDistributionTick: the timer and tick-now
    Trigger,         \* trigger requests
    Key,             \* the (callerWallet, idempotencyKey) pairs of triggers
    Body,            \* the keys and days that they may carry
    RunDay,          \* the days of POST /profit/distributions/run
    MaxRetries,      \* MAX_RETRIES
    InferableIndex,  \* ON CONFLICT finds a unique index on (ownerWallet, distributionAt)
    ThrowAt,         \* the locations whose statements may fail
    MayCrash         \* the process may die

Owner == {Owners[n] : n \in DOMAIN Owners}
Runner == Tick \cup Trigger

ASSUME DistributionConstants ==
    /\ Owners \in Seq(Owner)
    /\ \A o \in Owner : o \in Beneficiaries[o]
    /\ Today \in Day
    /\ Body \subseteq [key : Key, day : Day]
    /\ RunDay \subseteq Day
    /\ Tick \cap Trigger = {}
    /\ MaxRetries \in Nat \ {0}
    /\ InferableIndex \in BOOLEAN
    /\ ThrowAt \subseteq {"insert", "clash", "snapshot", "existing", "create", "audit", "log",
                        "end", "auditEnd", "catch"}
    /\ MayCrash \in BOOLEAN

Completed == {"COMPLETED_SUCCESS", "COMPLETED_PARTIAL"}

\* The status of a request's DailyDistributionTrigger row, "none" without a row.
RowStatus == {"none", "PENDING", "FAILED"} \cup Completed

\* The locations in the loop over the wallets: "audit" is the audit row of a created
\* distribution, "log" that of a wallet that is skipped or given up.
Loop == {"snapshot", "existing", "create", "audit", "log"}
Location == {"new", "lookup", "insert", "clash", "end", "auditEnd", "catch", "done", "dead"} \cup Loop

VARIABLES
    rows,       \* ProfitDistribution rows, with the wallets of their items and who inserted them
    rowStatus,  \* the trigger rows
    body,       \* the key and the day that each trigger request carries
    running,    \* state.running of the scheduler
    pc,         \* a runner's location
    at,         \* its index into Owners
    attempt,    \* its attempt at the owner's distribution
    served,     \* its counter "processed" is not 0
    failed,     \* its counter "failed" is not 0
    incomplete, \* the owners it skipped for their snapshots
    answer      \* what a trigger request was told

loopVars == <<at, attempt, served, failed, incomplete>>
vars == <<rows, rowStatus, body, running, pc, at, attempt, served, failed, incomplete, answer>>

-----------------------------------------------------------------------------
Init ==
    /\ rows = {}
    /\ rowStatus = [t \in Trigger |-> "none"]
    /\ body \in [Trigger -> Body]
    /\ running = FALSE
    /\ pc = [r \in Runner |-> "new"]
    /\ at = [r \in Runner |-> 1]
    /\ attempt = [r \in Runner |-> 1]
    /\ served = [r \in Runner |-> FALSE]
    /\ failed = [r \in Runner |-> FALSE]
    /\ incomplete = [r \in Runner |-> {}]
    /\ answer = [t \in Trigger |-> "none"]

-----------------------------------------------------------------------------
Goto(r, l) == pc' = [pc EXCEPT ![r] = l]
Flag(f, r) == f' = [f EXCEPT ![r] = TRUE]

\* A runner that returns or dies takes its local variables with it; the owners that a
\* trigger skipped stay, in its row's resultJson.
Leave(r, l) ==
    /\ Goto(r, l)
    /\ at' = [at EXCEPT ![r] = 1]
    /\ attempt' = [attempt EXCEPT ![r] = 1]
    /\ served' = [served EXCEPT ![r] = FALSE]
    /\ failed' = [failed EXCEPT ![r] = FALSE]
    /\ incomplete' = [incomplete EXCEPT ![r] = IF r \in Trigger THEN @ ELSE {}]

DayOf(r) == IF r \in Tick THEN Today ELSE body[r].day

(***************************************************************************)
(* The tick's entry: one at a time in this process.  An empty list of      *)
(* wallets ends it at once.                                                *)
(***************************************************************************)
\* Mutant: the flag is not tested.
BeginTickAnyway(r) ==
    /\ pc[r] = "new"
    /\ running' = TRUE
    /\ Goto(r, IF Owners = << >> THEN "end" ELSE "snapshot")
    /\ UNCHANGED <<rows, rowStatus, body, loopVars, answer>>

BeginTick(r) ==
    /\ pc[r] = "new"
    /\ running' = TRUE
    /\ IF running THEN Goto(r, "done") ELSE Goto(r, IF Owners = << >> THEN "end" ELSE "snapshot")
    /\ UNCHANGED <<rows, rowStatus, body, loopVars, answer>>

(***************************************************************************)
(* The trigger's entry: the row of the idempotency key, then an INSERT     *)
(* that two unique indexes guard, then what its refusal means.             *)
(***************************************************************************)
Answer(t, a) == Leave(t, "done") /\ answer' = [answer EXCEPT ![t] = a]

WithKey(t) == {u \in Trigger : rowStatus[u] # "none" /\ body[u].key = body[t].key}
WithDay(t) == {u \in Trigger : rowStatus[u] # "none" /\ body[u].day = body[t].day}

LookupKey(t) ==
    /\ pc[t] = "new"
    /\ \/ \E u \in WithKey(t) : rowStatus[u] = "PENDING" /\ Answer(t, "conflict")
       \/ \E u \in WithKey(t) : rowStatus[u] \in Completed /\ Answer(t, "cached")
       \/ /\ \A u \in WithKey(t) : rowStatus[u] = "FAILED"
          /\ Goto(t, "insert")
          /\ UNCHANGED <<loopVars, answer>>
    /\ UNCHANGED <<rows, rowStatus, body, running>>

InsertTrigger(t) ==
    /\ pc[t] = "insert"
    /\ IF WithKey(t) \cup WithDay(t) = {}
       THEN /\ rowStatus' = [rowStatus EXCEPT ![t] = "PENDING"]
            /\ Goto(t, IF Owners = << >> THEN "end" ELSE "snapshot")
       ELSE Goto(t, "clash") /\ UNCHANGED rowStatus
    /\ UNCHANGED <<rows, body, running, loopVars, answer>>

\* The row of the day decides; without one, any settled row of the key is replayed.
ReadClash(t) ==
    /\ pc[t] = "clash"
    /\ LET day == WithDay(t)
           key == WithKey(t)
       IN  \/ (\E u \in day : rowStatus[u] \in Completed) /\ Answer(t, "cached")
           \/ (\E u \in day : rowStatus[u] \notin Completed) /\ Answer(t, "conflict")
           \/ day = {} /\ (\E u \in key : rowStatus[u] # "PENDING") /\ Answer(t, "cached")
           \/ day = {} /\ (\E u \in key : rowStatus[u] = "PENDING") /\ Answer(t, "conflict")
    /\ UNCHANGED <<rows, rowStatus, body, running>>

(***************************************************************************)
(* The loop over the wallets, common to both.                              *)
(***************************************************************************)
\* On to the next wallet, or out of the loop.
Advance(r) ==
    /\ at' = [at EXCEPT ![r] = @ + 1]
    /\ attempt' = [attempt EXCEPT ![r] = 1]
    /\ Goto(r, IF at[r] = Len(Owners) THEN "end" ELSE "snapshot")

\* isWalletSnapshotCompleteForDate, with the refreshes that try to complete it.
CheckSnapshot(r) ==
    /\ pc[r] = "snapshot"
    /\ \/ /\ Goto(r, IF r \in Tick THEN "existing" ELSE "create")
          /\ UNCHANGED incomplete
       \/ /\ incomplete' = [incomplete EXCEPT ![r] = @ \cup {Owners[at[r]]}]
          /\ Goto(r, "log")
    /\ UNCHANGED <<rows, rowStatus, body, running, at, attempt, served, failed, answer>>

\* The audit row for a wallet that is skipped or given up.
LogAndAdvance(r) ==
    /\ pc[r] = "log"
    /\ Advance(r)
    /\ UNCHANGED <<rows, rowStatus, body, running, served, failed, incomplete, answer>>

\* The tick's own check: an item of this wallet in any distribution of the day.
CheckExisting(r) ==
    /\ pc[r] = "existing"
    /\ IF \E d \in rows : d.day = DayOf(r) /\ Owners[at[r]] \in d.items
       THEN Flag(served, r) /\ Advance(r)
       ELSE Goto(r, "create") /\ UNCHANGED <<at, attempt, served>>
    /\ UNCHANGED <<rows, rowStatus, body, running, failed, incomplete, answer>>

Distribution(r) ==
    [owner |-> Owners[at[r]], day |-> DayOf(r), items |-> Beneficiaries[Owners[at[r]]], by |-> r]
Exists(o, day) == \E d \in rows : d.owner = o /\ d.day = day

\* Mutant: a plain INSERT, without ON CONFLICT and without the index.
CreateAgain(r) ==
    /\ pc[r] = "create"
    /\ rows' = rows \cup {Distribution(r)}
    /\ Flag(served, r)
    /\ Goto(r, "audit")
    /\ UNCHANGED <<rowStatus, body, running, at, attempt, failed, incomplete, answer>>

\* createDailyProfitDistribution: the row and its items in one transaction.  An
\* owner that has its row is "skipped", which only the trigger looks at.
Create(r) ==
    /\ pc[r] = "create"
    /\ InferableIndex
    /\ Flag(served, r)
    /\ \/ /\ ~Exists(Owners[at[r]], DayOf(r))
          /\ rows' = rows \cup {Distribution(r)}
          /\ Goto(r, "audit")
          /\ UNCHANGED <<at, attempt>>
       \/ /\ Exists(Owners[at[r]], DayOf(r))
          /\ IF r \in Tick THEN Goto(r, "audit") /\ UNCHANGED <<at, attempt>> ELSE Advance(r)
          /\ UNCHANGED rows
    /\ UNCHANGED <<rowStatus, body, running, failed, incomplete, answer>>

LogCreated(r) ==
    /\ pc[r] = "audit"
    /\ Advance(r)
    /\ UNCHANGED <<rows, rowStatus, body, running, served, failed, incomplete, answer>>

\* Mutant: the last attempt is not counted as a failure.
RetryUncounted(r) ==
    /\ pc[r] \in {"create", "audit"} \cap ThrowAt
    /\ IF attempt[r] < MaxRetries
       THEN attempt' = [attempt EXCEPT ![r] = @ + 1] /\ Goto(r, "create")
       ELSE Goto(r, "log") /\ UNCHANGED attempt
    /\ UNCHANGED <<rows, rowStatus, body, running, at, served, failed, incomplete, answer>>

\* Mutant: one attempt too many.
RetryOnceMore(r) ==
    /\ pc[r] \in {"create", "audit"} \cap ThrowAt
    /\ IF attempt[r] <= MaxRetries
       THEN attempt' = [attempt EXCEPT ![r] = @ + 1] /\ Goto(r, "create") /\ UNCHANGED failed
       ELSE Flag(failed, r) /\ Goto(r, "log") /\ UNCHANGED attempt
    /\ UNCHANGED <<rows, rowStatus, body, running, at, served, incomplete, answer>>

\* The catch clause of the retry loop: the creation or its audit row threw.
Retry(r) ==
    /\ pc[r] \in {"create", "audit"}
    /\ pc[r] \in ThrowAt \/ (pc[r] = "create" /\ ~InferableIndex)
    /\ IF attempt[r] < MaxRetries
       THEN attempt' = [attempt EXCEPT ![r] = @ + 1] /\ Goto(r, "create") /\ UNCHANGED failed
       ELSE Flag(failed, r) /\ Goto(r, "log") /\ UNCHANGED attempt
    /\ UNCHANGED <<rows, rowStatus, body, running, at, served, incomplete, answer>>

(***************************************************************************)
(* The end of a run, and the outer catch clauses.                          *)
(***************************************************************************)
\* Mutant: the flag is reset only on success.
EndTickOnSuccess(r) ==
    /\ pc[r] \in {"end", "catch"}
    /\ running' = (running /\ pc[r] = "catch")
    /\ Leave(r, "done")
    /\ UNCHANGED <<rows, rowStatus, body, answer>>

\* The finally clause runs on success and after the catch clause.
EndTick(r) ==
    /\ pc[r] \in {"end", "catch"}
    /\ running' = FALSE
    /\ Leave(r, "done")
    /\ UNCHANGED <<rows, rowStatus, body, answer>>

Verdict(t) ==
    IF ~failed[t] THEN "COMPLETED_SUCCESS"
    ELSE IF served[t] THEN "COMPLETED_PARTIAL" ELSE "FAILED"

EndTrigger(t) ==
    /\ pc[t] = "end"
    /\ rowStatus' = [rowStatus EXCEPT ![t] = Verdict(t)]
    /\ Goto(t, "auditEnd")
    /\ UNCHANGED <<rows, body, running, loopVars, answer>>

AnswerTrigger(t) ==
    /\ pc[t] = "auditEnd"
    /\ Answer(t, "ok")
    /\ UNCHANGED <<rows, rowStatus, body, running>>

\* Mutant: the catch clause answers without settling the row.
FailTriggerSilently(t) ==
    /\ pc[t] = "catch"
    /\ Answer(t, "error")
    /\ UNCHANGED <<rows, rowStatus, body, running>>

\* The catch clause of the route: FAILED, whatever the row said before; then its
\* audit row, which may throw out of the handler.
FailTrigger(t) ==
    /\ pc[t] = "catch"
    /\ rowStatus' = [rowStatus EXCEPT ![t] = "FAILED"]
    /\ \/ Answer(t, "error")
       \/ "catch" \in ThrowAt /\ Leave(t, "dead") /\ UNCHANGED answer
    /\ UNCHANGED <<rows, body, running>>

\* A statement outside the retry loop throws: into the outer catch clause, or,
\* before the trigger's try block and inside its catch clause, out of the handler.
Throw(r) ==
    /\ pc[r] \in ThrowAt
    /\ \/ /\ pc[r] \in {"snapshot", "existing", "log", "auditEnd"} \/ (r \in Trigger /\ pc[r] = "end")
          /\ Goto(r, "catch")
          /\ UNCHANGED loopVars
       \/ r \in Trigger /\ pc[r] \in {"insert", "clash", "catch"} /\ Leave(r, "dead")
    /\ UNCHANGED <<rows, rowStatus, body, running, answer>>

\* The process dies with every runner in it; the scheduler's flag is memory.
Crash ==
    /\ MayCrash
    /\ \E r \in Runner : pc[r] \notin {"new", "done", "dead"}
    /\ running' = FALSE
    /\ pc' = [r \in Runner |-> IF pc[r] \in {"new", "done"} THEN pc[r] ELSE "dead"]
    /\ at' = [r \in Runner |-> 1]
    /\ attempt' = [r \in Runner |-> 1]
    /\ served' = [r \in Runner |-> FALSE]
    /\ failed' = [r \in Runner |-> FALSE]
    /\ incomplete' = [r \in Runner |-> IF r \in Trigger THEN incomplete[r] ELSE {}]
    /\ UNCHANGED <<rows, rowStatus, body, answer>>

\* POST /profit/distributions/run creates one owner's distribution, of any day.  It
\* asks for no snapshots; without any of the day the distribution has no items.
RunForOwner(o, day) ==
    /\ InferableIndex
    /\ ~Exists(o, day)
    /\ \E items \in {{}, Beneficiaries[o]} :
          rows' = rows \cup {[owner |-> o, day |-> day, items |-> items, by |-> "run"]}
    /\ UNCHANGED <<rowStatus, body, running, pc, loopVars, answer>>

-----------------------------------------------------------------------------
LoopStep(r) ==
    \/ CheckSnapshot(r) \/ LogAndAdvance(r) \/ CheckExisting(r)
    \/ Create(r) \/ LogCreated(r) \/ Retry(r)

Step(r) ==
    \/ LoopStep(r) \/ Throw(r)
    \/ r \in Tick /\ EndTick(r)
    \/ r \in Trigger /\ (InsertTrigger(r) \/ ReadClash(r) \/ EndTrigger(r) \/ AnswerTrigger(r) \/ FailTrigger(r))

Next ==
    \/ \E r \in Runner : Step(r)
    \/ \E r \in Tick : BeginTick(r)
    \/ \E t \in Trigger : LookupKey(t)
    \/ \E o \in Owner, day \in RunDay : RunForOwner(o, day)
    \/ Crash

Spec == Init /\ [][Next]_vars

\* Every await of a run ends, in a result or in an error.
FairSpec == Spec /\ \A r \in Runner : WF_vars(Step(r))

-----------------------------------------------------------------------------
(***************************************************************************)
(* Properties.                                                             *)
(***************************************************************************)
Row ==
    [owner : Owner, day : Day, items : {{}} \cup {Beneficiaries[o] : o \in Owner},
     by : Runner \cup {"run"}]

\* What the database and the requests hold.
StoreOK ==
    /\ rows \subseteq Row
    /\ rowStatus \in [Trigger -> RowStatus]
    /\ body \in [Trigger -> Body]
    /\ running \in BOOLEAN
    /\ answer \in [Trigger -> {"none", "ok", "error", "cached", "conflict"}]

\* Where a runner is: in the loop it is at one of the owners.
PlaceOK ==
    /\ pc \in [Runner -> Location]
    /\ at \in [Runner -> 1 .. Len(Owners) + 1]
    /\ \A r \in Runner : pc[r] \in Loop => at[r] <= Len(Owners)

\* What it counts.
LocalsOK ==
    /\ attempt \in [Runner -> 1 .. MaxRetries]
    /\ served \in [Runner -> BOOLEAN]
    /\ failed \in [Runner -> BOOLEAN]
    /\ incomplete \in [Runner -> SUBSET Owner]

TypeOK == StoreOK /\ PlaceOK /\ LocalsOK

\* An owner has one distribution per day, however many ticks, triggers and direct
\* runs race for it: nobody is paid twice for the same profit.
OneDistributionPerDay ==
    \A d, e \in rows : d.owner = e.owner /\ d.day = e.day => d = e

\* A day is distributed by one trigger request only, whatever keys are used.
OneTriggerPerDay ==
    \A t, u \in Trigger :
        rowStatus[t] # "none" /\ rowStatus[u] # "none" /\ body[t].day = body[u].day => t = u

\* state.running is true exactly while a tick is in its loop, and never two are:
\* errors at any statement and a crash leave the scheduler able to run again.
InTick(r) == pc[r] \in Loop \cup {"end", "catch"}

RunningIsExact ==
    /\ running <=> \E r \in Tick : InTick(r)
    /\ \A r, s \in Tick : InTick(r) /\ InTick(s) => r = s

\* A finished trigger says what happened: after COMPLETED_SUCCESS every owner has
\* its distribution of the day or was skipped for an incomplete snapshot, after
\* COMPLETED_PARTIAL at least one owner has it.
VerdictIsHonest ==
    \A t \in Trigger :
        /\ rowStatus[t] = "COMPLETED_SUCCESS" =>
                \A o \in Owner : Exists(o, body[t].day) \/ o \in incomplete[t]
        /\ rowStatus[t] = "COMPLETED_PARTIAL" => \E o \in Owner : Exists(o, body[t].day)

\* A trigger row does not stay PENDING, unless its request died: by a crash, or
\* by an error inside its catch clause.
TriggerSettles ==
    \A t \in Trigger : rowStatus[t] = "PENDING" ~> rowStatus[t] # "PENDING" \/ pc[t] = "dead"

\* While no statement fails by itself, an INSERT of a distribution that nobody has
\* made before succeeds, and the other callers find its row (section 6 of
\* docs/daily-distribution-trigger-p0-p1-implementation.md).
InsertSucceeds ==
    \A t \in Trigger : pc[t] = "end" =>
        \A o \in Owner : Exists(o, body[t].day) \/ o \in incomplete[t]
=============================================================================
