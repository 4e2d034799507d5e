---------------------------- MODULE WalletAccess ----------------------------
(***************************************************************************)
(* Who gets into the signed routes: the challenge a wallet signs           *)
(* (routes/auth.ts, auth/), and what its permissions allow, which the      *)
(* owner edits through POST /automation/operators and every route reads    *)
(* through a cache (services/auth, services/automation/                    *)
(* operator-permissions.ts).  There is one owner wallet, whose data all    *)
(* requests are about.                                                     *)
(***************************************************************************)
EXTENDS Integers, Sequences

CONSTANTS
    Owner, Operator,  \* the wallets that sign
    Request,          \* requests to the signed routes
    Nonce,            \* challenges
    Ask,              \* what a request may be: see Asks
    Saved,            \* the rows an operator may have at the start
    Stores,           \* CHALLENGE_STORE_BACKEND is one of them: "memory", "redis"
    ExecutionPath,    \* AUTOMATION_EXECUTION_ENABLED or AUTOMATION_AUTO_COMPOUND_ENABLED
    ChallengeTtl, CacheTtl, MaxEntries,
    ReadDelay,        \* bound on a database answer's way to the process
    MaxTime,          \* bound on the clock
    MaxFaults         \* bound on the statements that fail and on restarts

Wallet == {Owner} \cup Operator
Time == 0 .. MaxTime

Grant == {"evaluate", "execute", "pause", "strategy"}

\* The columns of the first migration; the fallback statements know no others.
OldGrant == {"evaluate", "execute"}
Row == [active : BOOLEAN, grants : SUBSET Grant]
NoRow == [active |-> FALSE, grants |-> {}]

-----------------------------------------------------------------------------
(***************************************************************************)
(* The routes.  "who" is whom a route lets in: the owner alone, operators  *)
(* with all of "needs" too, or any wallet that signs.                      *)
(***************************************************************************)
Read(needs) == [who |-> "operator", needs |-> needs, does |-> "answer"]
Own == [who |-> "owner", needs |-> {}, does |-> "answer"]
Anybody == [who |-> "any", needs |-> {}, does |-> "answer"]

PoliciesRoute == Read({"evaluate"})
JobsRoute == Read({"evaluate"})
ExecutionsRoute == Read({"evaluate"})
AuditRoute == Read({"evaluate"})
ReadSettingsRoute == Read({"evaluate"})
RevenuePoliciesRoute == Read({"evaluate"})
DistributionsRoute == Read({"evaluate"})
MetricsRoute(named) == IF named THEN Read({"evaluate"}) ELSE Anybody
SyncStatusRoute == Read({"evaluate"})
SyncRoute == Read({"evaluate"})
SyncOverviewRoute == Read({"evaluate"})
SyncIndexedRoute == Read({"evaluate"})
WorkerTickRoute == Read({"evaluate", "execute"})
ExecuteRoute == Read({"evaluate", "execute"})
RunDistributionRoute == Read({"evaluate", "execute"})
EvaluateRoute == Read({"evaluate"} \cup IF ExecutionPath THEN {"execute"} ELSE {})
SmokeRoute(live) == Read({"evaluate"} \cup IF live THEN {"execute"} ELSE {})
NotificationsRoute == Own
ActivityRoute == Own
CreatePositionRoute == Own
ReadDistributionWalletRoute == Own
DistributionWalletRoute == Own
RevenuePolicyRoute == Own
WorkerHealthRoute == Anybody
DaemonTicksRoute == Anybody
TickNowRoute == Anybody
CleanupNowRoute == Anybody
DistributionTickNowRoute == Anybody
\* POST /automation/settings authorizes an operator again when it changes the pause.
SettingsRoute == [Read({"strategy"}) EXCEPT !.does = "again"]
OperatorsRoute == [Read({}) EXCEPT !.does = "list"]
UpsertOperatorRoute == [Own EXCEPT !.does = "upsert"]

Route == {PoliciesRoute, JobsRoute, ExecutionsRoute, AuditRoute, ReadSettingsRoute,
          RevenuePoliciesRoute, DistributionsRoute, MetricsRoute(TRUE), MetricsRoute(FALSE),
          SyncStatusRoute, SyncRoute, SyncOverviewRoute, SyncIndexedRoute, WorkerTickRoute,
          ExecuteRoute, RunDistributionRoute, EvaluateRoute, SmokeRoute(TRUE),
          SmokeRoute(FALSE), NotificationsRoute, ActivityRoute, CreatePositionRoute,
          ReadDistributionWalletRoute, DistributionWalletRoute, RevenuePolicyRoute,
          WorkerHealthRoute, DaemonTicksRoute, TickNowRoute, CleanupNowRoute,
          DistributionTickNowRoute, SettingsRoute, OperatorsRoute, UpsertOperatorRoute}

NeedSet == {route.needs : route \in Route} \cup {{"pause"}}

\* A request shows the message that its wallet signed with some nonce; "about" and
\* "row" are the body of an upsert.
Asks == [route : Route, by : Wallet, about : Operator, row : Row, nonce : Nonce]

ASSUME AccessAssumption ==
    /\ Owner \notin Operator
    /\ Ask \subseteq Asks
    /\ Ask # {}
    /\ Saved \subseteq Row
    /\ Stores \subseteq {"memory", "redis"}
    /\ ExecutionPath \in BOOLEAN
    /\ ChallengeTtl \in Nat
    /\ CacheTtl \in Nat
    /\ MaxEntries \in Nat \ {0}
    /\ ReadDelay \in Nat
    /\ MaxTime \in Nat
    /\ MaxFaults \in Nat

VARIABLES
    now,
    store,       \* the backend of the challenge store; it never changes
    challenge,   \* the challenge store
    issued,      \* history: the nonces that were issued
    uses,        \* history: which request passed requireWalletSignature with which nonce
    perm,        \* WalletOperatorPermission, the owner's rows
    active,      \* the activeCache; "late" as in the request that set it
    order,       \* its keys in the order of their insertion
    list,        \* the ownerListCache
    req,         \* the requests; "late" is history: the row was written after the read
    faults,
    last         \* history: when each operator last had all of some grants

challengeVars == <<challenge, issued, uses>>
cacheVars == <<active, order, list>>
vars == <<now, store, challengeVars, perm, cacheVars, req, faults, last>>

NoChallenge == [by |-> Owner, route |-> WorkerHealthRoute, until |-> -1]
NoEntry == [row |-> NoRow, until |-> -1, late |-> FALSE]
NoList == [rows |-> [o \in Operator |-> NoRow], until |-> -1]

\* Where a request is.  The last two end it: "refused" stands for 401, 403 and
\* for a process that ended under it.
ReqPlace == {"idle", "consume", "delete", "authorize", "read", "set", "listRead",
             "listSet", "write", "invalidate", "done", "refused"}

Ended == {"done", "refused"}

NoRequest == [at |-> "idle", ask |-> CHOOSE a \in Ask : TRUE,
              needs |-> {}, got |-> NoRow, gotList |-> NoList.rows, since |-> 0,
              late |-> FALSE]

Has(row, needs) == row.active /\ needs \subseteq row.grants

Init ==
    /\ now = 0
    /\ store \in Stores
    /\ challenge = [n \in Nonce |-> NoChallenge]
    /\ issued = {}
    /\ uses = {}
    /\ perm \in [Operator -> Saved]
    /\ active = [o \in Operator |-> NoEntry]
    /\ order = <<>>
    /\ list = NoList
    /\ req = [r \in Request |-> NoRequest]
    /\ faults = 0
    /\ last = [o \in Operator |-> [g \in NeedSet |-> IF Has(perm[o], g) THEN 0 ELSE -1]]


\* A request that ended has nothing left but its place; what a SELECT returned is
\* held until the cache has it, no longer.
AtPlace(q, place) ==
    IF place \in Ended THEN [NoRequest EXCEPT !.at = place]
    ELSE [NoRequest EXCEPT !.at = place, !.ask = q.ask, !.needs = q.needs]
Goto(r, place) == req' = [req EXCEPT ![r] = AtPlace(@, place)]

\* The rows the table has from now on.  (History only.)
Remember(rows, time) ==
    last' = [o \in Operator |-> [g \in NeedSet |-> IF Has(rows[o], g) THEN time ELSE last[o][g]]]

-----------------------------------------------------------------------------
(***************************************************************************)
(* GET /auth/challenge and requireWalletSignature.                         *)
(***************************************************************************)
\* The memory store drops what has expired whenever it is called, Redis by itself.
Swept == [n \in Nonce |-> IF challenge[n].until < now THEN NoChallenge ELSE challenge[n]]

IssueChallenge(a) ==
    /\ a.nonce \notin issued
    /\ challenge' = [Swept EXCEPT ![a.nonce] = [by |-> a.by, route |-> a.route, until |-> now + ChallengeTtl]]
    /\ issued' = issued \cup {a.nonce}
    /\ UNCHANGED <<now, store, uses, perm, cacheVars, req, faults, last>>

\* isValid, and the first half of consume.
Valid(a) ==
    /\ challenge[a.nonce].by = a.by
    /\ challenge[a.nonce].route = a.route
    /\ now <= challenge[a.nonce].until

\* The headers are parsed, the challenge is looked up and the signature verified:
\* what these two awaits find is all decided again by consume.
Begin(r, a) ==
    /\ req[r].at = "idle"
    /\ \E signed \in BOOLEAN :
        req' = [req EXCEPT ![r] =
                    AtPlace([@ EXCEPT !.ask = a, !.needs = a.route.needs],
                            IF Valid(a) /\ signed THEN "consume" ELSE "refused")]
    /\ challenge' = Swept
    /\ UNCHANGED <<now, store, issued, uses, perm, cacheVars, faults, last>>

\* Where a signed request goes: assertBodyWalletMatchesAuth and its like for the
\* owner's routes, authorizeOwnerOrOperatorAction for the others.
Admit(r) ==
    LET a == req[r].ask
    IN  IF a.route.who = "owner" /\ a.by # Owner THEN "refused"
        ELSE IF a.route.who = "operator" /\ a.by # Owner THEN "authorize"
        ELSE IF a.route.does = "upsert" THEN "write"
        ELSE IF a.route.does = "list" THEN "listRead"
        ELSE "done"

\* The nonce is gone and the request passes.
Pass(r) ==
    /\ challenge' = [Swept EXCEPT ![req[r].ask.nonce] = NoChallenge]
    /\ uses' = uses \cup {<<r, req[r].ask.nonce>>}
    /\ Goto(r, Admit(r))

Refuse(r) ==
    /\ challenge' = Swept
    /\ Goto(r, "refused")
    /\ UNCHANGED uses

\* Mutant: a challenge that is already gone is no reason to refuse.
ConsumeAnyway(r) ==
    /\ req[r].at = "consume"
    /\ Pass(r)
    /\ UNCHANGED <<now, store, issued, perm, cacheVars, faults, last>>

\* consumeChallenge: one step in the memory store, a GET in Redis.
Consume(r) ==
    /\ req[r].at = "consume"
    /\ \/ Valid(req[r].ask) /\ store = "memory" /\ Pass(r)
       \/ Valid(req[r].ask) /\ store = "redis" /\ Goto(r, "delete") /\ UNCHANGED <<challenge, uses>>
       \/ ~Valid(req[r].ask) /\ Refuse(r)
    /\ UNCHANGED <<now, store, issued, perm, cacheVars, faults, last>>

\* The DEL that follows it in Redis; how many keys it deleted is not looked at.
DeleteChallenge(r) ==
    /\ req[r].at = "delete"
    /\ Pass(r)
    /\ UNCHANGED <<now, store, issued, perm, cacheVars, faults, last>>

-----------------------------------------------------------------------------
(***************************************************************************)
(* authorizeOwnerOrOperatorAction for an operator.                         *)
(***************************************************************************)
Who(r) == req[r].ask.by

\* The route goes on with the row it got.  The settings route may ask a second
\* time, for canPause.
Decide(r, row) ==
    LET a == req[r].ask
    IN  \/ ~Has(row, req[r].needs) /\ Goto(r, "refused")
        \/ Has(row, req[r].needs) /\ Goto(r, IF a.route.does = "list" THEN "listRead" ELSE "done")
        \/ /\ Has(row, req[r].needs)
           /\ a.route.does = "again"
           /\ req[r].needs = {"strategy"}
           /\ req' = [req EXCEPT ![r] = AtPlace([@ EXCEPT !.needs = {"pause"}], "authorize")]

\* The keys after the one at k is deleted.
Closed(keys, k) == [i \in 1 .. Len(keys) - 1 |-> keys[IF i < k THEN i ELSE i + 1]]

\* The keys after o is deleted; a map holds a key once.
Dropped(keys, o) ==
    IF \E k \in 1 .. Len(keys) : keys[k] = o
    THEN Closed(keys, CHOOSE k \in 1 .. Len(keys) : keys[k] = o)
    ELSE keys

\* Mutant: an entry that is there counts, however old it is.
HitAnyAge(r) ==
    /\ req[r].at = "authorize"
    /\ active[Who(r)].until # -1
    /\ Decide(r, active[Who(r)].row)
    /\ UNCHANGED <<now, store, challengeVars, perm, cacheVars, faults, last>>

\* getActive finds an entry that has not expired.
Hit(r) ==
    /\ req[r].at = "authorize"
    /\ now < active[Who(r)].until
    /\ Decide(r, active[Who(r)].row)
    /\ UNCHANGED <<now, store, challengeVars, perm, cacheVars, faults, last>>

\* It finds none, or one that it deletes.
Miss(r) ==
    /\ req[r].at = "authorize"
    /\ active[Who(r)].until <= now
    /\ active' = [active EXCEPT ![Who(r)] = NoEntry]
    /\ order' = Dropped(order, Who(r))
    /\ Goto(r, "read")
    /\ UNCHANGED <<now, store, challengeVars, perm, list, faults, last>>

\* A row as the fallback statement returns it.
Older(row) == [row EXCEPT !.grants = @ \cap OldGrant]

\* The SELECT, which finds active rows only.  When it fails, the statement for the
\* older schema follows, and when that fails too there is no permission.
ReadRow(r) ==
    /\ req[r].at = "read"
    /\ \/ /\ req' = [req EXCEPT ![r].at = "set", ![r].since = now, ![r].late = FALSE, ![r].got = perm[Who(r)]]
          /\ UNCHANGED faults
       \/ /\ faults < MaxFaults
          /\ \E row \in {Older(perm[Who(r)]), NoRow} :
                req' = [req EXCEPT ![r].at = "set", ![r].since = now, ![r].late = FALSE, ![r].got = row]
          /\ faults' = faults + 1
    /\ UNCHANGED <<now, store, challengeVars, perm, cacheVars, last>>

Keys(o) == IF \E i \in 1 .. Len(order) : order[i] = o THEN order ELSE Append(order, o)

\* Mutant: nothing is evicted.
SetActiveUnbounded(r) ==
    LET o == Who(r)
    IN  /\ req[r].at = "set"
        /\ order' = Keys(o)
        /\ active' = [active EXCEPT ![o] = [row |-> req[r].got, until |-> now + CacheTtl, late |-> req[r].late]]
        /\ Decide(r, req[r].got)
        /\ UNCHANGED <<now, store, challengeVars, perm, list, faults, last>>

\* setActive: a key that is there keeps its place, and evictIfNeeded drops the first.
SetActive(r) ==
    LET o == Who(r)
        entry == [row |-> req[r].got, until |-> now + CacheTtl, late |-> req[r].late]
        full == Len(Keys(o)) > MaxEntries
    IN  /\ req[r].at = "set"
        /\ order' = IF full THEN Tail(Keys(o)) ELSE Keys(o)
        /\ active' = [q \in Operator |-> IF full /\ q = Head(Keys(o)) THEN NoEntry
                                         ELSE IF q = o THEN entry ELSE active[q]]
        /\ Decide(r, req[r].got)
        /\ UNCHANGED <<now, store, challengeVars, perm, list, faults, last>>

-----------------------------------------------------------------------------
(***************************************************************************)
(* GET and POST /automation/operators.                                     *)
(***************************************************************************)
\* listOperatorPermissions, from the cache or from the table.
ReadList(r) ==
    /\ req[r].at = "listRead"
    /\ IF now < list.until
       THEN Goto(r, "done") /\ UNCHANGED <<list, faults>>
       ELSE /\ list' = NoList
            /\ \/ /\ req' = [req EXCEPT ![r].at = "listSet", ![r].since = now, ![r].gotList = perm]
                  /\ UNCHANGED faults
               \/ /\ faults < MaxFaults
                  /\ \E rows \in {[o \in Operator |-> Older(perm[o])], NoList.rows} :
                        req' = [req EXCEPT ![r].at = "listSet", ![r].since = now, ![r].gotList = rows]
                  /\ faults' = faults + 1
    /\ UNCHANGED <<now, store, challengeVars, perm, active, order, last>>

SetList(r) ==
    /\ req[r].at = "listSet"
    /\ list' = [rows |-> req[r].gotList, until |-> now + CacheTtl]
    /\ Goto(r, "done")
    /\ UNCHANGED <<now, store, challengeVars, perm, active, order, faults, last>>

\* The upsert.  Its fallback leaves the newer columns of the row as they are; when
\* that fails too, nothing catches the exception and the process ends: a Restart.
WriteRow(r) ==
    LET o == req[r].ask.about
        new == req[r].ask.row
        older == [new EXCEPT !.grants = (@ \cap OldGrant) \cup (perm[o].grants \ OldGrant)]
        written == [q \in Request |-> IF q = r THEN AtPlace(req[q], "invalidate")
                                      ELSE [req[q] EXCEPT !.late = @ \/ (req[q].at = "set" /\ Who(q) = o)]]
    IN  /\ req[r].at = "write"
        /\ \/ perm' = [perm EXCEPT ![o] = new] /\ UNCHANGED faults
           \/ /\ faults < MaxFaults
              /\ perm' = [perm EXCEPT ![o] = older]
              /\ faults' = faults + 1
        /\ req' = written
        /\ Remember(perm', now)
        /\ UNCHANGED <<now, store, challengeVars, cacheVars>>

\* Mutant: only the list is invalidated.
InvalidateList(r) ==
    /\ req[r].at = "invalidate"
    /\ list' = NoList
    /\ Goto(r, "done")
    /\ UNCHANGED <<now, store, challengeVars, perm, active, order, faults, last>>

\* invalidate, and the answer 201.
Invalidate(r) ==
    LET o == req[r].ask.about
    IN  /\ req[r].at = "invalidate"
        /\ list' = NoList
        /\ active' = [active EXCEPT ![o] = NoEntry]
        /\ order' = Dropped(order, o)
        /\ Goto(r, "done")
        /\ UNCHANGED <<now, store, challengeVars, perm, faults, last>>

-----------------------------------------------------------------------------
\* Time goes on, but no answer of the database takes longer than ReadDelay.
Tick ==
    /\ now < MaxTime
    /\ \A r \in Request : req[r].at \in {"set", "listSet"} => now < req[r].since + ReadDelay
    /\ now' = now + 1
    /\ Remember(perm, now + 1)
    /\ UNCHANGED <<store, challengeVars, perm, cacheVars, req, faults>>

\* The process restarts: caches and requests are gone, and the memory store with them.
Restart ==
    /\ faults < MaxFaults
    /\ faults' = faults + 1
    /\ challenge' = IF store = "memory" THEN [n \in Nonce |-> NoChallenge] ELSE challenge
    /\ active' = [o \in Operator |-> NoEntry]
    /\ order' = <<>>
    /\ list' = NoList
    /\ req' = [r \in Request |-> IF req[r].at \in Ended \cup {"idle"} THEN req[r] ELSE AtPlace(req[r], "refused")]
    /\ UNCHANGED <<now, store, issued, uses, perm, last>>

RequestStep(r) ==
    \/ \E a \in Ask : Begin(r, a)
    \/ Consume(r)
    \/ DeleteChallenge(r)
    \/ Hit(r)
    \/ Miss(r)
    \/ ReadRow(r)
    \/ SetActive(r)
    \/ ReadList(r)
    \/ SetList(r)
    \/ WriteRow(r)
    \/ Invalidate(r)

Next ==
    \/ \E a \in Ask : IssueChallenge(a)
    \/ \E r \in Request : RequestStep(r)
    \/ Tick
    \/ Restart

Spec == Init /\ [][Next]_vars

-----------------------------------------------------------------------------
Entry == [row : Row, until : Nat \cup {-1}, late : BOOLEAN]

ChallengesOK ==
    /\ challenge \in [Nonce -> [by : Wallet, route : Route, until : Nat \cup {-1}]]
    /\ issued \subseteq Nonce
    /\ uses \subseteq Request \X Nonce
RequestsOK ==
    req \in [Request -> [at : ReqPlace, ask : Ask, needs : NeedSet,
                         got : Row, gotList : [Operator -> Row], since : Time, late : BOOLEAN]]
\* The cache's keys are the operators that have an entry, each once.
CachesOK ==
    /\ active \in [Operator -> Entry]
    /\ order \in Seq(Operator)
    /\ Len(order) <= MaxEntries
    /\ \A i, j \in 1 .. Len(order) : order[i] = order[j] => i = j
    /\ \A o \in Operator : active[o].until # -1 <=> \E i \in 1 .. Len(order) : order[i] = o
    /\ list \in [rows : [Operator -> Row], until : Nat \cup {-1}]
TypeOK ==
    /\ now \in Time
    /\ store \in Stores
    /\ ChallengesOK
    /\ perm \in [Operator -> Row]
    /\ CachesOK
    /\ RequestsOK
    /\ faults \in 0 .. MaxFaults
    /\ last \in [Operator -> [NeedSet -> Time \cup {-1}]]

\* What the cache says of an operator is what the table says, or what a failing
\* SELECT made of it: unless its SELECT overlapped an upsert, or one is about to
\* invalidate it.
CacheFollowsTable ==
    \A o \in Operator :
        \/ active[o].until = -1
        \/ active[o].late
        \/ active[o].row \in {perm[o], Older(perm[o]), NoRow}
        \/ \E r \in Request : req[r].at = "invalidate" /\ req[r].ask.about = o

claims == {<<r, req[r].ask.nonce>> : r \in {q \in Request : req[q].at = "delete"}}
Ledger == INSTANCE ChallengeLedger

\* Either store keeps the promise of ChallengeLedger.
RefinesLedger == Ledger!Spec

\* An operator is let in only if the table gave it what the
\* route needs at most CacheTtl + ReadDelay ago, through stale reads that land in
\* the cache after an invalidation, evictions and restarts.
DecisionIsRecent ==
    [][\A r \in Request :
        req[r].at \in {"authorize", "set"} /\ req'[r].at # req[r].at
                /\ req'[r].at \in {"done", "listRead"}
            => /\ last[Who(r)][req[r].needs] # -1
               /\ now <= last[Who(r)][req[r].needs] + CacheTtl + ReadDelay]_vars
=============================================================================
