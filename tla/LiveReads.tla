------------------------------ MODULE LiveReads ------------------------------
(***************************************************************************)
(* The live state of pools (services/positions-live.ts) and its readers:   *)
(* the snapshot of a sync (services/snapshots/save-onchain-snapshot.ts),   *)
(* the routes that show positions, and GET /positions/:wallet/:positionId/ *)
(* strategy with its cache of recommendations (routes/positions.ts).       *)
(*                                                                         *)
(* enrichPositionsWithLiveState takes the time once, when it begins.  For  *)
(* each pool it asks the cache of the process, or of Redis, with that time *)
(* and reads the pool when there is no live entry; what it has read it     *)
(* stores with an expiry counted from that time.  A pool that cannot be    *)
(* read has a fallback, which is never stored.                             *)
(*                                                                         *)
(* What is read from a pool is abstracted to the time of the read.         *)
(***************************************************************************)
EXTENDS Integers

CONSTANTS
    Position,       \* saved positions of a wallet
    Pool,           \* pools
    PoolOf,         \* the pool of each position
    Saver,          \* calls of saveForPositions
    Viewer,         \* requests to the routes of positions.ts
    Evaluator,      \* calls of evaluateWallet (StrategyWorker)
    SnapshotTtl,    \* DEFAULT_SNAPSHOT_TTL_MS
    StrategyTtl,    \* how long a recommendation is cached
    MaxTime         \* bound: the clock stops here

Caller == Saver \cup Viewer \cup Evaluator

ASSUME LiveAssumption ==
    /\ PoolOf \in [Position -> Pool]
    /\ Saver \cap Viewer = {} /\ (Saver \cup Viewer) \cap Evaluator = {}
    /\ SnapshotTtl \in Nat \ {0} /\ StrategyTtl \in Nat /\ MaxTime \in Nat

Time == 0..MaxTime
Fallback == -1

\* A pool within a call: to be looked up, to be read, read and waiting for the
\* decimals of its tokens, done.
Read == [at : {"lookup", "read", "decimals", "done"}, time : Time \cup {Fallback}]
Entry == [time : Time \cup {Fallback}, expires : Int]
NoEntry == [time |-> Fallback, expires |-> -1]

\* A call: whether it is one of the strategy route, when that has asked its own cache,
\* when enrich began, the positions.
Call == [at : {"idle", "load", "enrich"}, caches : BOOLEAN, asked : Time, began : Time,
         want : SUBSET Position]

VARIABLES
    now,        \* the clock
    pools,      \* crossRequestPoolSnapshotCache; NoEntry: nothing held
    advice,     \* strategyRecommendationCache, by position
    call,       \* the calls
    live,       \* the pools of each call
    batch       \* the newest batch in PositionSnapshot: the positions it was to
                \* hold, and those it holds

liveVars == <<now, pools, advice, call, live, batch>>

-----------------------------------------------------------------------------
NoCall == [at |-> "idle", caches |-> FALSE, asked |-> 0, began |-> 0, want |-> {}]
NoRead == [at |-> "lookup", time |-> Fallback]
NoBatch == [asked |-> {}, saved |-> {}]

LiveInit ==
    /\ now = 0
    /\ pools = [p \in Pool |-> NoEntry]
    /\ advice = [s \in Position |-> NoEntry]
    /\ call = [c \in Caller |-> NoCall]
    /\ live = [c \in Caller |-> [p \in Pool |-> NoRead]]
    /\ batch = NoBatch

PoolsOf(want) == {PoolOf[s] : s \in want}
TimeOf(c, s) == live[c][PoolOf[s]].time
IsFallback(c, s) == TimeOf(c, s) = Fallback
Leave(c) ==
    /\ call' = [call EXCEPT ![c] = NoCall]
    /\ live' = [live EXCEPT ![c] = [p \in Pool |-> NoRead]]

-----------------------------------------------------------------------------
(* enrichPositionsWithLiveState *)

BeginEnrich(c) ==
    /\ call[c].at = "load"
    /\ call' = [call EXCEPT ![c].at = "enrich", ![c].began = now]
    /\ UNCHANGED <<now, pools, advice, live, batch>>

\* Each of the up to eight workers takes the next pool: cache.get(key, nowMs).
Lookup(c, p) ==
    LET held == pools[p].expires > call[c].began IN
    /\ call[c].at = "enrich"
    /\ p \in PoolsOf(call[c].want)
    /\ live[c][p].at = "lookup"
    /\ live' = [live EXCEPT ![c][p] = IF held THEN [at |-> "done", time |-> pools[p].time]
                                      ELSE [at |-> "read", time |-> Fallback]]
    /\ pools' = IF held THEN pools ELSE [pools EXCEPT ![p] = NoEntry]
    /\ UNCHANGED <<now, advice, call, batch>>

\* readPoolSnapshotLive: slot0, the tokens and the liquidity in one multicall.
ReadPool(c, p) ==
    /\ call[c].at = "enrich"
    /\ live[c][p].at = "read"
    /\ \E answered \in BOOLEAN :
         live' = [live EXCEPT ![c][p] = IF answered THEN [at |-> "decimals", time |-> now]
                                        ELSE [at |-> "done", time |-> Fallback]]
    /\ UNCHANGED <<now, pools, advice, call, batch>>

\* Mutant: the entry lives from the moment it is stored.
ExpiryFromNow(c) == now + SnapshotTtl

\* nowMs + DEFAULT_SNAPSHOT_TTL_MS
Expiry(c) == call[c].began + SnapshotTtl

\* readDecimalsWithCaches, the price, and cache.set of what has no fallback.
StorePool(c, p) ==
    /\ call[c].at = "enrich"
    /\ live[c][p].at = "decimals"
    /\ \/ /\ live' = [live EXCEPT ![c][p].at = "done"]
          /\ pools' = [pools EXCEPT ![p] = [time |-> live[c][p].time, expires |-> Expiry(c)]]
       \/ /\ live' = [live EXCEPT ![c][p] = [at |-> "done", time |-> Fallback]]
          /\ UNCHANGED pools
    /\ UNCHANGED <<now, advice, call, batch>>

\* mapWithConcurrency has returned: every position has a live state.
Enriched(c) ==
    /\ call[c].at = "enrich"
    /\ \A p \in PoolsOf(call[c].want) : live[c][p].at = "done"

\* A query, Redis or the engine throws: the call ends without an answer.
Fail(c) ==
    /\ call[c].at \in {"load", "enrich"}
    /\ Leave(c)
    /\ UNCHANGED <<now, pools, advice, batch>>

Enrich(c) ==
    \/ BeginEnrich(c)
    \/ \E p \in Pool : Lookup(c, p) \/ ReadPool(c, p) \/ StorePool(c, p)

-----------------------------------------------------------------------------
(* saveForPositions *)

BeginSave(c) ==
    /\ c \in Saver
    /\ call[c].at = "idle"
    /\ \E want \in SUBSET Position \ {{}} :
         call' = [call EXCEPT ![c] = [NoCall EXCEPT !.at = "enrich", !.began = now,
                                                    !.want = want]]
    /\ UNCHANGED <<now, pools, advice, live, batch>>

\* Mutant: what could be read is saved without the rest.
NeverSkipped(c) == {}

\* skippedFallback: the positions whose pool could not be read.
Skipped(c) == {s \in call[c].want : IsFallback(c, s)}

\* toSave
ToSave(c) == {s \in call[c].want : ~IsFallback(c, s)}

\* A fallback ends the save before the write.  One transaction inserts the rows of toSave,
\* or throws and inserts none.
EndSave(c) ==
    /\ c \in Saver
    /\ Enriched(c)
    /\ \/ UNCHANGED batch
       \/ /\ Skipped(c) = {}
          /\ batch' = [asked |-> call[c].want, saved |-> ToSave(c)]
    /\ Leave(c)
    /\ UNCHANGED <<now, pools, advice>>

-----------------------------------------------------------------------------
(* The routes that read live states and keep nothing but the cache of the pools *)

BeginRead(c, want) ==
    /\ c \in Viewer
    /\ call[c].at = "idle"
    /\ call' = [call EXCEPT ![c] = [NoCall EXCEPT !.at = "load", !.want = want]]
    /\ UNCHANGED <<now, pools, advice, live, batch>>

\* GET /positions/:wallet
ListRoute(c) == BeginRead(c, Position)

\* GET /positions/:wallet/:positionId
DetailRoute(c) == \E s \in Position : BeginRead(c, {s})

\* GET /dashboard/:wallet
DashboardRoute(c) == BeginRead(c, Position)

\* GET /portfolio/:wallet: its recommendations are not cached, one that throws is left out.
PortfolioRoute(c) == BeginRead(c, Position)

\* POST /positions/:wallet/:positionId/rebalance-preview: a recommendation, not cached.
PreviewRoute(c) == \E s \in Position : BeginRead(c, {s})

ReadRoute(c) ==
    ListRoute(c) \/ DetailRoute(c) \/ DashboardRoute(c) \/ PortfolioRoute(c) \/ PreviewRoute(c)

\* The rows are analyzed and answered.
EndRead(c) ==
    /\ c \in Viewer
    /\ Enriched(c)
    /\ ~call[c].caches
    /\ Leave(c)
    /\ UNCHANGED <<now, pools, advice, batch>>

-----------------------------------------------------------------------------
(* The strategy route *)

\* A miss: a hit is answered at once.
BeginView(c) ==
    /\ c \in Viewer
    /\ call[c].at = "idle"
    /\ \E s \in Position :
         /\ advice[s].expires <= now
         /\ call' = [call EXCEPT ![c] = [NoCall EXCEPT !.at = "load", !.caches = TRUE,
                                                       !.asked = now, !.want = {s}]]
         /\ advice' = [advice EXCEPT ![s] = NoEntry]
    /\ UNCHANGED <<now, pools, live, batch>>

\* strategyRecommendationCache.set(cacheKey, recommendation, nowMs + 15_000), with
\* the time at which the route asked the cache; a fallback is cached like any other.
EndView(c) ==
    /\ c \in Viewer
    /\ Enriched(c)
    /\ call[c].caches
    /\ \E s \in call[c].want :
         advice' = [advice EXCEPT ![s] = [time |-> TimeOf(c, s),
                                          expires |-> call[c].asked + StrategyTtl]]
    /\ Leave(c)
    /\ UNCHANGED <<now, pools, batch>>

-----------------------------------------------------------------------------
Tick ==
    /\ now < MaxTime
    /\ now' = now + 1
    /\ UNCHANGED <<pools, advice, call, live, batch>>

\* The readers of this module; the evaluations take their steps in StrategyWorker.
LiveNext ==
    \/ \E c \in Saver \cup Viewer : Enrich(c) \/ Fail(c)
    \/ \E c \in Saver : BeginSave(c) \/ EndSave(c)
    \/ \E c \in Viewer : ReadRoute(c) \/ EndRead(c) \/ BeginView(c) \/ EndView(c)
    \/ Tick

-----------------------------------------------------------------------------
LiveTypeOK ==
    /\ now \in Time
    /\ pools \in [Pool -> Entry]
    /\ advice \in [Position -> Entry]
    /\ call \in [Caller -> Call]
    /\ live \in [Caller -> [Pool -> Read]]
    /\ batch \in [asked : SUBSET Position, saved : SUBSET Position]

\* positions-live.ts: whatever the reads took, a call uses a pool as it was less than
\* the time to live before the call began.
PoolsAreRecent ==
    \A c \in Caller : \A p \in Pool :
        live[c][p].time # Fallback => call[c].began < live[c][p].time + SnapshotTtl

\* routes/positions.ts: the recommendation that is answered from the cache rests on
\* a pool as it was less than both times to live ago.
AdviceIsRecent ==
    \A s \in Position :
        advice[s].expires > now /\ advice[s].time # Fallback =>
            now < advice[s].time + SnapshotTtl + StrategyTtl

\* The ages of two caches in a row add up, and nothing else is added.
AnswersAreRecent == PoolsAreRecent /\ AdviceIsRecent

\* save-onchain-snapshot.ts, line 71: a batch holds every position it was to hold, or it is
\* not there.  One pool that cannot be read keeps out the positions of all the others, those
\* whose state came from the cache included.
BatchIsWhole == batch.saved = batch.asked
=============================================================================
