----------------------------- MODULE WalletSync -----------------------------
(***************************************************************************)
(* The synchronisation of one wallet on one chain                          *)
(* (services/indexer/wallet-position-sync.ts), its callers and its cached  *)
(* overview.                                                               *)
(*                                                                         *)
(* A sync lists the wallet's Position rows, reads the NFTs the wallet owns *)
(* from the position manager, upserts one OnchainPositionState for each    *)
(* NFT, marks the row of each NFT that has one, and has a snapshot of these *)
(* saved (LiveReads).  The evaluation of a tick and the daily distribution *)
(* sync under withWalletChainLock, a chain of promises; POST /sync/:wallet *)
(* syncs without the lock and, at its end, drops the cached overview that  *)
(* GET /sync/:wallet/overview answers from.                                *)
(*                                                                         *)
(* What is read from the chain is abstracted to the time of the read.      *)
(***************************************************************************)
EXTENDS Integers

CONSTANTS
    Token,       \* NFT ids, the positionId of every table
    Refresher,   \* the callers of refreshPositionSnapshots
    Poster,      \* requests to POST /sync/:wallet
    Viewer,      \* requests to GET /sync/:wallet/overview
    Nobody,      \* no caller, no token
    Attempts,    \* SNAPSHOT_MAX_RETRIES
    MaxTime      \* bound: the clock stops here

ASSUME SyncAssumption ==
    /\ Refresher \cap Poster = {}
    /\ Nobody \notin Token \cup Refresher \cup Poster
    /\ Attempts \in Nat \ {0}
    /\ MaxTime \in Nat

Runner == Refresher \cup Poster
Time == 0..MaxTime

\* Position.syncStatus; "absent" is a token without a row.
Status == {"absent", "NEVER", "SUCCESS", "PARTIAL", "ERROR"}

Place == {"idle", "waiting", "list", "read", "upsert", "mark", "save", "partial",
          "fail", "end"}
Inside == Place \ {"idle", "waiting"}

\* A call: the caller whose promise it waits for, the rows it lists, the tokens
\* it has still to handle, those read with an error, the token it marks.
Run == [at : Place, ahead : Refresher \cup {Nobody}, rows : SUBSET Token,
        todo : SUBSET Token, faulty : SUBSET Token, token : Token \cup {Nobody},
        read : Time, attempt : 1..Attempts]

VARIABLES
    now,        \* the clock
    row,        \* Position.syncStatus of each token
    indexed,    \* OnchainPositionState: when the state was read; -1: no row
    tail,       \* walletChainLockMap: the caller whose promise is the last
    run,        \* the calls
    overview,   \* the cached overview, whether it is held; with (history) "missed":
                \* a POST sync has ended since its load began, "crossed": during its load
    load,       \* the overview requests: loading, and "crossed" (history): a POST
                \* sync ended since the load began
    crossed     \* history: the calls whose sync overlapped a POST's

vars == <<now, row, indexed, tail, run, overview, load, crossed>>

-----------------------------------------------------------------------------
NoRun == [at |-> "idle", ahead |-> Nobody, rows |-> {}, todo |-> {}, faulty |-> {},
          token |-> Nobody, read |-> 0, attempt |-> 1]
NoEntry == [held |-> FALSE, missed |-> FALSE, crossed |-> FALSE]
NoLoad == [busy |-> FALSE, crossed |-> FALSE]

Init ==
    /\ now = 0
    /\ row \in [Token -> {"absent", "NEVER"}]
    /\ indexed = [t \in Token |-> -1]
    /\ tail = Nobody
    /\ run = [c \in Runner |-> NoRun]
    /\ overview = NoEntry
    /\ load = [v \in Viewer |-> NoLoad]
    /\ crossed = {}

Set(c, r) == run' = [run EXCEPT ![c] = r]
Syncing(c) == run[c].at \in Inside

-----------------------------------------------------------------------------
(* withWalletChainLock *)

\* previous = map.get(key); map.set(key, current).
Ask(c) ==
    /\ c \in Refresher
    /\ run[c].at = "idle"
    /\ Set(c, [NoRun EXCEPT !.at = "waiting", !.ahead = tail])
    /\ tail' = c
    /\ UNCHANGED <<now, row, indexed, overview, load, crossed>>

\* A sync that overlaps a POST's, and the POST's that it overlaps.
Crossing(c) ==
    LET others == {d \in Runner \ {c} : Syncing(d)}
        mixed == IF c \in Poster THEN others ELSE others \cap Poster
    IN  IF mixed = {} THEN {} ELSE mixed \cup {c}

\* .then(task), or the route's call of syncWalletPositions.
Begin(c) ==
    /\ \/ run[c].at = "waiting" /\ run[c].ahead = Nobody
       \/ run[c].at = "idle" /\ c \in Poster
    /\ Set(c, [NoRun EXCEPT !.at = "list"])
    /\ crossed' = crossed \cup Crossing(c)
    /\ UNCHANGED <<now, row, indexed, tail, overview, load>>

\* Mutant: the key is deleted whoever has set it last.
ReleaseAlways(c) == tail' = IF c \in Refresher THEN Nobody ELSE tail

\* .finally: the key is deleted only if no other caller has set it since.
Release(c) == tail' = IF tail = c THEN Nobody ELSE tail

\* Mutant: without the catch, a refresh fails with the one ahead of it.
SettledOrThrown(c, threw) ==
    [d \in Runner |->
        IF d = c THEN NoRun
        ELSE IF run[d].at = "waiting" /\ run[d].ahead = c
             THEN IF threw THEN NoRun ELSE [run[d] EXCEPT !.ahead = Nobody]
             ELSE run[d]]

\* A waiting caller goes on when its predecessor settles, even if it threw.
Settled(c, threw) ==
    [d \in Runner |->
        IF d = c THEN NoRun
        ELSE IF run[d].at = "waiting" /\ run[d].ahead = c
             THEN [run[d] EXCEPT !.ahead = Nobody]
             ELSE run[d]]

Leave(c, threw) ==
    /\ run' = Settled(c, threw)
    /\ Release(c)
    /\ crossed' = crossed \ {c}

-----------------------------------------------------------------------------
(* syncWalletPositions *)

\* listWalletPositions, markSyncAttempt (which writes a time stamp only).
ListRows(c) ==
    /\ run[c].at = "list"
    /\ Set(c, [run[c] EXCEPT !.at = "read", !.rows = {t \in Token : row[t] # "absent"}])
    /\ UNCHANGED <<now, row, indexed, tail, overview, load, crossed>>

\* readWalletPositions: the tokens read, some of them only after an error, or
\* nothing but errors.
ReadWallet(c) ==
    /\ run[c].at = "read"
    /\ \/ Set(c, [run[c] EXCEPT !.at = "fail"])
       \/ \E found \in SUBSET Token : \E faulty \in SUBSET found :
            Set(c, [run[c] EXCEPT !.at = "upsert", !.rows = @ \cap found,
                                  !.todo = found, !.faulty = faulty, !.read = now])
    /\ UNCHANGED <<now, row, indexed, tail, overview, load, crossed>>

\* Mutant: a token without a row is marked too.
AfterUpsertMark(r, t) == [r EXCEPT !.at = "mark", !.token = t]

\* upsertOnchainPosition; a token without a row needs no more.
AfterUpsert(r, t) ==
    IF t \in r.rows THEN [r EXCEPT !.at = "mark", !.token = t]
                    ELSE [r EXCEPT !.todo = @ \ {t}]

UpsertState(c) == \E t \in run[c].todo :
    /\ run[c].at = "upsert"
    /\ indexed' = [indexed EXCEPT ![t] = run[c].read]
    /\ Set(c, AfterUpsert(run[c], t))
    /\ UNCHANGED <<now, row, tail, overview, load, crossed>>

\* markPositionSynced
MarkSynced(c) ==
    LET t == run[c].token IN
    /\ run[c].at = "mark"
    /\ row' = [row EXCEPT ![t] = IF t \in run[c].faulty THEN "PARTIAL" ELSE "SUCCESS"]
    /\ Set(c, [run[c] EXCEPT !.at = "upsert", !.token = Nobody, !.todo = @ \ {t}])
    /\ UNCHANGED <<now, indexed, tail, overview, load, crossed>>

EndUpserts(c) ==
    /\ run[c].at = "upsert"
    /\ run[c].todo = {}
    /\ Set(c, [run[c] EXCEPT !.at = IF run[c].rows = {} THEN "end" ELSE "save",
                             !.faulty = {}, !.read = 0])
    /\ UNCHANGED <<now, row, indexed, tail, overview, load, crossed>>

\* saveForPositions: the batch is saved, refused for some positions' live states,
\* or thrown by the live reads or the transaction, and then tried again; the errors
\* of the last attempt name the positions it was refused for.
SaveSnapshots(c) ==
    /\ run[c].at = "save"
    /\ \/ Set(c, [run[c] EXCEPT !.at = "end"])
       \/ /\ run[c].attempt < Attempts
          /\ Set(c, [run[c] EXCEPT !.attempt = @ + 1])
       \/ /\ run[c].attempt = Attempts
          /\ \E fallback \in SUBSET run[c].rows :
                Set(c, [run[c] EXCEPT !.at = "partial", !.todo = fallback])
    /\ UNCHANGED <<now, row, indexed, tail, overview, load, crossed>>

\* markPositionSynced for each position the last attempt's errors name.
MarkPartial(c) ==
    /\ run[c].at = "partial"
    /\ \/ \E t \in run[c].todo :
            /\ row' = [row EXCEPT ![t] = "PARTIAL"]
            /\ Set(c, [run[c] EXCEPT !.todo = @ \ {t}])
       \/ /\ run[c].todo = {}
          /\ Set(c, [run[c] EXCEPT !.at = "end"])
          /\ UNCHANGED row
    /\ UNCHANGED <<now, indexed, tail, overview, load, crossed>>

\* computeOutcome is ERROR: markSyncError for every row listed.
MarkError(c) ==
    /\ run[c].at = "fail"
    /\ row' = [t \in Token |-> IF t \in run[c].rows THEN "ERROR" ELSE row[t]]
    /\ Set(c, [run[c] EXCEPT !.at = "end"])
    /\ UNCHANGED <<now, indexed, tail, overview, load, crossed>>

\* A query or a multicall throws: the sync ends where it is.
Throw(c) ==
    /\ run[c].at \in Inside \ {"end"}
    /\ Leave(c, TRUE)
    /\ UNCHANGED <<now, row, indexed, overview, load>>

\* Mutant: the entry stays.
InvalidateNothing(e) == e

\* syncOverviewCacheStore.invalidate at the end of the POST.
Invalidate(e) == NoEntry

End(c) ==
    /\ run[c].at = "end"
    /\ Leave(c, FALSE)
    /\ IF c \in Poster
       THEN /\ overview' = LET left == Invalidate(overview)
                           IN  [left EXCEPT !.missed = left.missed \/ left.held]
            /\ load' = [v \in Viewer |->
                          [load[v] EXCEPT !.crossed = load[v].busy]]
       ELSE UNCHANGED <<overview, load>>
    /\ UNCHANGED <<now, row, indexed>>

-----------------------------------------------------------------------------
(* getSyncOverviewCore *)

\* A hit is answered at once.  A miss, also of an entry that has expired or been
\* evicted, loads the statuses of the rows and the indexed states.
Look(v) ==
    /\ ~load[v].busy
    /\ load' = [load EXCEPT ![v].busy = TRUE]
    /\ overview' = NoEntry
    /\ UNCHANGED <<now, row, indexed, tail, run, crossed>>

\* loadSyncStatusRows, loadIndexedCompact and the set of the cache.
Load(v) ==
    /\ load[v].busy
    /\ load' = [load EXCEPT ![v] = NoLoad]
    /\ overview' = [held |-> TRUE, missed |-> load[v].crossed, crossed |-> load[v].crossed]
    /\ UNCHANGED <<now, row, indexed, tail, run, crossed>>

-----------------------------------------------------------------------------
(* POST /positions: the unique positionId decides, whatever findUnique saw. *)
CreatePosition(t) ==
    /\ row[t] = "absent"
    /\ row' = [row EXCEPT ![t] = "NEVER"]
    /\ UNCHANGED <<now, indexed, tail, run, overview, load, crossed>>

Tick ==
    /\ now < MaxTime
    /\ now' = now + 1
    /\ UNCHANGED <<row, indexed, tail, run, overview, load, crossed>>

-----------------------------------------------------------------------------
Step(c) ==
    \/ Begin(c) \/ ListRows(c) \/ ReadWallet(c) \/ UpsertState(c) \/ MarkSynced(c)
    \/ EndUpserts(c) \/ SaveSnapshots(c) \/ MarkPartial(c) \/ MarkError(c)
    \/ Throw(c) \/ End(c)

View(v) == Look(v) \/ Load(v)

Next ==
    \/ \E c \in Refresher : Ask(c)
    \/ \E c \in Runner : Step(c)
    \/ \E v \in Viewer : View(v)
    \/ \E t \in Token : CreatePosition(t)
    \/ Tick

Spec == Init /\ [][Next]_vars

\* The event loop runs what has begun.
FairSpec == Spec /\ \A c \in Refresher : WF_vars(Step(c))

-----------------------------------------------------------------------------
(* Type invariant.  Only a token with a row is marked, and a caller waits for  *)
(* one that has not settled.                                                  *)
TablesOK ==
    /\ now \in Time
    /\ row \in [Token -> Status]
    /\ indexed \in [Token -> Time \cup {-1}]
RunsOK ==
    /\ tail \in Refresher \cup {Nobody}
    /\ run \in [Runner -> Run]
    /\ crossed \subseteq Runner
    /\ \A c \in Runner : run[c].at = "mark" => run[c].token \in run[c].rows
    /\ \A c \in Runner : \A t \in run[c].rows : row[t] # "absent"
CacheOK ==
    /\ overview \in [held : BOOLEAN, missed : BOOLEAN, crossed : BOOLEAN]
    /\ load \in [Viewer -> [busy : BOOLEAN, crossed : BOOLEAN]]
TypeOK == TablesOK /\ RunsOK /\ CacheOK

\* withWalletChainLock: two refreshes never sync at the same time, so an indexed
\* state is overwritten with an older read only by a sync that overlapped a POST.
IndexedNeverGoesBack ==
    [][\A t \in Token : indexed'[t] < indexed[t] =>
         \E c \in crossed : run[c].at = "upsert" /\ run'[c] # run[c]]_vars

\* A cached overview that was loaded before the end of a POST sync was still being
\* loaded when that sync dropped the cache.
OverviewShowsSync == overview.missed => overview.crossed

\* withWalletChainLock: every refresh asked for is run, whatever becomes of the
\* refreshes ahead of it.
EveryRefreshRuns ==
    \A c \in Refresher : run[c].at = "waiting" ~> run[c].at = "list"
=============================================================================
