--------------------------- MODULE WalletSyncProofs ---------------------------
(***************************************************************************)
(* Proofs about WalletSync: the chain of promises lets one refresh sync at *)
(* a time, and so what has been indexed goes back only where the sync of a *)
(* POST overlaps another.                                                  *)
(***************************************************************************)
EXTENDS WalletSync, TLAPS

\* A refresh that syncs or is next to.
Head(c) == Syncing(c) \/ (run[c].at = "waiting" /\ run[c].ahead = Nobody)
Waits(c) == run[c].at = "waiting"

LockInv ==
    /\ \A c \in Poster : ~Waits(c)
    /\ \A c \in Refresher : Waits(c) /\ run[c].ahead # Nobody => run[run[c].ahead].at # "idle"
    /\ \A c, d \in Refresher :
         Waits(c) /\ Waits(d) /\ c # d /\ run[c].ahead = run[d].ahead => run[c].ahead = Nobody
    /\ \A c, d \in Refresher : Head(c) /\ Head(d) => c = d
    /\ tail # Nobody =>
         run[tail].at # "idle" /\ \A c \in Refresher : Waits(c) => run[c].ahead # tail
    /\ tail = Nobody => \A c \in Refresher : ~Head(c)

\* A sync that is not marked as crossed is the only one.
CrossInv == \A c, d \in Runner : c # d /\ Syncing(c) /\ Syncing(d) => c \in crossed

\* What a sync that is alone has read is not older than what is indexed.
ReadInv ==
    /\ \A t \in Token : indexed[t] <= now
    /\ \A c \in Runner : run[c].read <= now
    /\ \A c \in Runner : run[c].at \in {"upsert", "mark"} /\ c \notin crossed =>
         \A t \in Token : indexed[t] <= run[c].read

Inv == TypeOK /\ LockInv /\ CrossInv /\ ReadInv

-----------------------------------------------------------------------------
LEMMA Settings ==
    /\ Attempts \in Nat \ {0} /\ MaxTime \in Nat
    /\ Nobody \notin Token /\ Nobody \notin Refresher /\ Nobody \notin Runner
    /\ Time \subseteq Nat /\ 0 \in Time /\ Time \cup {-1} \subseteq Int
    /\ Runner = Refresher \cup Poster /\ Refresher \cap Poster = {}
  BY SyncAssumption DEF Time, Runner

LEMMA NoRunIsRun ==
    /\ NoRun \in Run /\ NoRun.at = "idle" /\ NoRun.rows = {} /\ NoRun.ahead = Nobody
    /\ NoRun.read = 0
  BY Settings DEF NoRun, Run, Place

\* A sync goes on: its call becomes r, and no other call changes.
Moves(c, r) ==
    /\ Syncing(c) /\ r \in Run /\ r.at \in Inside
    /\ r.at = "mark" => r.token \in r.rows
    /\ \A t \in r.rows : row[t] # "absent"
    /\ run' = [run EXCEPT ![c] = r]
    /\ tail' = tail /\ crossed' = crossed

LEMMA MovesKeeps ==
    ASSUME Inv, NEW c \in Runner, NEW r, Moves(c, r), \A t \in Token : row[t] # "absent" => row'[t] # "absent"
    PROVE  RunsOK' /\ LockInv' /\ CrossInv'
  <1>1. /\ run' \in [Runner -> Run] /\ run'[c] = r
        /\ \A d \in Runner : d # c => run'[d] = run[d]
        /\ r.at \notin {"idle", "waiting"} /\ run[c].at \notin {"idle", "waiting"}
        /\ tail' = tail /\ crossed' = crossed
    BY DEF Moves, Inv, TypeOK, RunsOK, Inside, Syncing
  <1>2. \A d \in Runner : /\ Syncing(d)' = Syncing(d) /\ Head(d)' = Head(d) /\ Waits(d)' = Waits(d)
                          /\ Waits(d) => run'[d].ahead = run[d].ahead
                          /\ (run'[d].at = "idle") = (run[d].at = "idle")
    BY <1>1 DEF Moves, Syncing, Head, Waits
  <1>3. RunsOK'
    <2>1. \A d \in Runner : \A t \in run[d].rows : row'[t] # "absent"
      BY DEF Inv, TypeOK, RunsOK, Run
    <2>2. \A t \in r.rows : row'[t] # "absent"
      BY DEF Moves, Run
    <2> QED
      BY <1>1, <2>1, <2>2 DEF Moves, Inv, TypeOK, RunsOK
  <1>4. LockInv'
    <2>1. \A d \in Refresher : Waits(d) => run[d].ahead = Nobody \/ run[d].ahead \in Runner
      BY Settings DEF Inv, TypeOK, RunsOK, Run
    <2>2. tail = Nobody \/ tail \in Runner
      BY Settings DEF Inv, TypeOK, RunsOK
    <2> QED
      BY <1>1, <1>2, <2>1, <2>2, Settings DEF Inv, LockInv
  <1>5. CrossInv'
    BY <1>1, <1>2 DEF Inv, CrossInv
  <1> QED
    BY <1>3, <1>4, <1>5

\* It goes on without a new read, and indexes nothing.
LEMMA MovesKeepsReads ==
    ASSUME Inv, NEW c \in Runner, NEW r, Moves(c, r), now' = now, indexed' = indexed,
           r.read <= now, r.at \in {"upsert", "mark"} => r.read = now \/
              (run[c].at \in {"upsert", "mark"} /\ r.read = run[c].read)
    PROVE  ReadInv'
  <1>1. /\ run'[c] = r
        /\ \A d \in Runner : d # c => run'[d] = run[d]
        /\ crossed' = crossed
    BY DEF Moves, Inv, TypeOK, RunsOK
  <1> QED
    BY <1>1 DEF Inv, ReadInv

-----------------------------------------------------------------------------
LEMMA ReadOfRun == ASSUME Inv, NEW c \in Runner
                   PROVE  /\ run[c] \in Run /\ run[c].read \in Nat /\ run[c].read <= now
                          /\ \A t \in run[c].rows : t \in Token /\ row[t] # "absent"
                          /\ now \in Nat /\ now \in Time
  BY Settings DEF Inv, TypeOK, TablesOK, RunsOK, Run, ReadInv

LEMMA ListRowsKeeps == ASSUME Inv, NEW c \in Runner, ListRows(c) PROVE Inv'
  <1> DEFINE r == [run[c] EXCEPT !.at = "read", !.rows = {t \in Token : row[t] # "absent"}]
  <1>1. r \in Run /\ r.at = "read" /\ r.rows = {t \in Token : row[t] # "absent"} /\ r.read = run[c].read
    BY ReadOfRun DEF Run, Place
  <1>2. Moves(c, r)
    BY <1>1 DEF ListRows, Set, Moves, Syncing, Inside, Place
  <1> HIDE DEF r
  <1>3. RunsOK' /\ LockInv' /\ CrossInv'
    BY <1>2, MovesKeeps DEF ListRows
  <1>4. ReadInv'
    BY <1>1, <1>2, ReadOfRun, MovesKeepsReads DEF ListRows
  <1> QED
    BY <1>3, <1>4 DEF ListRows, Inv, TypeOK, TablesOK, CacheOK

LEMMA ReadWalletKeeps == ASSUME Inv, NEW c \in Runner, ReadWallet(c) PROVE Inv'
  <1>1. PICK r : /\ Set(c, r)
                 /\ \/ r = [run[c] EXCEPT !.at = "fail"]
                    \/ \E found \in SUBSET Token : \E faulty \in SUBSET found :
                         r = [run[c] EXCEPT !.at = "upsert", !.rows = @ \cap found,
                                            !.todo = found, !.faulty = faulty, !.read = now]
    BY DEF ReadWallet
  <1>2. CASE r = [run[c] EXCEPT !.at = "fail"]
    <2>1. r \in Run /\ r.at = "fail" /\ r.rows = run[c].rows /\ r.read = run[c].read
      BY <1>2, ReadOfRun DEF Run, Place
    <2>2. Moves(c, r)
      BY <1>1, <2>1, ReadOfRun DEF ReadWallet, Set, Moves, Syncing, Inside, Place
    <2>3. RunsOK' /\ LockInv' /\ CrossInv'
      BY <2>2, MovesKeeps DEF ReadWallet
    <2>4. r.read <= now /\ now' = now /\ indexed' = indexed
      BY <2>1, ReadOfRun DEF ReadWallet
    <2>5. ReadInv'
      BY <2>1, <2>2, <2>4, MovesKeepsReads
    <2> QED
      BY <2>3, <2>5 DEF ReadWallet, Inv, TypeOK, TablesOK, CacheOK
  <1>3. ASSUME NEW found \in SUBSET Token, NEW faulty \in SUBSET found,
               r = [run[c] EXCEPT !.at = "upsert", !.rows = @ \cap found,
                                  !.todo = found, !.faulty = faulty, !.read = now]
        PROVE Inv'
    <2>1. r \in Run /\ r.at = "upsert" /\ r.rows \subseteq run[c].rows /\ r.read = now
      BY <1>3, ReadOfRun DEF Run, Place
    <2>2. Moves(c, r)
      BY <1>1, <2>1, ReadOfRun DEF ReadWallet, Set, Moves, Syncing, Inside, Place
    <2>3. RunsOK' /\ LockInv' /\ CrossInv'
      BY <2>2, MovesKeeps DEF ReadWallet
    <2>4. r.read <= now /\ now' = now /\ indexed' = indexed
      <3>1. now \in Nat /\ r.read = now
        BY <2>1, ReadOfRun
      <3>2. now' = now /\ indexed' = indexed
        BY DEF ReadWallet
      <3> QED
        BY <3>1, <3>2
    <2>5. ReadInv'
      BY <2>1, <2>2, <2>4, MovesKeepsReads
    <2> QED
      BY <2>3, <2>5 DEF ReadWallet, Inv, TypeOK, TablesOK, CacheOK
  <1> QED
    BY <1>1, <1>2, <1>3

\* Two syncs at a time are both crossed.
LEMMA AloneUnlessCrossed ==
    ASSUME Inv, NEW c \in Runner, NEW d \in Runner, Syncing(c), Syncing(d), d \notin crossed
    PROVE  c = d
  BY DEF Inv, CrossInv

LEMMA UpsertStateKeeps == ASSUME Inv, NEW c \in Runner, UpsertState(c) PROVE Inv'
  <1>1. PICK t \in run[c].todo :
          /\ run[c].at = "upsert"
          /\ indexed' = [indexed EXCEPT ![t] = run[c].read]
          /\ Set(c, AfterUpsert(run[c], t))
          /\ UNCHANGED <<now, row, tail, overview, load, crossed>>
    BY DEF UpsertState
  <1> DEFINE r == AfterUpsert(run[c], t)
  <1>2. t \in Token
    BY <1>1, ReadOfRun DEF Run
  <1>3. /\ r \in Run /\ r.at \in {"upsert", "mark"} /\ r.rows = run[c].rows /\ r.read = run[c].read
        /\ r.at = "mark" => r.token \in r.rows
    <2>1. CASE t \in run[c].rows
      BY <1>1, <1>2, <2>1, ReadOfRun DEF AfterUpsert, Run, Place
    <2>2. CASE t \notin run[c].rows
      BY <1>1, <1>2, <2>2, ReadOfRun DEF AfterUpsert, Run, Place
    <2> QED
      BY <2>1, <2>2
  <1> HIDE DEF r
  <1>4. Moves(c, r)
    BY <1>1, <1>3, ReadOfRun DEF Set, Moves, Syncing, Inside, Place, r
  <1>5. RunsOK' /\ LockInv' /\ CrossInv'
    BY <1>1, <1>4, MovesKeeps
  <1>6. indexed' \in [Token -> Time \cup {-1}]
    BY <1>1, ReadOfRun DEF Inv, TypeOK, TablesOK, Run
  <1>7. ReadInv'
    <2>1. /\ run'[c] = r
          /\ \A d \in Runner : d # c => run'[d] = run[d]
          /\ crossed' = crossed /\ now' = now
      BY <1>1, <1>4 DEF Moves, Inv, TypeOK, RunsOK
    <2>2. /\ \A u \in Token : indexed'[u] = indexed[u] \/ indexed'[u] = run[c].read
      BY <1>1 DEF Inv, TypeOK, TablesOK
    <2>3. \A u \in Token : indexed'[u] <= now'
      BY <2>1, <2>2, ReadOfRun DEF Inv, ReadInv
    <2>4. \A d \in Runner : run'[d].read <= now'
      BY <1>3, <2>1, ReadOfRun
    <2>5. ASSUME NEW d \in Runner, run'[d].at \in {"upsert", "mark"}, d \notin crossed', NEW u \in Token
          PROVE indexed'[u] <= run'[d].read
      <3>1. d = c
        <4> SUFFICES ASSUME d # c PROVE FALSE
          OBVIOUS
        <4>1. Syncing(d) /\ Syncing(c) /\ d \notin crossed
          BY <2>1, <2>5, <1>4 DEF Syncing, Inside, Place, Moves
        <4> QED
          BY <4>1, AloneUnlessCrossed
      <3>2. indexed[u] <= run[c].read
        BY <1>1, <2>1, <2>5, <3>1 DEF Inv, ReadInv
      <3> QED
        BY <1>3, <2>1, <2>2, <3>1, <3>2, ReadOfRun
    <2> QED
      BY <2>3, <2>4, <2>5 DEF ReadInv
  <1> QED
    BY <1>1, <1>5, <1>6, <1>7 DEF Inv, TypeOK, TablesOK, CacheOK

LEMMA MarkSyncedKeeps == ASSUME Inv, NEW c \in Runner, MarkSynced(c) PROVE Inv'
  <1> DEFINE t == run[c].token
             r == [run[c] EXCEPT !.at = "upsert", !.token = Nobody, !.todo = @ \ {t}]
  <1>1. t \in run[c].rows /\ t \in Token /\ row[t] # "absent"
    BY ReadOfRun DEF MarkSynced, Inv, TypeOK, RunsOK
  <1>2. r \in Run /\ r.at = "upsert" /\ r.rows = run[c].rows /\ r.read = run[c].read
    BY ReadOfRun DEF Run, Place
  <1>3. run[c].at = "mark" /\ run' = [run EXCEPT ![c] = r] /\ tail' = tail /\ crossed' = crossed
            /\ now' = now /\ indexed' = indexed
    BY DEF MarkSynced, Set
  <1>4. row' \in [Token -> Status] /\ \A u \in Token : row[u] # "absent" => row'[u] # "absent"
    BY <1>1 DEF MarkSynced, Inv, TypeOK, TablesOK, Status
  <1> HIDE DEF r, t
  <1>5. Moves(c, r)
    BY <1>2, <1>3, ReadOfRun DEF Moves, Syncing, Inside, Place
  <1>6. RunsOK' /\ LockInv' /\ CrossInv'
    BY <1>4, <1>5, MovesKeeps
  <1>7. ReadInv'
    BY <1>2, <1>3, <1>5, ReadOfRun, MovesKeepsReads
  <1> QED
    BY <1>4, <1>6, <1>7 DEF MarkSynced, Inv, TypeOK, TablesOK, CacheOK

LEMMA EndUpsertsKeeps == ASSUME Inv, NEW c \in Runner, EndUpserts(c) PROVE Inv'
  <1> DEFINE r == [run[c] EXCEPT !.at = IF run[c].rows = {} THEN "end" ELSE "save",
                                 !.faulty = {}, !.read = 0]
  <1>1. r \in Run /\ r.at \in {"end", "save"} /\ r.rows = run[c].rows /\ r.read = 0
    BY ReadOfRun, Settings DEF Run, Place
  <1>2. Moves(c, r)
    BY <1>1, ReadOfRun DEF EndUpserts, Set, Moves, Syncing, Inside, Place
  <1> HIDE DEF r
  <1>3. RunsOK' /\ LockInv' /\ CrossInv'
    BY <1>2, MovesKeeps DEF EndUpserts
  <1>4. ReadInv'
    BY <1>1, <1>2, ReadOfRun, MovesKeepsReads DEF EndUpserts
  <1> QED
    BY <1>3, <1>4 DEF EndUpserts, Inv, TypeOK, TablesOK, CacheOK

LEMMA SaveSnapshotsKeeps == ASSUME Inv, NEW c \in Runner, SaveSnapshots(c) PROVE Inv'
  <1>1. PICK r : /\ Set(c, r)
                 /\ \/ r = [run[c] EXCEPT !.at = "end"]
                    \/ run[c].attempt < Attempts /\ r = [run[c] EXCEPT !.attempt = @ + 1]
                    \/ \E fallback \in SUBSET run[c].rows :
                         r = [run[c] EXCEPT !.at = "partial", !.todo = fallback]
    BY DEF SaveSnapshots
  <1>2. run[c] \in Run /\ run[c].at = "save" /\ run[c].attempt \in 1..Attempts
            /\ run[c].rows \subseteq Token
    BY ReadOfRun DEF SaveSnapshots, Run
  <1>3. r \in Run /\ r.at \in {"end", "save", "partial"} /\ r.rows = run[c].rows /\ r.read = run[c].read
    <2>1. CASE r = [run[c] EXCEPT !.at = "end"]
      BY <1>2, <2>1 DEF Run, Place
    <2>2. CASE run[c].attempt < Attempts /\ r = [run[c] EXCEPT !.attempt = @ + 1]
      <3>1. run[c].attempt + 1 \in 1..Attempts
        BY <1>2, <2>2, Settings
      <3> QED
        BY <1>2, <2>2, <3>1 DEF Run, Place
    <2>3. ASSUME NEW fallback \in SUBSET run[c].rows,
                 r = [run[c] EXCEPT !.at = "partial", !.todo = fallback]
          PROVE r \in Run /\ r.at = "partial" /\ r.rows = run[c].rows /\ r.read = run[c].read
      BY <1>2, <2>3 DEF Run, Place
    <2> QED
      BY <1>1, <2>1, <2>2, <2>3
  <1>4. Moves(c, r)
    BY <1>1, <1>2, <1>3, ReadOfRun DEF SaveSnapshots, Set, Moves, Syncing, Inside, Place
  <1>5. RunsOK' /\ LockInv' /\ CrossInv'
    BY <1>4, MovesKeeps DEF SaveSnapshots
  <1>6. ReadInv'
    BY <1>3, <1>4, ReadOfRun, MovesKeepsReads DEF SaveSnapshots
  <1> QED
    BY <1>5, <1>6 DEF SaveSnapshots, Inv, TypeOK, TablesOK, CacheOK

LEMMA MarkPartialKeeps == ASSUME Inv, NEW c \in Runner, MarkPartial(c) PROVE Inv'
  <1>1. PICK r : /\ Set(c, r)
                 /\ \/ \E t \in run[c].todo : /\ row' = [row EXCEPT ![t] = "PARTIAL"]
                                              /\ r = [run[c] EXCEPT !.todo = @ \ {t}]
                    \/ row' = row /\ r = [run[c] EXCEPT !.at = "end"]
    BY DEF MarkPartial
  <1>2. run[c] \in Run /\ run[c].at = "partial"
    BY ReadOfRun DEF MarkPartial
  <1>3. r \in Run /\ r.at \in {"end", "partial"} /\ r.rows = run[c].rows /\ r.read = run[c].read
    BY <1>1, <1>2 DEF Run, Place
  <1>4. row' \in [Token -> Status] /\ \A u \in Token : row[u] # "absent" => row'[u] # "absent"
    BY <1>1 DEF Inv, TypeOK, TablesOK, Status
  <1>5. Moves(c, r)
    BY <1>1, <1>2, <1>3, ReadOfRun DEF MarkPartial, Set, Moves, Syncing, Inside, Place
  <1>6. RunsOK' /\ LockInv' /\ CrossInv'
    BY <1>4, <1>5, MovesKeeps
  <1>7. ReadInv'
    BY <1>3, <1>5, ReadOfRun, MovesKeepsReads DEF MarkPartial
  <1> QED
    BY <1>4, <1>6, <1>7 DEF MarkPartial, Inv, TypeOK, TablesOK, CacheOK

LEMMA MarkErrorKeeps == ASSUME Inv, NEW c \in Runner, MarkError(c) PROVE Inv'
  <1> DEFINE r == [run[c] EXCEPT !.at = "end"]
  <1>1. r \in Run /\ r.at = "end" /\ r.rows = run[c].rows /\ r.read = run[c].read
    BY ReadOfRun DEF Run, Place
  <1>2. row' \in [Token -> Status] /\ \A u \in Token : row[u] # "absent" => row'[u] # "absent"
    BY DEF MarkError, Inv, TypeOK, TablesOK, Status
  <1>3. Moves(c, r)
    BY <1>1, ReadOfRun DEF MarkError, Set, Moves, Syncing, Inside, Place
  <1> HIDE DEF r
  <1>4. RunsOK' /\ LockInv' /\ CrossInv'
    BY <1>2, <1>3, MovesKeeps
  <1>5. ReadInv'
    BY <1>1, <1>3, ReadOfRun, MovesKeepsReads DEF MarkError
  <1> QED
    BY <1>2, <1>4, <1>5 DEF MarkError, Inv, TypeOK, TablesOK, CacheOK

-----------------------------------------------------------------------------
(***************************************************************************)
(* The chain of promises.                                                  *)
(***************************************************************************)
LEMMA AskKeeps == ASSUME Inv, NEW c \in Refresher, Ask(c) PROVE Inv'
  <1> DEFINE r == [NoRun EXCEPT !.at = "waiting", !.ahead = tail]
  <1>1. tail \in Refresher \cup {Nobody} /\ c \in Runner /\ run[c].at = "idle"
    BY Settings DEF Ask, Inv, TypeOK, RunsOK
  <1>2. r \in Run /\ r.at = "waiting" /\ r.ahead = tail /\ r.rows = {} /\ r.read = 0
    BY <1>1, NoRunIsRun DEF Run, Place
  <1>3. run' = [run EXCEPT ![c] = r] /\ tail' = c
    BY DEF Ask, Set
  <1> HIDE DEF r
  <1>4. run' \in [Runner -> Run] /\ run'[c] = r /\ \A d \in Runner : d # c => run'[d] = run[d]
    BY <1>1, <1>2, <1>3 DEF Inv, TypeOK, RunsOK
  <1>5. RunsOK'
    BY <1>1, <1>2, <1>3, <1>4 DEF Ask, Inv, TypeOK, RunsOK
  <1>6. LockInv'
    <2>1. \A d \in Refresher : Waits(d) => run[d].ahead \in Runner \cup {Nobody} /\ run[d].ahead # c
      BY <1>1, Settings DEF Inv, TypeOK, RunsOK, Run, LockInv
    <2>2. tail # c
      BY <1>1, Settings DEF Inv, LockInv
    <2>3. \A d \in Runner : d # c => /\ Waits(d)' = Waits(d) /\ Head(d)' = Head(d)
      BY <1>4 DEF Waits, Head, Syncing
    <2>4. Waits(c)' /\ Head(c)' = (tail = Nobody) /\ ~Waits(c) /\ ~Head(c)
      BY <1>1, <1>2, <1>4 DEF Waits, Head, Syncing, Inside
    <2>5. \A d \in Poster : ~Waits(d)'
      BY <1>1, <2>3, Settings DEF Inv, LockInv
    <2>6. \A d \in Refresher : Waits(d)' /\ run'[d].ahead # Nobody => run'[run'[d].ahead].at # "idle"
      BY <1>1, <1>2, <1>4, <2>1, <2>2, <2>3, Settings DEF Inv, LockInv
    <2>7. \A d, e \in Refresher :
            Waits(d)' /\ Waits(e)' /\ d # e /\ run'[d].ahead = run'[e].ahead => run'[d].ahead = Nobody
      BY <1>1, <1>2, <1>4, <2>3, Settings DEF Inv, LockInv
    <2>8. \A d, e \in Refresher : Head(d)' /\ Head(e)' => d = e
      BY <1>1, <2>3, <2>4, Settings DEF Inv, LockInv
    <2>9. run'[c].at # "idle" /\ \A d \in Refresher : Waits(d)' => run'[d].ahead # c
      BY <1>2, <1>4, <2>1, <2>2, <2>3, Settings
    <2> QED
      BY <1>1, <1>3, <2>5, <2>6, <2>7, <2>8, <2>9, Settings DEF LockInv
  <1>7. CrossInv'
    BY <1>1, <1>2, <1>4 DEF Ask, Inv, CrossInv, Syncing, Inside
  <1>8. ReadInv'
    BY <1>1, <1>2, <1>4, ReadOfRun, Settings DEF Ask, Inv, ReadInv
  <1> QED
    BY <1>5, <1>6, <1>7, <1>8 DEF Ask, Inv, TypeOK, TablesOK, CacheOK

LEMMA BeginKeeps == ASSUME Inv, NEW c \in Runner, Begin(c) PROVE Inv'
  <1> DEFINE r == [NoRun EXCEPT !.at = "list"]
  <1>1. /\ ~Syncing(c) /\ run[c].at \in {"idle", "waiting"}
        /\ c \in Poster \/ (Waits(c) /\ Head(c))
        /\ c \in Refresher => Head(c)
    <2>1. c \in Poster => run[c].at # "waiting"
      BY DEF Inv, LockInv, Waits
    <2>2. \/ run[c].at = "waiting" /\ run[c].ahead = Nobody /\ c \notin Poster
          \/ run[c].at = "idle" /\ c \in Poster
      BY <2>1 DEF Begin
    <2>3. c \in Refresher => c \notin Poster
      BY Settings
    <2>4. run[c].at \in {"idle", "waiting"} /\ ~Syncing(c)
      BY <2>2 DEF Syncing, Inside
    <2>5. CASE run[c].at = "idle" /\ c \in Poster
      BY <2>3, <2>4, <2>5
    <2>6. CASE run[c].at = "waiting" /\ run[c].ahead = Nobody /\ c \notin Poster
      <3>1. Waits(c) /\ Head(c)
        BY <2>6 DEF Waits, Head
      <3> QED
        BY <2>4, <3>1
    <2> QED
      BY <2>2, <2>5, <2>6
  <1>2. r \in Run /\ r.at = "list" /\ r.rows = {} /\ r.read = 0
    BY NoRunIsRun DEF Run, Place
  <1>3. run' = [run EXCEPT ![c] = r] /\ tail' = tail /\ crossed' = crossed \cup Crossing(c)
    BY DEF Begin, Set
  <1> HIDE DEF r
  <1>4. /\ run' \in [Runner -> Run] /\ run'[c] = r /\ Syncing(c)'
        /\ \A d \in Runner : d # c => run'[d] = run[d]
    BY <1>2, <1>3 DEF Inv, TypeOK, RunsOK, Syncing, Inside, Place
  <1>5. Crossing(c) \subseteq Runner
    BY DEF Crossing
  <1>6. RunsOK'
    BY <1>2, <1>3, <1>4, <1>5 DEF Begin, Inv, TypeOK, RunsOK
  <1>7. LockInv'
    <2>1. \A d \in Refresher : Waits(d) => run[d].ahead \in Runner \cup {Nobody}
      BY Settings DEF Inv, TypeOK, RunsOK, Run
    <2>2. tail \in Runner \cup {Nobody}
      BY Settings DEF Inv, TypeOK, RunsOK
    <2>3. \A d \in Runner : d # c => Waits(d)' = Waits(d) /\ Head(d)' = Head(d)
      BY <1>4 DEF Waits, Head, Syncing
    <2>4. ~Waits(c)' /\ run'[c].at # "idle"
      BY <1>2, <1>4 DEF Waits
    <2>5. \A d \in Refresher : Head(d)' => Head(d)
      BY <1>1, <2>3, Settings
    <2>6. \A d \in Refresher : Waits(d)' /\ run'[d].ahead # Nobody => run'[run'[d].ahead].at # "idle"
      BY <1>4, <2>1, <2>3, <2>4, Settings DEF Inv, LockInv
    <2>7. \A d, e \in Refresher :
            Waits(d)' /\ Waits(e)' /\ d # e /\ run'[d].ahead = run'[e].ahead => run'[d].ahead = Nobody
      BY <1>4, <2>3, <2>4, Settings DEF Inv, LockInv
    <2>8. tail # Nobody =>
            run'[tail].at # "idle" /\ \A d \in Refresher : Waits(d)' => run'[d].ahead # tail
      BY <1>4, <2>2, <2>3, <2>4, Settings DEF Inv, LockInv
    <2> QED
      BY <1>3, <2>3, <2>4, <2>5, <2>6, <2>7, <2>8, Settings DEF Inv, LockInv
  <1>8. CrossInv'
    <2> SUFFICES ASSUME NEW d \in Runner, NEW e \in Runner, d # e, Syncing(d)', Syncing(e)'
                 PROVE  d \in crossed'
      BY DEF CrossInv
    <2>1. CASE d # c /\ e # c
      BY <1>3, <1>4, <2>1 DEF Inv, CrossInv, Syncing
    <2>2. ASSUME NEW f \in Runner, f # c, Syncing(f)' PROVE c \in crossed' /\ f \in crossed'
      <3>1. Syncing(f)
        BY <1>4, <2>2 DEF Syncing
      <3>2. c \in Poster \/ f \in Poster
        <4> SUFFICES ASSUME c \in Refresher, f \in Refresher PROVE FALSE
          BY Settings
        <4> QED
          BY <1>1, <2>2, <3>1 DEF Head, Inv, LockInv
      <3>3. f \in Crossing(c) /\ c \in Crossing(c)
        BY <2>2, <3>1, <3>2 DEF Crossing
      <3> QED
        BY <1>3, <3>3
    <2> QED
      BY <2>1, <2>2
  <1>9. ReadInv'
    BY <1>2, <1>3, <1>4, ReadOfRun DEF Begin, Inv, ReadInv
  <1> QED
    BY <1>6, <1>7, <1>8, <1>9 DEF Begin, Inv, TypeOK, TablesOK, CacheOK

\* A sync ends: the next in the chain, if there is one, is its head.
LEMMA LeaveKeeps ==
    ASSUME Inv, NEW c \in Runner, Syncing(c), NEW threw, Leave(c, threw), now' = now,
           indexed' = indexed, \A t \in Token : row[t] # "absent" => row'[t] # "absent"
    PROVE  RunsOK' /\ LockInv' /\ CrossInv' /\ ReadInv'
  <1>1. /\ crossed' = crossed \ {c}
        /\ tail' = IF tail = c THEN Nobody ELSE tail
        /\ run' = [d \in Runner |->
                     IF d = c THEN NoRun
                     ELSE IF run[d].at = "waiting" /\ run[d].ahead = c
                          THEN [run[d] EXCEPT !.ahead = Nobody] ELSE run[d]]
    BY DEF Leave, Release, Settled
  <1>2. run'[c] = NoRun
    BY <1>1
  <1>3. \A d \in Runner : d # c /\ ~(Waits(d) /\ run[d].ahead = c) => run'[d] = run[d]
    BY <1>1 DEF Waits
  <1>4. ASSUME NEW d \in Runner, d # c, Waits(d), run[d].ahead = c
        PROVE  /\ run'[d] \in Run /\ run'[d].at = "waiting" /\ run'[d].ahead = Nobody
               /\ run'[d].rows = run[d].rows /\ run'[d].read = run[d].read
    <2>1. run'[d] = [run[d] EXCEPT !.ahead = Nobody]
      BY <1>1, <1>4 DEF Waits
    <2> QED
      BY <1>4, <2>1, ReadOfRun DEF Run, Waits
  <1>5. \A d \in Runner : /\ run'[d] \in Run
                          /\ run'[d].rows \subseteq run[d].rows
                          /\ run'[d].at = "mark" => run'[d].token \in run'[d].rows
    BY <1>2, <1>3, <1>4, NoRunIsRun, ReadOfRun DEF Inv, TypeOK, RunsOK
  <1>6. RunsOK'
    <2>1. run' \in [Runner -> Run]
      BY <1>1, <1>5
    <2>2. \A d \in Runner : \A t \in run'[d].rows : row'[t] # "absent"
      BY <1>5, ReadOfRun
    <2> QED
      BY <1>1, <1>5, <2>1, <2>2 DEF Inv, TypeOK, RunsOK
  <1>7. \A d \in Runner : d # c => /\ Waits(d)' = Waits(d) /\ Syncing(d)' = Syncing(d)
                                   /\ (run'[d].at = "idle") = (run[d].at = "idle")
    BY <1>3, <1>4 DEF Waits, Syncing, Inside
  <1>8. ~Waits(c)' /\ ~Syncing(c)' /\ ~Head(c)' /\ run[c].at # "idle"
    BY <1>2, NoRunIsRun DEF Waits, Syncing, Inside, Head
  <1>9. LockInv'
    <2>1. \A d \in Refresher : Waits(d) => run[d].ahead \in Runner \cup {Nobody}
      BY Settings DEF Inv, TypeOK, RunsOK, Run
    <2>2. tail \in Refresher \cup {Nobody} /\ Refresher \subseteq Runner
      BY Settings DEF Inv, TypeOK, RunsOK
    <2>3. \A d \in Poster : ~Waits(d)'
      BY <1>7, <1>8, Settings DEF Inv, LockInv
    <2>4. ASSUME NEW d \in Refresher, Waits(d)'
          PROVE  /\ d # c /\ Waits(d)
                 /\ run[d].ahead = c => run'[d].ahead = Nobody
                 /\ run[d].ahead # c => run'[d].ahead = run[d].ahead
      BY <1>3, <1>4, <1>7, <1>8, <2>2, <2>4
    <2>5. ASSUME NEW d \in Refresher, Waits(d)', run'[d].ahead # Nobody
          PROVE  run'[run'[d].ahead].at # "idle"
      <3>1. run'[d].ahead = run[d].ahead /\ run[d].ahead # c /\ run[d].ahead \in Runner /\ Waits(d)
        BY <2>1, <2>4, <2>5
      <3>2. run[run[d].ahead].at # "idle"
        BY <2>5, <3>1 DEF Inv, LockInv
      <3> QED
        BY <1>7, <3>1, <3>2
    <2>6. ASSUME NEW d \in Refresher, NEW e \in Refresher, Waits(d)', Waits(e)', d # e,
                 run'[d].ahead = run'[e].ahead
          PROVE  run'[d].ahead = Nobody
      BY <2>4, <2>6 DEF Inv, LockInv
    <2>7. ASSUME NEW d \in Refresher, Head(d)'
          PROVE  d # c /\ (Head(d) \/ (Waits(d) /\ run[d].ahead = c))
      <3>1. d # c /\ d \in Runner
        BY <1>8, <2>2, <2>7
      <3>2. CASE Syncing(d)'
        BY <1>7, <3>1, <3>2 DEF Head
      <3>3. CASE Waits(d)' /\ run'[d].ahead = Nobody
        BY <2>4, <3>3, <3>1 DEF Head, Waits
      <3> QED
        BY <2>7, <3>2, <3>3, <3>1 DEF Head, Waits
    <2>8. CASE c \in Refresher
      <3>1. \A d \in Refresher : Head(d) => d = c
        BY <2>8 DEF Head, Inv, LockInv
      <3>2. \A d \in Refresher : Head(d)' => Waits(d) /\ run[d].ahead = c
        BY <2>7, <3>1
      <3>3. \A d, e \in Refresher : Head(d)' /\ Head(e)' => d = e
        BY <2>8, <3>2, Settings DEF Inv, LockInv
      <3>4. tail' = Nobody => \A d \in Refresher : ~Head(d)'
        <4>1. tail # Nobody
          BY <2>8 DEF Inv, LockInv, Head
        <4>2. CASE tail = c
          BY <3>2, <4>1, <4>2 DEF Inv, LockInv
        <4>3. CASE tail # c
          BY <1>1, <4>1, <4>3
        <4> QED
          BY <4>2, <4>3
      <3>5. tail' # Nobody =>
              run'[tail'].at # "idle" /\ \A d \in Refresher : Waits(d)' => run'[d].ahead # tail'
        <4> SUFFICES ASSUME tail' # Nobody
                     PROVE  run'[tail'].at # "idle" /\ \A d \in Refresher : Waits(d)' => run'[d].ahead # tail'
          OBVIOUS
        <4>1. tail # c /\ tail' = tail /\ tail \in Refresher
          BY <1>1, <2>2
        <4>2. run[tail].at # "idle" /\ \A d \in Refresher : Waits(d) => run[d].ahead # tail
          BY <4>1 DEF Inv, LockInv
        <4> QED
          BY <1>7, <2>2, <2>4, <4>1, <4>2
      <3> QED
        BY <2>3, <2>5, <2>6, <3>3, <3>4, <3>5 DEF LockInv
    <2>9. CASE c \in Poster
      <3>1. c \notin Refresher /\ tail # c /\ tail' = tail
        BY <1>1, <2>2, <2>9, Settings
      <3>2. \A d \in Refresher : Waits(d) => run[d].ahead # c
        BY <3>1, Settings DEF Inv, TypeOK, RunsOK, Run
      <3>3. \A d \in Refresher : Head(d)' => Head(d)
        BY <2>7, <3>2
      <3>4. tail # Nobody =>
              run'[tail].at # "idle" /\ \A d \in Refresher : Waits(d)' => run'[d].ahead # tail
        BY <1>7, <2>2, <2>4, <3>1, <3>2 DEF Inv, LockInv
      <3> QED
        BY <2>3, <2>5, <2>6, <3>1, <3>3, <3>4 DEF Inv, LockInv
    <2> QED
      BY <2>8, <2>9, Settings
  <1>10. CrossInv'
    BY <1>1, <1>7, <1>8 DEF Inv, CrossInv
  <1>11. ReadInv'
    <2>1. \A d \in Runner : run'[d].read <= now'
      BY <1>2, <1>3, <1>4, NoRunIsRun, ReadOfRun
    <2>2. \A d \in Runner : run'[d].at \in {"upsert", "mark"} => d # c /\ run'[d] = run[d]
      BY <1>2, <1>3, <1>4, NoRunIsRun
    <2> QED
      BY <1>1, <2>1, <2>2 DEF Inv, ReadInv
  <1> QED
    BY <1>6, <1>9, <1>10, <1>11

-----------------------------------------------------------------------------
LEMMA ThrowKeeps == ASSUME Inv, NEW c \in Runner, Throw(c) PROVE Inv'
  <1>1. Syncing(c) /\ Leave(c, TRUE) /\ row' = row /\ now' = now /\ indexed' = indexed
            /\ overview' = overview /\ load' = load
    BY DEF Throw, Syncing
  <1> QED
    BY <1>1, LeaveKeeps DEF Inv, TypeOK, TablesOK, CacheOK

LEMMA EndKeeps == ASSUME Inv, NEW c \in Runner, End(c) PROVE Inv'
  <1>1. Syncing(c) /\ Leave(c, FALSE) /\ row' = row /\ now' = now /\ indexed' = indexed
    BY DEF End, Syncing, Inside, Place
  <1>2. CacheOK'
    <2>1. CASE c \in Poster
      <3>1. [NoEntry EXCEPT !.missed = NoEntry.missed \/ NoEntry.held]
              \in [held : BOOLEAN, missed : BOOLEAN, crossed : BOOLEAN]
        BY DEF NoEntry
      <3>2. \A v \in Viewer : [load[v] EXCEPT !.crossed = load[v].busy] \in [busy : BOOLEAN, crossed : BOOLEAN]
        BY DEF Inv, TypeOK, CacheOK
      <3>3. /\ overview' = [NoEntry EXCEPT !.missed = NoEntry.missed \/ NoEntry.held]
            /\ load' = [v \in Viewer |-> [load[v] EXCEPT !.crossed = load[v].busy]]
        BY <2>1, Zenon DEF End, Invalidate
      <3> QED
        BY <3>1, <3>2, <3>3, Zenon DEF CacheOK
    <2>2. CASE c \notin Poster
      BY <2>2 DEF End, Inv, TypeOK, CacheOK
    <2> QED
      BY <2>1, <2>2
  <1> QED
    BY <1>1, <1>2, LeaveKeeps DEF Inv, TypeOK, TablesOK

\* What concerns no call.
LEMMA QuietKeeps ==
    ASSUME Inv, UNCHANGED <<run, tail, crossed, indexed>>, now' \in Time, now <= now',
           row' \in [Token -> Status], \A t \in Token : row[t] # "absent" => row'[t] # "absent"
    PROVE  TablesOK' /\ RunsOK' /\ LockInv' /\ CrossInv' /\ ReadInv'
  <1>1. now \in Nat /\ now' \in Nat /\ \A t \in Token : indexed[t] \in Int
    BY Settings DEF Inv, TypeOK, TablesOK
  <1>2. \A c \in Runner : run[c].read \in Nat /\ run[c].rows \subseteq Token
    BY ReadOfRun
  <1>3. TablesOK' /\ RunsOK'
    BY <1>2 DEF Inv, TypeOK, TablesOK, RunsOK
  <1>4. LockInv' /\ CrossInv'
    BY DEF Inv, LockInv, CrossInv, Head, Waits, Syncing
  <1>5. ReadInv'
    BY <1>1, <1>2 DEF Inv, ReadInv
  <1> QED
    BY <1>3, <1>4, <1>5

LEMMA ViewKeeps == ASSUME Inv, NEW v \in Viewer, View(v) PROVE Inv'
  <1>0. now \in Nat /\ now \in Time
    BY Settings DEF Inv, TypeOK, TablesOK
  <1>1. CacheOK'
    <2>1. CASE Look(v)
      BY <2>1 DEF Look, Inv, TypeOK, CacheOK, NoEntry
    <2>2. CASE Load(v)
      BY <2>2 DEF Load, Inv, TypeOK, CacheOK, NoLoad
    <2> QED
      BY <2>1, <2>2 DEF View
  <1>2. UNCHANGED <<run, tail, crossed, indexed, now, row>>
    BY DEF View, Look, Load
  <1>3. TablesOK' /\ RunsOK' /\ LockInv' /\ CrossInv' /\ ReadInv'
    BY <1>0, <1>2, QuietKeeps DEF Inv, TypeOK, TablesOK
  <1> QED
    BY <1>1, <1>3 DEF Inv, TypeOK

LEMMA CreatePositionKeeps == ASSUME Inv, NEW t \in Token, CreatePosition(t) PROVE Inv'
  <1>1. now \in Nat /\ now \in Time /\ now' = now
    BY Settings DEF CreatePosition, Inv, TypeOK, TablesOK
  <1>2. row' \in [Token -> Status] /\ \A u \in Token : row[u] # "absent" => row'[u] # "absent"
    BY DEF CreatePosition, Inv, TypeOK, TablesOK, Status
  <1>3. TablesOK' /\ RunsOK' /\ LockInv' /\ CrossInv' /\ ReadInv'
    BY <1>1, <1>2, QuietKeeps DEF CreatePosition
  <1> QED
    BY <1>3 DEF CreatePosition, Inv, TypeOK, CacheOK

LEMMA TickKeeps == ASSUME Inv, Tick PROVE Inv'
  <1>1. now' \in Time /\ now <= now' /\ row' = row
    BY Settings DEF Tick, Inv, TypeOK, TablesOK, Time
  <1>2. TablesOK' /\ RunsOK' /\ LockInv' /\ CrossInv' /\ ReadInv'
    BY <1>1, QuietKeeps DEF Tick, Inv, TypeOK, TablesOK
  <1> QED
    BY <1>2 DEF Tick, Inv, TypeOK, CacheOK

-----------------------------------------------------------------------------
LEMMA Initially == Init => Inv
  <1> SUFFICES ASSUME Init PROVE Inv
    OBVIOUS
  <1>1. \A c \in Runner : run[c] = NoRun
    BY DEF Init
  <1>2. TypeOK
    BY NoRunIsRun, Settings DEF Init, TypeOK, TablesOK, RunsOK, CacheOK, Status, NoEntry, NoLoad
  <1>3. LockInv
    BY <1>1, NoRunIsRun, Settings DEF Init, LockInv, Head, Waits, Syncing, Inside
  <1>4. CrossInv
    BY <1>1, NoRunIsRun DEF CrossInv, Syncing, Inside
  <1>5. ReadInv
    BY <1>1, NoRunIsRun DEF Init, ReadInv
  <1> QED
    BY <1>2, <1>3, <1>4, <1>5 DEF Inv

LEMMA StepKeeps == ASSUME Inv, [Next]_vars PROVE Inv'
  <1>1. ASSUME NEW c \in Runner, Step(c) PROVE Inv'
    BY <1>1, BeginKeeps, ListRowsKeeps, ReadWalletKeeps, UpsertStateKeeps, MarkSyncedKeeps,
       EndUpsertsKeeps, SaveSnapshotsKeeps, MarkPartialKeeps, MarkErrorKeeps, ThrowKeeps, EndKeeps
       DEF Step
  <1>2. CASE UNCHANGED vars
    <2>1. now \in Nat /\ now \in Time
      BY Settings DEF Inv, TypeOK, TablesOK
    <2>2. TablesOK' /\ RunsOK' /\ LockInv' /\ CrossInv' /\ ReadInv'
      BY <1>2, <2>1, QuietKeeps DEF vars, Inv, TypeOK, TablesOK
    <2> QED
      BY <1>2, <2>2 DEF vars, Inv, TypeOK, CacheOK
  <1> QED
    BY <1>1, <1>2, AskKeeps, ViewKeeps, CreatePositionKeeps, TickKeeps DEF Next

LEMMA Invariant == Spec => []Inv
  BY Initially, StepKeeps, PTL DEF Spec

\* wallet-position-sync.ts and analytics-interfaces.ts: the tables and the calls keep their
\* types, and a sync marks no row but one that it has listed and that is still there.
THEOREM TypeCorrect == Spec => []TypeOK
  <1>1. Inv => TypeOK
    BY DEF Inv
  <1> QED
    BY <1>1, Invariant, PTL

\* withWalletChainLock: an older read replaces a newer one only where the sync of a POST,
\* which does not take the lock, overlaps another sync.
THEOREM IndexedNeverBack == Spec => IndexedNeverGoesBack
  <1> DEFINE Excused(t) == indexed'[t] < indexed[t] =>
               \E c \in crossed : run[c].at = "upsert" /\ run'[c] # run[c]
  <1>1. ASSUME Inv, [Next]_vars, NEW t \in Token PROVE Excused(t)
    <2>0. Inv /\ indexed \in [Token -> Int]
      BY <1>1, Settings DEF Inv, TypeOK, TablesOK
    <2>1. ASSUME NEW c \in Runner, UpsertState(c) PROVE Excused(t)
      <3>1. PICK u \in run[c].todo :
              /\ run[c].at = "upsert"
              /\ indexed' = [indexed EXCEPT ![u] = run[c].read]
              /\ run' = [run EXCEPT ![c] = AfterUpsert(run[c], u)]
        BY <2>1 DEF UpsertState, Set
      <3>2. run'[c] # run[c]
        <4>1. run'[c] = AfterUpsert(run[c], u) /\ run[c] \in Run
          BY <2>0, <3>1 DEF Inv, TypeOK, RunsOK
        <4>2. CASE u \in run[c].rows
          <5>1. AfterUpsert(run[c], u).at = "mark"
            BY <4>1, <4>2 DEF AfterUpsert, Run
          <5> QED
            BY <3>1, <4>1, <5>1
        <4>3. CASE u \notin run[c].rows
          <5>1. AfterUpsert(run[c], u).todo = run[c].todo \ {u}
            BY <4>1, <4>3 DEF AfterUpsert, Run
          <5> QED
            BY <3>1, <4>1, <5>1
        <4> QED
          BY <4>2, <4>3
      <3>3. CASE c \in crossed
        BY <3>1, <3>2, <3>3
      <3>4. CASE c \notin crossed
        <4>1. indexed[t] <= run[c].read
          BY <2>0, <3>1, <3>4 DEF Inv, ReadInv
        <4>2. indexed[t] \in Int /\ run[c].read \in Int
          BY <2>0, ReadOfRun
        <4>3. indexed'[t] = indexed[t] \/ indexed'[t] = run[c].read
          BY <2>0, <3>1
        <4> QED
          BY <4>1, <4>2, <4>3
      <3> QED
        BY <3>3, <3>4
    <2>2. CASE indexed' = indexed
      <3>1. ~(indexed[t] < indexed[t])
        BY <2>0
      <3> QED
        BY <2>2, <3>1
    <2>3. indexed' = indexed \/ \E c \in Runner : UpsertState(c)
      BY <1>1 DEF Next, Step, View, Ask, Begin, ListRows, ReadWallet, MarkSynced, EndUpserts,
         SaveSnapshots, MarkPartial, MarkError, Throw, End, Look, Load, CreatePosition, Tick, vars
    <2> QED
      BY <2>1, <2>2, <2>3
  <1>2. Inv /\ [Next]_vars => [\A t \in Token : Excused(t)]_vars
    BY <1>1
  <1> QED
    BY <1>2, Invariant, PTL DEF Spec, IndexedNeverGoesBack
-----------------------------------------------------------------------------
(***************************************************************************)
(* The chain of promises.  Callers that wait never wait for each other in  *)
(* a circle: a set of them always has one that waits for nobody in it.     *)
(***************************************************************************)
ChainInv ==
    \A S \in SUBSET Refresher :
        S # {} /\ (\A c \in S : Waits(c)) => \E c \in S : run[c].ahead \notin S

\* No step but Ask makes a refresh wait, or wait for another caller.
LEMMA WaitersShrink ==
    ASSUME Inv, NEW c \in Runner, Step(c), NEW d \in Refresher, Waits(d)'
    PROVE  Waits(d) /\ run'[d].ahead \in {run[d].ahead, Nobody}
  <1>0. run \in [Runner -> Run] /\ run[c] \in Run /\ d \in Runner /\ run[d] \in Run
    BY ReadOfRun, Settings DEF Inv, TypeOK, RunsOK
  <1>1. CASE Throw(c) \/ End(c)
    <2>1. PICK threw : run' = Settled(c, threw)
      BY <1>1 DEF Throw, End, Leave
    <2> QED
      BY <1>0, <2>1, NoRunIsRun DEF Settled, Waits, Run
  <1>2. CASE \A e \in Runner : e # c => run'[e] = run[e]
    <2>1. ASSUME Begin(c) PROVE run'[c].at # "waiting"
      BY <1>0, <2>1, NoRunIsRun DEF Begin, Set, Run
    <2>2. ASSUME ListRows(c) \/ ReadWallet(c) PROVE run'[c].at # "waiting"
      BY <1>0, <2>2 DEF ListRows, ReadWallet, Set, Run
    <2>3. ASSUME UpsertState(c) PROVE run'[c].at # "waiting"
      BY <1>0, <2>3 DEF UpsertState, AfterUpsert, Set, Run
    <2>4. ASSUME MarkSynced(c) \/ EndUpserts(c) PROVE run'[c].at # "waiting"
      <3>1. CASE MarkSynced(c)
        BY <1>0, <3>1 DEF MarkSynced, Set, Run
      <3>2. CASE EndUpserts(c)
        <4>1. PICK place \in {"end", "save"} :
                run'[c] = [run[c] EXCEPT !.at = place, !.faulty = {}, !.read = 0]
          BY <1>0, <3>2 DEF EndUpserts, Set
        <4> QED
          BY <1>0, <4>1 DEF Run
      <3> QED
        BY <2>4, <3>1, <3>2
    <2>5. ASSUME SaveSnapshots(c) PROVE run'[c].at # "waiting"
      BY <1>0, <2>5 DEF SaveSnapshots, Set, Run
    <2>6. ASSUME MarkPartial(c) \/ MarkError(c) PROVE run'[c].at # "waiting"
      BY <1>0, <2>6 DEF MarkPartial, MarkError, Set, Run
    <2>7. ASSUME d = c PROVE Throw(c) \/ End(c)
      BY <2>1, <2>2, <2>3, <2>4, <2>5, <2>6, <2>7 DEF Step, Waits
    <2> QED
      BY <1>0, <1>1, <1>2, <2>7 DEF Waits
  <1>3. \/ Throw(c) \/ End(c)
        \/ \A e \in Runner : e # c => run'[e] = run[e]
    BY <1>0 DEF Step, Begin, ListRows, ReadWallet, UpsertState, MarkSynced, EndUpserts,
       SaveSnapshots, MarkPartial, MarkError, Set
  <1> QED
    BY <1>1, <1>2, <1>3

LEMMA ChainKeeps == ASSUME Inv, ChainInv, [Next]_vars PROVE ChainInv'
  <1>1. CASE \A d \in Refresher : Waits(d)' => Waits(d) /\ run'[d].ahead \in {run[d].ahead, Nobody}
    <2> SUFFICES ASSUME NEW S \in SUBSET Refresher, S # {}, \A c \in S : Waits(c)'
                 PROVE  \E c \in S : run'[c].ahead \notin S
      BY DEF ChainInv
    <2>1. PICK c \in S : run[c].ahead \notin S
      BY <1>1 DEF ChainInv
    <2> QED
      BY <1>1, <2>1, Settings
  <1>2. ASSUME NEW a \in Refresher, Ask(a) PROVE ChainInv'
    <2>1. /\ run'[a].ahead = tail /\ ~Waits(a)
          /\ \A d \in Refresher : d # a => run'[d] = run[d]
      BY <1>2, NoRunIsRun, Settings DEF Ask, Set, Waits, Inv, TypeOK, RunsOK, Run
    <2>2. tail # a /\ \A d \in Refresher : Waits(d) => run[d].ahead # a
      BY <1>2, Settings DEF Ask, Inv, LockInv
    <2> SUFFICES ASSUME NEW S \in SUBSET Refresher, S # {}, \A c \in S : Waits(c)'
                 PROVE  \E c \in S : run'[c].ahead \notin S
      BY DEF ChainInv
    <2>3. \A c \in S \ {a} : Waits(c) /\ run'[c] = run[c] /\ run[c].ahead # a
      BY <2>1, <2>2 DEF Waits
    <2>4. CASE S \ {a} = {}
      BY <2>1, <2>2, <2>4
    <2>5. CASE S \ {a} # {}
      <3>1. PICK c \in S \ {a} : run[c].ahead \notin S \ {a}
        BY <2>3, <2>5 DEF ChainInv
      <3> QED
        BY <2>3, <3>1
    <2> QED
      BY <2>4, <2>5
  <1>3. CASE UNCHANGED run
    BY <1>1, <1>3 DEF Waits
  <1>4. ASSUME NEW c \in Runner, Step(c) PROVE ChainInv'
    BY <1>1, <1>4, WaitersShrink
  <1> QED
    BY <1>2, <1>3, <1>4 DEF Next, View, Look, Load, CreatePosition, Tick, vars

\* withWalletChainLock: as long as a refresh waits, some refresh syncs or may begin to,
\* whatever was thrown ahead of it; the chain is never stuck on itself.
THEOREM ChainNeverStuck ==
    Spec => [](\A c \in Refresher : Waits(c) => \E d \in Refresher : Head(d))
  <1>1. Init => ChainInv
    BY NoRunIsRun, Settings DEF Init, ChainInv, Waits
  <1>2. Inv /\ ChainInv => \A c \in Refresher : Waits(c) => \E d \in Refresher : Head(d)
    <2> SUFFICES ASSUME Inv, ChainInv, NEW c \in Refresher, Waits(c)
                 PROVE  \E d \in Refresher : Head(d)
      OBVIOUS
    <2> DEFINE S == {d \in Refresher : Waits(d)}
    <2>1. PICK d \in S : run[d].ahead \notin S
      BY DEF ChainInv
    <2>2. CASE run[d].ahead = Nobody
      BY <2>2 DEF Head, Waits
    <2>3. CASE run[d].ahead # Nobody
      <3>1. run[d].ahead \in Refresher /\ run[run[d].ahead].at \in Place \ {"idle", "waiting"}
        BY <2>1, <2>3, Settings DEF Inv, LockInv, TypeOK, RunsOK, Run, Waits
      <3> QED
        BY <3>1 DEF Head, Syncing, Inside
    <2> QED
      BY <2>2, <2>3
  <1> QED
    BY <1>1, <1>2, ChainKeeps, Invariant, PTL DEF Spec

\* withWalletChainLock: no two refreshes sync at the same time.
THEOREM OneRefreshSyncs ==
    Spec => [](\A c, d \in Refresher : Syncing(c) /\ Syncing(d) => c = d)
  <1>1. Inv => \A c, d \in Refresher : Syncing(c) /\ Syncing(d) => c = d
    BY DEF Inv, LockInv, Head
  <1> QED
    BY <1>1, Invariant, PTL

-----------------------------------------------------------------------------
(***************************************************************************)
(* The cached overview.  What is held was loaded after the last POST sync  *)
(* ended, or its load was under way when that sync dropped the cache.      *)
(***************************************************************************)
LEMMA OverviewStep == ASSUME OverviewShowsSync, [Next]_vars PROVE OverviewShowsSync'
  <1> USE DEF OverviewShowsSync
  <1>1. ASSUME NEW c \in Runner, End(c) PROVE OverviewShowsSync'
    BY <1>1 DEF End, Invalidate, NoEntry
  <1>2. ASSUME NEW v \in Viewer, View(v) PROVE OverviewShowsSync'
    BY <1>2 DEF View, Look, Load, NoEntry
  <1>3. CASE UNCHANGED overview
    BY <1>3
  <1>4. \/ UNCHANGED overview
        \/ \E c \in Runner : End(c)
        \/ \E v \in Viewer : View(v)
    BY DEF Next, Step, Ask, Begin, ListRows, ReadWallet, UpsertState, MarkSynced, EndUpserts,
       SaveSnapshots, MarkPartial, MarkError, Throw, CreatePosition, Tick, vars
  <1> QED
    BY <1>1, <1>2, <1>3, <1>4

\* analytics-interfaces.ts: an overview from before the end of a POST sync is held only
\* if its load was under way when that sync dropped the cache.
THEOREM OverviewAlwaysShows == Spec => []OverviewShowsSync
  <1>1. Init => OverviewShowsSync
    BY DEF Init, OverviewShowsSync, NoEntry
  <1> QED
    BY <1>1, OverviewStep, PTL DEF Spec
=============================================================================
