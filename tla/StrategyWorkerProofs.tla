------------------------- MODULE StrategyWorkerProofs -------------------------
(***************************************************************************)
(* Proofs about LiveReads and StrategyWorker: first what the reads and the *)
(* caches preserve, then why the worker asks for no job that it should not.*)
(***************************************************************************)
EXTENDS StrategyWorker, TLAPS

(***************************************************************************)
(* What a call knows of its reads.  A pool that was read and not yet       *)
(* stored was read after the call began, so that what is stored expires no *)
(* later than the time to live after the read.                             *)
(***************************************************************************)
CallKnows(c) ==
    /\ call[c].began <= now /\ call[c].asked <= now
    /\ call[c].at = "enrich" => call[c].asked <= call[c].began
    /\ call[c].at # "enrich" => \A p \in Pool : live[c][p] = NoRead
    /\ \A p \in Pool : live[c][p].at = "decimals" => call[c].began <= live[c][p].time
    /\ \A p \in Pool : live[c][p].time # Fallback =>
                            call[c].began < live[c][p].time + SnapshotTtl
CallsKnow == \A c \in Caller : CallKnows(c)

PoolsKnow ==
    \A p \in Pool : pools[p].time # Fallback => pools[p].expires <= pools[p].time + SnapshotTtl
AdviceKnows ==
    \A s \in Position : advice[s].time # Fallback =>
        advice[s].expires < advice[s].time + SnapshotTtl + StrategyTtl

LiveInv == LiveTypeOK /\ CallsKnow /\ PoolsKnow /\ AdviceKnows

-----------------------------------------------------------------------------
LEMMA Numbers ==
    /\ SnapshotTtl \in Nat \ {0} /\ StrategyTtl \in Nat /\ MaxTime \in Nat
    /\ Time \subseteq Nat /\ 0 \in Time /\ Time \cup {Fallback} \subseteq Int
    /\ NoEntry \in Entry /\ NoRead \in Read /\ NoCall \in Call
    /\ NoRead.time = Fallback /\ NoRead.at = "lookup"
    /\ NoCall.at = "idle" /\ NoCall.began = 0 /\ NoCall.asked = 0
    /\ Saver \subseteq Caller /\ Viewer \subseteq Caller /\ Evaluator \subseteq Caller
    /\ \A s \in Position : PoolOf[s] \in Pool
  BY LiveAssumption DEF Time, NoEntry, Entry, NoRead, Read, NoCall, Call, Fallback, Caller

\* The call of one caller changes while the clock stands still.
LEMMA OneCall ==
    ASSUME LiveInv, NEW c \in Caller, now' = now, CallKnows(c)',
           \A d \in Caller : d # c => call'[d] = call[d] /\ live'[d] = live[d]
    PROVE  CallsKnow'
  <1> SUFFICES ASSUME NEW d \in Caller, d # c PROVE CallKnows(d)'
    BY DEF CallsKnow
  <1>1. call'[d] = call[d] /\ live'[d] = live[d] /\ CallKnows(d)
    BY DEF LiveInv, CallsKnow
  <1> QED
    BY <1>1 DEF CallKnows

\* A call that is over leaves nothing behind.
LEMMA LeaveKeeps ==
    ASSUME LiveInv, NEW c \in Caller, Leave(c), now' = now
    PROVE  /\ CallsKnow'
           /\ call' \in [Caller -> Call] /\ live' \in [Caller -> [Pool -> Read]]
  <1>1. /\ call' \in [Caller -> Call] /\ live' \in [Caller -> [Pool -> Read]]
        /\ call'[c] = NoCall /\ live'[c] = [p \in Pool |-> NoRead]
        /\ \A d \in Caller : d # c => call'[d] = call[d] /\ live'[d] = live[d]
    BY Numbers DEF Leave, LiveInv, LiveTypeOK
  <1>2. now \in Nat
    BY Numbers DEF LiveInv, LiveTypeOK
  <1>3. CallKnows(c)'
    BY <1>1, <1>2, Numbers DEF CallKnows
  <1> QED
    BY <1>1, <1>3, OneCall

\* A call that is made, at the place where it begins.
LEMMA BeginKeeps ==
    ASSUME LiveInv, NEW c \in Caller, now' = now, live' = live, call[c].at = "idle",
           NEW new \in Call, new.at = "load", new.began = 0, new.asked <= now,
           call' = [call EXCEPT ![c] = new]
    PROVE  CallsKnow' /\ call' \in [Caller -> Call]
  <1>1. now \in Nat
    BY Numbers DEF LiveInv, LiveTypeOK
  <1>2. /\ call' \in [Caller -> Call]
        /\ call'[c] = new
        /\ \A d \in Caller : d # c => call'[d] = call[d]
    BY DEF LiveInv, LiveTypeOK
  <1>3. \A p \in Pool : live[c][p] = NoRead
    BY DEF LiveInv, CallsKnow, CallKnows
  <1>4. CallKnows(c)'
    BY <1>1, <1>2, <1>3, Numbers DEF CallKnows
  <1> QED
    BY <1>2, <1>4, OneCall

-----------------------------------------------------------------------------
LEMMA BeginEnrichKeeps == ASSUME LiveInv, NEW c \in Caller, BeginEnrich(c) PROVE LiveInv'
  <1>1. /\ call[c] \in Call /\ now \in Time /\ now \in Nat /\ CallKnows(c)
        /\ \A p \in Pool : live[c][p] = NoRead
    BY Numbers DEF LiveInv, LiveTypeOK, CallsKnow, CallKnows, BeginEnrich
  <1>2. /\ call'[c] = [call[c] EXCEPT !.at = "enrich", !.began = now]
        /\ \A d \in Caller : d # c => call'[d] = call[d]
        /\ live' = live /\ now' = now
    BY DEF BeginEnrich, LiveInv, LiveTypeOK
  <1>3. call'[c] \in Call /\ call'[c].at = "enrich" /\ call'[c].began = now
            /\ call'[c].asked = call[c].asked
    BY <1>1, <1>2 DEF Call
  <1>4. CallKnows(c)'
    BY <1>1, <1>2, <1>3, Numbers DEF CallKnows
  <1>5. CallsKnow'
    BY <1>2, <1>4, OneCall
  <1>6. call' \in [Caller -> Call]
    BY <1>3 DEF BeginEnrich, LiveInv, LiveTypeOK
  <1>7. LiveTypeOK'
    BY <1>6 DEF BeginEnrich, LiveInv, LiveTypeOK
  <1> QED
    BY <1>5, <1>7 DEF BeginEnrich, LiveInv, PoolsKnow, AdviceKnows

\* One pool of one call moves on.
LEMMA OnePool ==
    ASSUME LiveInv, NEW c \in Caller, NEW p \in Pool, call[c].at = "enrich", NEW r \in Read,
           r.at = "decimals" => call[c].began <= r.time,
           r.time # Fallback => call[c].began < r.time + SnapshotTtl,
           live' = [live EXCEPT ![c][p] = r], call' = call, now' = now
    PROVE  CallsKnow' /\ live' \in [Caller -> [Pool -> Read]]
  <1>1. live \in [Caller -> [Pool -> Read]] /\ CallKnows(c)
    BY DEF LiveInv, LiveTypeOK, CallsKnow
  <1>2. /\ live' \in [Caller -> [Pool -> Read]]
        /\ live'[c][p] = r
        /\ \A q \in Pool : q # p => live'[c][q] = live[c][q]
        /\ \A d \in Caller : d # c => live'[d] = live[d]
    BY <1>1
  <1>3. CallKnows(c)'
    BY <1>1, <1>2 DEF CallKnows
  <1> QED
    BY <1>2, <1>3, OneCall

LEMMA LookupKeeps == ASSUME LiveInv, NEW c \in Caller, NEW p \in Pool, Lookup(c, p) PROVE LiveInv'
  <1> DEFINE held == pools[p].expires > call[c].began
             r == IF held THEN [at |-> "done", time |-> pools[p].time]
                  ELSE [at |-> "read", time |-> Fallback]
  <1>1. pools[p] \in Entry /\ call[c] \in Call /\ call[c].began \in Nat
    BY Numbers DEF LiveInv, LiveTypeOK, Call
  <1>2. r \in Read /\ r.at # "decimals"
    BY <1>1 DEF Read, Entry
  <1>3. r.time # Fallback => call[c].began < r.time + SnapshotTtl
    <2> SUFFICES ASSUME r.time # Fallback PROVE call[c].began < r.time + SnapshotTtl
      OBVIOUS
    <2>1. held /\ r.time = pools[p].time
      OBVIOUS
    <2>2. pools[p].expires <= pools[p].time + SnapshotTtl
      BY <2>1 DEF LiveInv, PoolsKnow
    <2>3. pools[p].time \in Int /\ pools[p].expires \in Int
      BY <1>1, Numbers DEF Entry
    <2> QED
      BY <2>1, <2>2, <2>3, <1>1, Numbers
  <1>4. live' = [live EXCEPT ![c][p] = r] /\ call' = call /\ now' = now /\ call[c].at = "enrich"
    BY DEF Lookup
  <1>5. CallsKnow' /\ live' \in [Caller -> [Pool -> Read]]
    BY <1>2, <1>3, <1>4, OnePool
  <1>6. /\ pools' \in [Pool -> Entry]
        /\ \A q \in Pool : pools'[q] = pools[q] \/ pools'[q] = NoEntry
    BY Numbers DEF Lookup, LiveInv, LiveTypeOK
  <1>7. PoolsKnow'
    BY <1>6 DEF LiveInv, PoolsKnow, NoEntry, Fallback
  <1>8. LiveTypeOK'
    BY <1>5, <1>6 DEF Lookup, LiveInv, LiveTypeOK
  <1> QED
    BY <1>5, <1>7, <1>8 DEF Lookup, LiveInv, AdviceKnows

LEMMA ReadPoolKeeps == ASSUME LiveInv, NEW c \in Caller, NEW p \in Pool, ReadPool(c, p) PROVE LiveInv'
  <1>1. now \in Time /\ now \in Nat /\ call[c].began <= now /\ call[c] \in Call /\ call[c].began \in Nat
    BY Numbers DEF LiveInv, LiveTypeOK, CallsKnow, CallKnows, Call
  <1>2. PICK answered \in BOOLEAN :
           live' = [live EXCEPT ![c][p] = IF answered THEN [at |-> "decimals", time |-> now]
                                          ELSE [at |-> "done", time |-> Fallback]]
    BY DEF ReadPool
  <1> DEFINE r == IF answered THEN [at |-> "decimals", time |-> now]
                  ELSE [at |-> "done", time |-> Fallback]
  <1>3. r \in Read
    BY <1>1 DEF Read
  <1>4. /\ r.at = "decimals" => call[c].began <= r.time
        /\ r.time # Fallback => call[c].began < r.time + SnapshotTtl
    BY <1>1, Numbers
  <1>5. call' = call /\ now' = now /\ call[c].at = "enrich"
    BY DEF ReadPool
  <1> HIDE DEF r
  <1>6. CallsKnow' /\ live' \in [Caller -> [Pool -> Read]]
    BY <1>2, <1>3, <1>4, <1>5, OnePool DEF r
  <1> QED
    BY <1>6 DEF ReadPool, LiveInv, LiveTypeOK, PoolsKnow, AdviceKnows

LEMMA StorePoolKeeps == ASSUME LiveInv, NEW c \in Caller, NEW p \in Pool, StorePool(c, p) PROVE LiveInv'
  <1>1. /\ live[c][p] \in Read /\ call[c] \in Call /\ CallKnows(c)
        /\ call[c].began \in Nat /\ live[c][p].time \in Int
        /\ call[c].at = "enrich" /\ live[c][p].at = "decimals"
    BY Numbers DEF StorePool, LiveInv, LiveTypeOK, CallsKnow, Call, Read, Fallback
  <1>2. call' = call /\ now' = now /\ advice' = advice /\ batch' = batch
    BY DEF StorePool
  <1>3. CASE /\ live' = [live EXCEPT ![c][p].at = "done"]
             /\ pools' = [pools EXCEPT ![p] = [time |-> live[c][p].time, expires |-> Expiry(c)]]
    <2> DEFINE r == [live[c][p] EXCEPT !.at = "done"]
               entry == [time |-> live[c][p].time, expires |-> Expiry(c)]
    <2>1. r \in Read /\ r.at = "done" /\ r.time = live[c][p].time
      BY <1>1 DEF Read
    <2>2. live' = [live EXCEPT ![c][p] = r]
      BY <1>3
    <2>3. r.time # Fallback => call[c].began < r.time + SnapshotTtl
      BY <1>1, <2>1 DEF CallKnows
    <2>4. CallsKnow' /\ live' \in [Caller -> [Pool -> Read]]
      BY <1>1, <1>2, <2>1, <2>2, <2>3, OnePool
    <2>5. entry \in Entry /\ entry.expires <= entry.time + SnapshotTtl
      BY <1>1, Numbers DEF Entry, Read, Expiry, CallKnows
    <2>6. pools' \in [Pool -> Entry] /\ \A q \in Pool : pools'[q] = pools[q] \/ pools'[q] = entry
      BY <1>3, <2>5 DEF LiveInv, LiveTypeOK
    <2>7. PoolsKnow'
      BY <2>5, <2>6 DEF LiveInv, PoolsKnow
    <2> QED
      BY <1>2, <2>4, <2>6, <2>7 DEF LiveInv, LiveTypeOK, AdviceKnows
  <1>4. CASE live' = [live EXCEPT ![c][p] = [at |-> "done", time |-> Fallback]] /\ pools' = pools
    <2>1. [at |-> "done", time |-> Fallback] \in Read
      BY DEF Read
    <2>2. CallsKnow' /\ live' \in [Caller -> [Pool -> Read]]
      BY <1>1, <1>2, <1>4, <2>1, OnePool
    <2> QED
      BY <1>2, <1>4, <2>2 DEF LiveInv, LiveTypeOK, PoolsKnow, AdviceKnows
  <1> QED
    BY <1>3, <1>4 DEF StorePool

LEMMA FailKeeps == ASSUME LiveInv, NEW c \in Caller, Fail(c) PROVE LiveInv'
  <1>1. Leave(c) /\ now' = now /\ pools' = pools /\ advice' = advice /\ batch' = batch
    BY DEF Fail
  <1> QED
    BY <1>1, LeaveKeeps DEF LiveInv, LiveTypeOK, PoolsKnow, AdviceKnows

LEMMA EnrichKeeps == ASSUME LiveInv, NEW c \in Caller, Enrich(c) PROVE LiveInv'
  BY BeginEnrichKeeps, LookupKeeps, ReadPoolKeeps, StorePoolKeeps DEF Enrich

LEMMA BeginSaveKeeps == ASSUME LiveInv, NEW c \in Saver, BeginSave(c) PROVE LiveInv'
  <1>1. PICK want \in SUBSET Position \ {{}} :
           call' = [call EXCEPT ![c] = [NoCall EXCEPT !.at = "enrich", !.began = now, !.want = want]]
    BY DEF BeginSave
  <1>2. c \in Caller /\ now \in Time /\ now \in Nat /\ live' = live /\ now' = now
    BY Numbers DEF BeginSave, LiveInv, LiveTypeOK
  <1>3. /\ call'[c] = [at |-> "enrich", caches |-> FALSE, asked |-> 0, began |-> now, want |-> want]
        /\ \A d \in Caller : d # c => call'[d] = call[d]
    BY <1>1, <1>2 DEF NoCall, LiveInv, LiveTypeOK
  <1>4. call'[c] \in Call
    BY <1>2, <1>3, Numbers DEF Call
  <1>5. call' \in [Caller -> Call]
    BY <1>1, <1>2, <1>4 DEF LiveInv, LiveTypeOK
  <1>6. \A p \in Pool : live[c][p] = NoRead
    BY <1>2 DEF BeginSave, LiveInv, CallsKnow, CallKnows
  <1>7. CallKnows(c)'
    BY <1>2, <1>3, <1>6, Numbers DEF CallKnows
  <1>8. CallsKnow'
    BY <1>2, <1>3, <1>7, OneCall
  <1> QED
    BY <1>5, <1>8 DEF BeginSave, LiveInv, LiveTypeOK, PoolsKnow, AdviceKnows

LEMMA EndSaveKeeps == ASSUME LiveInv, NEW c \in Saver, EndSave(c) PROVE LiveInv'
  <1>1. c \in Caller /\ Leave(c) /\ now' = now /\ pools' = pools /\ advice' = advice
    BY Numbers DEF EndSave
  <1>2. call[c].want \subseteq Position
    BY <1>1 DEF LiveInv, LiveTypeOK, Call
  <1>3. batch' \in [asked : SUBSET Position, saved : SUBSET Position]
    BY <1>2 DEF EndSave, ToSave, LiveInv, LiveTypeOK
  <1> QED
    BY <1>1, <1>3, LeaveKeeps DEF LiveInv, LiveTypeOK, PoolsKnow, AdviceKnows

LEMMA BeginReadKeeps ==
    ASSUME LiveInv, NEW c \in Viewer, NEW want \in SUBSET Position, BeginRead(c, want)
    PROVE  LiveInv'
  <1> DEFINE new == [NoCall EXCEPT !.at = "load", !.want = want]
  <1>1. new \in Call /\ new.at = "load" /\ new.began = 0 /\ new.asked = 0
    BY Numbers DEF NoCall, Call
  <1>2. call' = [call EXCEPT ![c] = new]
    BY DEF BeginRead
  <1> HIDE DEF new
  <1>3. c \in Caller /\ live' = live /\ now' = now /\ call[c].at = "idle" /\ now \in Nat
    BY Numbers DEF BeginRead, LiveInv, LiveTypeOK
  <1>4. new.asked <= now
    BY <1>1, <1>3
  <1>5. CallsKnow' /\ call' \in [Caller -> Call]
    BY <1>1, <1>2, <1>3, <1>4, BeginKeeps
  <1> QED
    BY <1>5 DEF BeginRead, LiveInv, LiveTypeOK, PoolsKnow, AdviceKnows

LEMMA ReadRouteKeeps == ASSUME LiveInv, NEW c \in Viewer, ReadRoute(c) PROVE LiveInv'
  <1>1. PICK want \in SUBSET Position : BeginRead(c, want)
    BY DEF ReadRoute, ListRoute, DetailRoute, DashboardRoute, PortfolioRoute, PreviewRoute
  <1> QED
    BY <1>1, BeginReadKeeps

LEMMA EndReadKeeps == ASSUME LiveInv, NEW c \in Viewer, EndRead(c) PROVE LiveInv'
  <1>1. c \in Caller /\ Leave(c) /\ UNCHANGED <<now, pools, advice, batch>>
    BY Numbers DEF EndRead
  <1> QED
    BY <1>1, LeaveKeeps DEF LiveInv, LiveTypeOK, PoolsKnow, AdviceKnows

LEMMA BeginViewKeeps == ASSUME LiveInv, NEW c \in Viewer, BeginView(c) PROVE LiveInv'
  <1>1. PICK s \in Position :
          /\ call' = [call EXCEPT ![c] = [NoCall EXCEPT !.at = "load", !.caches = TRUE, !.asked = now, !.want = {s}]]
          /\ advice' = [advice EXCEPT ![s] = NoEntry]
    BY DEF BeginView
  <1> DEFINE new == [NoCall EXCEPT !.at = "load", !.caches = TRUE, !.asked = now, !.want = {s}]
  <1>a. new \in Call /\ new.at = "load" /\ new.began = 0 /\ new.asked = now
    BY Numbers DEF NoCall, Call, LiveInv, LiveTypeOK
  <1>b. call' = [call EXCEPT ![c] = new]
    BY <1>1
  <1> HIDE DEF new
  <1>3. c \in Caller /\ live' = live /\ now' = now /\ call[c].at = "idle" /\ now \in Nat
    BY Numbers DEF BeginView, LiveInv, LiveTypeOK
  <1>4. CallsKnow' /\ call' \in [Caller -> Call]
    <2>1. new.asked <= now
      BY <1>a, <1>3
    <2> QED
      BY <2>1, <1>a, <1>b, <1>3, BeginKeeps
  <1>5. /\ advice' \in [Position -> Entry]
        /\ \A t \in Position : advice'[t] = advice[t] \/ advice'[t] = NoEntry
    BY <1>1, Numbers DEF LiveInv, LiveTypeOK
  <1>6. AdviceKnows'
    BY <1>5 DEF LiveInv, AdviceKnows, NoEntry, Fallback
  <1> QED
    BY <1>4, <1>5, <1>6 DEF BeginView, LiveInv, LiveTypeOK, PoolsKnow

LEMMA EndViewKeeps == ASSUME LiveInv, NEW c \in Viewer, EndView(c) PROVE LiveInv'
  <1>1. c \in Caller /\ Leave(c) /\ now' = now /\ pools' = pools /\ batch' = batch
            /\ call[c].at = "enrich"
    BY Numbers DEF EndView, Enriched
  <1>2. PICK s \in call[c].want :
          advice' = [advice EXCEPT ![s] = [time |-> TimeOf(c, s), expires |-> call[c].asked + StrategyTtl]]
    BY DEF EndView
  <1> DEFINE entry == [time |-> TimeOf(c, s), expires |-> call[c].asked + StrategyTtl]
  <1>3. s \in Position /\ PoolOf[s] \in Pool /\ call[c].asked \in Nat /\ call[c].began \in Nat
    BY <1>1, Numbers DEF LiveInv, LiveTypeOK, Call
  <1>4. live[c][PoolOf[s]] \in Read /\ CallKnows(c)
    BY <1>1, <1>3 DEF LiveInv, LiveTypeOK, CallsKnow
  <1>5. TimeOf(c, s) \in Time \cup {Fallback} /\ TimeOf(c, s) \in Int
    BY <1>4, Numbers DEF Read, TimeOf
  <1>6. entry \in Entry
    BY <1>3, <1>5, Numbers DEF Entry
  <1>7. entry.time # Fallback => entry.expires < entry.time + SnapshotTtl + StrategyTtl
    <2> SUFFICES ASSUME TimeOf(c, s) # Fallback
                 PROVE  call[c].asked + StrategyTtl < TimeOf(c, s) + SnapshotTtl + StrategyTtl
      OBVIOUS
    <2>1. call[c].began < TimeOf(c, s) + SnapshotTtl /\ call[c].asked <= call[c].began
      BY <1>1, <1>3, <1>4 DEF CallKnows, TimeOf
    <2> QED
      BY <2>1, <1>3, <1>5, Numbers
  <1>8. /\ advice' \in [Position -> Entry]
        /\ \A t \in Position : advice'[t] = advice[t] \/ advice'[t] = entry
    BY <1>2, <1>3, <1>6 DEF LiveInv, LiveTypeOK
  <1>9. AdviceKnows'
    BY <1>7, <1>8 DEF LiveInv, AdviceKnows
  <1> QED
    BY <1>1, <1>8, <1>9, LeaveKeeps DEF LiveInv, LiveTypeOK, PoolsKnow

LEMMA TickKeeps == ASSUME LiveInv, Tick PROVE LiveInv'
  <1>1. now' \in Time /\ now' \in Nat /\ now \in Nat /\ now <= now'
    BY Numbers DEF Tick, LiveInv, LiveTypeOK, Time
  <1>2. CallsKnow'
    <2> SUFFICES ASSUME NEW c \in Caller PROVE CallKnows(c)'
      BY DEF CallsKnow
    <2>1. call[c] \in Call /\ call[c].began \in Nat /\ call[c].asked \in Nat /\ CallKnows(c)
      BY Numbers DEF LiveInv, LiveTypeOK, CallsKnow, Call
    <2> QED
      BY <1>1, <2>1 DEF Tick, CallKnows
  <1> QED
    BY <1>1, <1>2 DEF Tick, LiveInv, LiveTypeOK, PoolsKnow, AdviceKnows

LEMMA LiveNextKeeps == ASSUME LiveInv, LiveNext PROVE LiveInv'
  BY EnrichKeeps, FailKeeps, BeginSaveKeeps, EndSaveKeeps, ReadRouteKeeps, EndReadKeeps, BeginViewKeeps,
     EndViewKeeps, TickKeeps, Numbers DEF LiveNext

LEMMA LiveStutters == ASSUME LiveInv, UNCHANGED liveVars PROVE LiveInv'
  BY DEF LiveInv, LiveTypeOK, CallsKnow, CallKnows, PoolsKnow, AdviceKnows, liveVars

LEMMA EvaluatorKeepsLive == ASSUME LiveInv, NEW e \in Evaluator, EvaluatorStep(e) PROVE LiveInv'
  <1>0. e \in Caller
    BY Numbers
  <1>1. CASE BeginEvaluate(e)
    <2> DEFINE new == [NoCall EXCEPT !.at = "load", !.want = Owned]
    <2>a. new \in Call /\ new.at = "load" /\ new.began = 0 /\ new.asked = 0
      BY Numbers, WorkerAssumption DEF NoCall, Call
    <2>b. call' = [call EXCEPT ![e] = new]
      BY <1>1 DEF BeginEvaluate
    <2> HIDE DEF new
    <2>2. live' = live /\ now' = now /\ call[e].at = "idle" /\ now \in Nat
      BY <1>1, Numbers DEF BeginEvaluate, LiveInv, LiveTypeOK
    <2>3. CallsKnow' /\ call' \in [Caller -> Call]
      <3>1. new.asked <= now
        BY <2>a, <2>2
      <3> QED
        BY <3>1, <1>0, <2>a, <2>b, <2>2, BeginKeeps
    <2> QED
      BY <1>1, <2>3 DEF BeginEvaluate, LiveInv, LiveTypeOK, PoolsKnow, AdviceKnows
  <1>2. CASE EnrichWallet(e)
    BY <1>0, <1>2, EnrichKeeps DEF EnrichWallet
  <1>3. CASE Abort(e)
    BY <1>0, <1>3, FailKeeps DEF Abort
  <1>4. CASE Take(e) \/ Evaluate(e) \/ EndJob(e) \/ Caught(e)
    BY <1>4, LiveStutters DEF Take, Evaluate, EndJob, Caught
  <1>5. CASE EndEvaluate(e)
    <2>1. Leave(e) /\ now' = now /\ pools' = pools /\ advice' = advice /\ batch' = batch
      BY <1>5 DEF EndEvaluate
    <2> QED
      BY <1>0, <2>1, LeaveKeeps DEF LiveInv, LiveTypeOK, PoolsKnow, AdviceKnows
  <1> QED
    BY <1>1, <1>2, <1>3, <1>4, <1>5 DEF EvaluatorStep

LEMMA LiveInitially == Init => LiveInv
  <1> SUFFICES ASSUME Init PROVE LiveInv
    OBVIOUS
  <1>1. LiveTypeOK
    BY Numbers DEF Init, LiveInit, LiveTypeOK, NoBatch
  <1>2. CallsKnow
    BY Numbers DEF Init, LiveInit, CallsKnow, CallKnows
  <1> QED
    BY <1>1, <1>2 DEF Init, LiveInit, LiveInv, PoolsKnow, AdviceKnows, NoEntry, Fallback

LEMMA LiveInvariant == Spec => []LiveInv
  <1>1. LiveInv /\ [Next]_vars => LiveInv'
    <2> SUFFICES ASSUME LiveInv, [Next]_vars PROVE LiveInv'
      OBVIOUS
    <2>1. CASE UNCHANGED vars
      BY <2>1, LiveStutters DEF vars
    <2> QED
      BY <2>1, EvaluatorKeepsLive, LiveNextKeeps DEF Next, ReaderStep
  <1> QED
    BY <1>1, LiveInitially, PTL DEF Spec

\* positions-live.ts and routes/positions.ts: whatever the reads took and however the
\* calls overlap, the ages that two caches in a row allow add up and no more.
THEOREM AnswersAlwaysRecent == Spec => []AnswersAreRecent
  <1>1. LiveInv => AnswersAreRecent
    <2> SUFFICES ASSUME LiveInv PROVE AnswersAreRecent
      OBVIOUS
    <2>1. PoolsAreRecent
      BY DEF LiveInv, CallsKnow, CallKnows, PoolsAreRecent
    <2>2. AdviceIsRecent
      <3> SUFFICES ASSUME NEW s \in Position, advice[s].expires > now, advice[s].time # Fallback
                   PROVE  now < advice[s].time + SnapshotTtl + StrategyTtl
        BY DEF AdviceIsRecent
      <3>1. advice[s] \in Entry /\ now \in Nat
        BY Numbers DEF LiveInv, LiveTypeOK
      <3>2. advice[s].time \in Int /\ advice[s].expires \in Int
        BY <3>1, Numbers DEF Entry
      <3>3. advice[s].expires < advice[s].time + SnapshotTtl + StrategyTtl
        BY DEF LiveInv, AdviceKnows
      <3> QED
        BY <3>1, <3>2, <3>3, Numbers
    <2> QED
      BY <2>1, <2>2 DEF AnswersAreRecent
  <1> QED
    BY <1>1, LiveInvariant, PTL
-----------------------------------------------------------------------------
(***************************************************************************)
(* The batch of snapshots.                                                 *)
(***************************************************************************)

LEMMA BatchKept == ASSUME BatchIsWhole, batch' = batch PROVE BatchIsWhole'
  BY DEF BatchIsWhole

LEMMA EnrichKeepsBatch == ASSUME NEW c, Enrich(c) PROVE batch' = batch
  BY DEF Enrich, BeginEnrich, Lookup, ReadPool, StorePool

LEMMA EndSaveKeepsBatch == ASSUME BatchIsWhole, NEW c \in Saver, EndSave(c) PROVE BatchIsWhole'
  <1>1. CASE batch' = batch
    BY <1>1, BatchKept
  <1>2. CASE Skipped(c) = {} /\ batch' = [asked |-> call[c].want, saved |-> ToSave(c)]
    <2>1. ToSave(c) = call[c].want
      BY <1>2 DEF Skipped, ToSave
    <2> QED
      BY <1>2, <2>1 DEF BatchIsWhole
  <1> QED
    BY <1>1, <1>2 DEF EndSave

\* save-onchain-snapshot.ts: a batch holds every position it was to hold; one pool that
\* could not be read keeps the whole batch out.
THEOREM BatchAlwaysWhole == Spec => []BatchIsWhole
  <1>1. Init => BatchIsWhole
    BY DEF Init, LiveInit, NoBatch, BatchIsWhole
  <1>2. BatchIsWhole /\ [Next]_vars => BatchIsWhole'
    <2> SUFFICES ASSUME BatchIsWhole, [Next]_vars PROVE BatchIsWhole'
      OBVIOUS
    <2>1. ASSUME NEW e \in Evaluator, EvaluatorStep(e) PROVE batch' = batch
      BY <2>1, EnrichKeepsBatch DEF EvaluatorStep, BeginEvaluate, EnrichWallet, Abort, Fail, Take,
         Evaluate, EndJob, Caught, EndEvaluate, liveVars
    <2>2. CASE LiveNext
      <3>1. \/ batch' = batch
            \/ \E c \in Saver : EndSave(c)
        BY <2>2, EnrichKeepsBatch DEF LiveNext, Fail, BeginSave, ReadRoute, ListRoute, DetailRoute,
           DashboardRoute, PortfolioRoute, PreviewRoute, BeginRead, EndRead, BeginView, EndView, Tick
      <3> QED
        BY <3>1, BatchKept, EndSaveKeepsBatch
    <2>3. CASE UNCHANGED vars
      BY <2>3, BatchKept DEF vars, liveVars
    <2> QED
      BY <2>1, <2>2, <2>3, BatchKept DEF Next, ReaderStep
  <1> QED
    BY <1>1, <1>2, PTL DEF Spec

-----------------------------------------------------------------------------
(***************************************************************************)
(* What the worker asks for.                                               *)
(***************************************************************************)

\* What the properties say of one job.
JobIsSound(j) ==
    /\ j.kind # "none" => ~j.fallback
    /\ j.kind = "rebalance" /\ j.cooling => j.severe
JobsAreSound == \A e \in Evaluator : JobIsSound(job[e])

JobInv == job \in [Evaluator -> Job] /\ JobsAreSound

LEMMA NoJobIsSound == NoJob \in Job /\ JobIsSound(NoJob)
  BY DEF NoJob, Job, JobKind, JobIsSound

\* Nothing known means no opportunity, no fees, and the gas to pay.
LEMMA UnknownPays == ASSUME NEW state PROVE Net(Unknown, state) = -800 /\ ~Unknown.known
  BY SMTT(30) DEF Net, Opportunity, Unknown, GasCost, AtLeast, Round

\* The worker knows of no impermanent loss.
LEMMA NoLossSeen == ASSUME NEW size PROVE ~LossSeen(size).rebalance /\ ~LossSeen(size).exit
  <1> DEFINE little == 10 * size.fees < 12 * 0
             less == 10 * size.fees < 8 * 0
  <1>1. LossSeen(size) = [rebalance |-> 0 > 0 /\ little, exit |-> 0 > 0 /\ less]
    BY Zenon DEF LossSeen, Il
  <1>2. (0 > 0) = FALSE
    OBVIOUS
  <1> HIDE DEF little, less
  <1>3. LossSeen(size) = [rebalance |-> FALSE, exit |-> FALSE]
    BY <1>1, <1>2, Zenon
  <1> QED
    BY <1>3

\* During the cooldown only the severe way to rebalance is open.
LEMMA OnlySevereWhileCooling ==
    ASSUME NEW mode, NEW outside \in BOOLEAN, NEW severe \in BOOLEAN, NEW net, NEW state, NEW size,
           ShouldRebalance(mode, outside, severe, TRUE, net, state, LossSeen(size))
    PROVE  severe
  <1> SUFFICES ASSUME ~severe PROVE FALSE
    OBVIOUS
  <1>1. "COOLDOWN_ACTIVE" \in Against(mode, outside, severe, TRUE, net, state, LossSeen(size))
    BY DEF Against
  <1> QED
    BY <1>1, NoLossSeen DEF ShouldRebalance

LEMMA AskedIsSound ==
    ASSUME NEW e \in Evaluator, NEW s \in Owned, NEW sample, NEW size \in Known(e, s), NEW bias
    PROVE  Asked(e, s, sample, size, bias) \in Job /\ JobIsSound(Asked(e, s, sample, size, bias))
  <1> DEFINE p == seen[e][s]
             pool == PoolFacts[PoolOf[s]]
             tick == TickOf(e, s)
             state == Detect(sample)
             proposed == Propose(p.mode, pool, tick, PriceOf(e, s), state, sample.volatility, bias)
             severe == Severe(tick, Range[s], proposed)
             net == Net(size, state)
             wanted == ShouldRebalance(p.mode, OutOfRange(tick, Range[s]), severe,
                                       Cooling(p, size), net, state, LossSeen(size))
             rebalance == [kind |-> "rebalance", fallback |-> IsFallback(e, s),
                           cooling |-> Cooling(p, size), severe |-> severe,
                           shows |-> ShowsTick(e, s), holds |-> ~OutOfRange(tick, proposed)]
             compound == [NoJob EXCEPT !.kind = "compound", !.fallback = IsFallback(e, s)]
  <1>a. IsFallback(e, s) \in BOOLEAN /\ ShowsTick(e, s) \in BOOLEAN
    BY DEF IsFallback, ShowsTick
  <1>b. Cooling(p, size) \in BOOLEAN
    BY DEF Cooling
  <1>c. severe \in BOOLEAN
    BY DEF Severe
  <1>d. OutOfRange(tick, Range[s]) \in BOOLEAN
    BY DEF OutOfRange
  <1>e. OutOfRange(tick, proposed) \in BOOLEAN
    BY DEF OutOfRange
  <1>0. /\ IsFallback(e, s) \in BOOLEAN /\ Cooling(p, size) \in BOOLEAN
        /\ severe \in BOOLEAN /\ OutOfRange(tick, Range[s]) \in BOOLEAN
        /\ OutOfRange(tick, proposed) \in BOOLEAN /\ ShowsTick(e, s) \in BOOLEAN
    BY <1>a, <1>b, <1>c, <1>d, <1>e
  <1>1. IsFallback(e, s) => size = Unknown
    BY DEF Known
  <1>2. ASSUME MayRebalance(p, wanted, net) PROVE rebalance \in Job /\ JobIsSound(rebalance)
    <2>1. rebalance \in Job
      BY <1>0 DEF Job, JobKind
    <2>2. ~IsFallback(e, s)
      <3> SUFFICES ASSUME IsFallback(e, s) PROVE FALSE
        OBVIOUS
      <3>1. net = -800
        BY <1>1, UnknownPays
      <3>2. net >= MinimumBenefit /\ MinimumBenefit \in Nat
        BY <1>2, WorkerAssumption DEF MayRebalance
      <3> HIDE DEF net
      <3> QED
        BY <3>1, <3>2
    <2>3. Cooling(p, size) => severe
      <3> SUFFICES ASSUME Cooling(p, size) PROVE severe
        OBVIOUS
      <3>1. Cooling(p, size) = TRUE
        BY <1>0
      <3>2. wanted
        BY <1>2 DEF MayRebalance
      <3>3. ShouldRebalance(p.mode, OutOfRange(tick, Range[s]), severe, TRUE, net, state,
                            LossSeen(size))
        BY <3>1, <3>2
      <3> HIDE DEF severe, net, state, tick
      <3> QED
        BY <1>0, <3>3, OnlySevereWhileCooling
    <2> QED
      BY <2>1, <2>2, <2>3 DEF JobIsSound
  <1>3. ASSUME MayCompound(p, size) PROVE compound \in Job /\ JobIsSound(compound)
    <2>1. ~IsFallback(e, s)
      BY <1>1, <1>3, UnknownPays DEF MayCompound
    <2>2. NoJob \in Job /\ "compound" \in JobKind
      BY NoJobIsSound DEF JobKind
    <2>3. compound \in Job /\ compound.kind = "compound" /\ compound.fallback = IsFallback(e, s)
      BY <1>a, <2>2 DEF Job
    <2> HIDE DEF compound
    <2> QED
      BY <2>1, <2>3 DEF JobIsSound
  <1>4. Asked(e, s, sample, size, bias) =
          IF ~Rejected(pool.tier, Range[s]) /\ MayRebalance(p, wanted, net) THEN rebalance
          ELSE IF MayCompound(p, size) THEN compound ELSE NoJob
    BY DEF Asked
  <1> HIDE DEF p, pool, tick, state, proposed, severe, net, wanted, rebalance, compound
  <1> QED
    BY <1>2, <1>3, <1>4, NoJobIsSound

\* One evaluation has another job in its hands.
LEMMA OneJob ==
    ASSUME JobInv, NEW e \in Evaluator, NEW j \in Job, JobIsSound(j), job' = [job EXCEPT ![e] = j]
    PROVE  JobInv'
  <1>1. job' \in [Evaluator -> Job] /\ \A d \in Evaluator : job'[d] = job[d] \/ job'[d] = j
    BY DEF JobInv
  <1>2. JobsAreSound'
    BY <1>1 DEF JobInv, JobsAreSound, JobIsSound
  <1> QED
    BY <1>1, <1>2 DEF JobInv

\* The position in work is one of the wallet's.
TurnInv == turn \in [Evaluator -> [at : {"next", "evaluate", "execute"}, positions : SUBSET Owned]]
               /\ todo \in [Evaluator -> SUBSET Owned]

LEMMA EvaluatorKeepsTurn == ASSUME TurnInv, NEW e \in Evaluator, EvaluatorStep(e) PROVE TurnInv'
  <1>0. NoTurn \in [at : {"next", "evaluate", "execute"}, positions : SUBSET Owned]
    BY DEF NoTurn
  <1>1. CASE BeginEvaluate(e)
    BY <1>1 DEF BeginEvaluate, TurnInv
  <1>2. CASE EnrichWallet(e)
    BY <1>2 DEF EnrichWallet, TurnInv, workerVars
  <1>3. CASE Abort(e) \/ EndEvaluate(e)
    BY <1>0, <1>3 DEF Abort, EndEvaluate, Forget, TurnInv
  <1>4. CASE Take(e)
    <2>1. PICK s \in todo[e] :
            /\ todo' = [todo EXCEPT ![e] = @ \ {s}]
            /\ \/ turn' = [turn EXCEPT ![e] = [at |-> "evaluate", positions |-> {s}]]
               \/ turn' = turn
      BY <1>4 DEF Take
    <2>2. {s} \in SUBSET Owned
      BY <2>1 DEF TurnInv
    <2>3. [at |-> "evaluate", positions |-> {s}] \in
            [at : {"next", "evaluate", "execute"}, positions : SUBSET Owned]
      BY <2>2
    <2>4. todo' \in [Evaluator -> SUBSET Owned]
      BY <2>1 DEF TurnInv
    <2> QED
      BY <2>1, <2>3, <2>4 DEF TurnInv
  <1>5. CASE Evaluate(e)
    <2>1. /\ todo' = todo
          /\ turn' = [turn EXCEPT ![e] = NoTurn] \/ turn' = [turn EXCEPT ![e].at = "execute"]
      BY <1>5 DEF Evaluate
    <2> QED
      BY <1>0, <2>1 DEF TurnInv
  <1>6. CASE EndJob(e) \/ Caught(e)
    BY <1>0, <1>6 DEF EndJob, Caught, TurnInv
  <1> QED
    BY <1>1, <1>2, <1>3, <1>4, <1>5, <1>6 DEF EvaluatorStep

LEMMA EvaluatorKeepsJob == ASSUME TurnInv, JobInv, NEW e \in Evaluator, EvaluatorStep(e) PROVE JobInv'
  <1>1. CASE BeginEvaluate(e) \/ EnrichWallet(e) \/ Take(e)
    BY <1>1 DEF BeginEvaluate, EnrichWallet, Take, workerVars, JobInv, JobsAreSound
  <1>2. CASE Abort(e) \/ EndJob(e) \/ Caught(e) \/ EndEvaluate(e)
    <2>1. job' = [job EXCEPT ![e] = NoJob]
      BY <1>2 DEF Abort, EndJob, Caught, EndEvaluate, Forget
    <2> QED
      BY <2>1, NoJobIsSound, OneJob
  <1>3. CASE Evaluate(e)
    <2>0. PICK s \in turn[e].positions, sample \in Sample :
            \E size \in Known(e, s), bias \in Bias(Detect(sample)) :
              /\ job' = [job EXCEPT ![e] = Asked(e, s, sample, size, bias)]
              /\ turn' = IF Asked(e, s, sample, size, bias) = NoJob THEN [turn EXCEPT ![e] = NoTurn]
                         ELSE [turn EXCEPT ![e].at = "execute"]
      BY <1>3 DEF Evaluate
    <2>1. PICK size \in Known(e, s), bias \in Bias(Detect(sample)) :
            job' = [job EXCEPT ![e] = Asked(e, s, sample, size, bias)]
      BY <2>0
    <2>2. s \in Owned
      BY <2>0 DEF TurnInv
    <2>3. Asked(e, s, sample, size, bias) \in Job /\ JobIsSound(Asked(e, s, sample, size, bias))
      BY <2>1, <2>2, AskedIsSound
    <2> QED
      BY <2>1, <2>3, OneJob
  <1> QED
    BY <1>1, <1>2, <1>3 DEF EvaluatorStep

LEMMA JobInvariant == Spec => [](TurnInv /\ JobInv)
  <1>1. Init => TurnInv /\ JobInv
    BY NoJobIsSound DEF Init, TurnInv, JobInv, JobsAreSound, NoTurn
  <1>2. TurnInv /\ JobInv /\ [Next]_vars => (TurnInv /\ JobInv)'
    <2> SUFFICES ASSUME TurnInv, JobInv, [Next]_vars PROVE (TurnInv /\ JobInv)'
      OBVIOUS
    <2>1. CASE UNCHANGED workerVars
      BY <2>1 DEF workerVars, TurnInv, JobInv, JobsAreSound
    <2>2. ASSUME NEW e \in Evaluator, EvaluatorStep(e) PROVE (TurnInv /\ JobInv)'
      BY <2>2, EvaluatorKeepsTurn, EvaluatorKeepsJob
    <2> QED
      BY <2>1, <2>2 DEF Next, ReaderStep, vars
  <1> QED
    BY <1>1, <1>2, PTL DEF Spec

\* worker.ts: no job rests on a pool that could not be read, although the worker never
\* looks at liveStateSource, whatever the minimums of the configuration.
THEOREM FallbackAlwaysUntraded == Spec => []FallbackNeverTraded
  <1>1. JobInv => FallbackNeverTraded
    BY DEF JobInv, JobsAreSound, JobIsSound, FallbackNeverTraded
  <1> QED
    BY <1>1, JobInvariant, PTL

\* rebalance-decision-engine.ts: during the cooldown a rebalance is asked for only when
\* the range is left severely.
THEOREM CooldownAlwaysHolds == Spec => []CooldownHolds
  <1>1. JobInv => CooldownHolds
    BY DEF JobInv, JobsAreSound, JobIsSound, CooldownHolds
  <1> QED
    BY <1>1, JobInvariant, PTL

-----------------------------------------------------------------------------
(***************************************************************************)
(* The policies an evaluation has read.                                    *)
(***************************************************************************)
SeenInv == seen \in [Evaluator -> [Owned -> {NoPolicy} \cup PolicyChoice]]

LEMMA EvaluatorKeepsSeen == ASSUME SeenInv, NEW e \in Evaluator, EvaluatorStep(e) PROVE SeenInv'
  <1>0. [s \in Owned |-> NoPolicy] \in [Owned -> {NoPolicy} \cup PolicyChoice]
    OBVIOUS
  <1>1. CASE BeginEvaluate(e)
    BY <1>1 DEF BeginEvaluate, SeenInv
  <1>2. CASE EnrichWallet(e) \/ Take(e) \/ Evaluate(e) \/ EndJob(e) \/ Caught(e)
    BY <1>2 DEF EnrichWallet, Take, Evaluate, EndJob, Caught, workerVars, SeenInv
  <1>3. CASE Abort(e) \/ EndEvaluate(e)
    BY <1>0, <1>3 DEF Abort, EndEvaluate, Forget, SeenInv
  <1> QED
    BY <1>1, <1>2, <1>3 DEF EvaluatorStep

LEMMA SeenInvariant == Spec => []SeenInv
  <1>1. Init => SeenInv
    BY DEF Init, SeenInv
  <1>2. SeenInv /\ [Next]_vars => SeenInv'
    BY EvaluatorKeepsSeen DEF Next, ReaderStep, vars, workerVars, SeenInv
  <1> QED
    BY <1>1, <1>2, PTL DEF Spec

-----------------------------------------------------------------------------
(***************************************************************************)
(* Why the proposed range holds the tick: rounding moves a bound outwards, *)
(* clamping never moves it past a tick that a pool may have, and half of   *)
(* the width is more than the bias.                                        *)
(***************************************************************************)
PoolTick == MinTick .. MaxTick - 1

LEMMA TickBounds == MinTick \in Int /\ MaxTick \in Int /\ MinTick < MaxTick
  <1>1. MinTick \in Int /\ MinTick < 0
    BY SMTT(10) DEF MinTick
  <1>2. MaxTick \in Int /\ 0 < MaxTick
    BY SMTT(10) DEF MaxTick
  <1> QED
    BY SMTT(20), <1>1, <1>2

LEMMA PoolTickOK == ASSUME NEW tick \in PoolTick
                    PROVE  tick \in Int /\ MinTick <= tick /\ tick < MaxTick
  BY TickBounds DEF PoolTick

LEMMA SpacingOK == ASSUME NEW tier \in Supported PROVE TickSpacing(tier) \in {1, 10, 60, 200}
  BY SMTT(20) DEF Supported, TickSpacing

\* floorToUsableTick: what it returns is a tick, and no pool's tick that was not below its
\* argument is below it.
LEMMA FloorBelow ==
    ASSUME NEW tick \in Int, NEW spacing \in {1, 10, 60, 200}
    PROVE  /\ FloorToUsable(tick, spacing) \in MinTick .. MaxTick
           /\ \A t \in PoolTick : tick <= t => FloorToUsable(tick, spacing) <= t
  <1> DEFINE floored == (tick \div spacing) * spacing
  <1>1. floored \in Int /\ floored <= tick
    <2>1. CASE spacing = 1
      BY SMTT(20), <2>1
    <2>2. CASE spacing = 10
      BY SMTT(20), <2>2
    <2>3. CASE spacing = 60
      BY SMTT(20), <2>3
    <2>4. CASE spacing = 200
      BY SMTT(20), <2>4
    <2> QED
      BY SMTT(20), <2>1, <2>2, <2>3, <2>4
  <1> HIDE DEF floored
  <1>2. FloorToUsable(tick, spacing) = Clamp(floored, MinTick, MaxTick)
    BY SMTT(20) DEF FloorToUsable, floored
  <1> QED
    BY SMTT(20), <1>1, <1>2, TickBounds, PoolTickOK DEF Clamp, AtLeast, AtMost

\* ceilToUsableTick: what it returns is a tick, and every pool's tick below its argument
\* is below it.
LEMMA CeilAbove ==
    ASSUME NEW tick \in Int, NEW spacing \in {1, 10, 60, 200}
    PROVE  /\ CeilToUsable(tick, spacing) \in MinTick .. MaxTick
           /\ \A t \in PoolTick : t < tick => t < CeilToUsable(tick, spacing)
  <1> DEFINE ceiled == -((-tick) \div spacing) * spacing
  <1>1. ceiled \in Int /\ tick <= ceiled
    <2>1. CASE spacing = 1
      BY SMTT(20), <2>1
    <2>2. CASE spacing = 10
      BY SMTT(20), <2>2
    <2>3. CASE spacing = 60
      BY SMTT(20), <2>3
    <2>4. CASE spacing = 200
      BY SMTT(20), <2>4
    <2> QED
      BY SMTT(20), <2>1, <2>2, <2>3, <2>4
  <1> HIDE DEF ceiled
  <1>2. CeilToUsable(tick, spacing) = Clamp(ceiled, MinTick, MaxTick)
    BY SMTT(20) DEF CeilToUsable, ceiled
  <1> QED
    BY SMTT(20), <1>1, <1>2, TickBounds, PoolTickOK DEF Clamp, AtLeast, AtMost

\* A range around a tick, so wide that it begins at the tick or before and ends after it.
LEMMA AroundHolds ==
    ASSUME NEW tier \in Supported, NEW centre \in Int, NEW half \in Int, NEW tick \in PoolTick,
           centre - half <= tick, tick < centre + half
    PROVE  ~OutOfRange(tick, Around(centre, half, tier))
  <1> DEFINE range == Around(centre, half, tier)
  <1>1. /\ range.lower = FloorToUsable(centre - half, TickSpacing(tier))
        /\ range.upper = CeilToUsable(centre + half, TickSpacing(tier))
    BY DEF Around, Normalize
  <1> HIDE DEF range
  <1>a. centre - half \in Int /\ centre + half \in Int /\ TickSpacing(tier) \in {1, 10, 60, 200}
    BY SpacingOK
  <1>2. range.lower \in Int /\ range.lower <= tick
    BY <1>1, <1>a, FloorBelow, TickBounds
  <1>3. range.upper \in Int /\ tick < range.upper
    BY <1>1, <1>a, CeilAbove, TickBounds
  <1>4. tick \in Int
    BY PoolTickOK
  <1>5. ~OutOfRange(tick, range)
    BY <1>2, <1>3, <1>4 DEF OutOfRange
  <1> QED
    BY <1>5 DEF range

State == {"LOW_LIQUIDITY", "HIGH_VOLATILITY", "UP_TREND", "DOWN_TREND", "RANGE", "UNKNOWN"}
Trend == {"UP_TREND", "DOWN_TREND"}

LEMMA DetectOK == ASSUME NEW sample PROVE Detect(sample) \in State
  BY DEF Detect, State

\* What is multiplied and divided in clampedWidth, for a trend.
LEMMA TrendWidth ==
    ASSUME NEW base \in {500, 800}, NEW multiplier \in {72, 100, 140}, NEW factor \in Int, factor >= 1000
    PROVE  /\ (base * multiplier * factor) \div 100000 \in Int
           /\ (base * multiplier * factor) \div 100000 >= 360
  <1>1. base * multiplier \in Int /\ base * multiplier >= 36000
    BY SMTT(20)
  <1> DEFINE product == base * multiplier
             whole == product * factor
  <1>2. whole \in Int /\ whole >= 36000000
    <2>1. product \in Int /\ product >= 36000
      BY SMTT(20), <1>1
    <2> HIDE DEF product
    <2>2. product * factor >= 36000 * 1000
      BY SMTT(20), <2>1
    <2> QED
      BY SMTT(20), <2>1, <2>2
  <1> HIDE DEF whole
  <1>3. whole \div 100000 \in Int /\ whole \div 100000 >= 360
    BY SMTT(20), <1>2
  <1> QED
    BY SMTT(20), <1>3 DEF whole

\* The sensitivity of a mode widens the range, whatever the volatility.
LEMMA FactorOK ==
    ASSUME NEW mode \in Mode, NEW volatility \in Nat
    PROVE  /\ 1000 + (volatility * Sensitivity[mode] * 5) \div 1000 \in Int
           /\ 1000 + (volatility * Sensitivity[mode] * 5) \div 1000 >= 1000
  <1>1. Sensitivity[mode] \in {80, 100, 120}
    BY SMTT(20) DEF Sensitivity, Mode
  <1> QED
    BY SMTT(20), <1>1

\* clampedWidth is at least 1%, and 3.6% in a trend.
LEMMA WidthOK ==
    ASSUME NEW mode \in Mode, NEW state \in State, NEW class \in PairClass, NEW volatility \in Nat
    PROVE  /\ Width(mode, state, class, volatility) \in Int
           /\ Width(mode, state, class, volatility) >= 100
           /\ state \in Trend => Width(mode, state, class, volatility) >= 360
  <1> DEFINE factor == 1000 + (volatility * Sensitivity[mode] * 5) \div 1000
             wanted == (BaseWidth(state, class) * WidthMultiplier[mode] * factor) \div 100000
  <1>1. factor \in Int /\ factor >= 1000
    BY SMTT(20), FactorOK
  <1>2. WidthMultiplier[mode] \in {72, 100, 140}
    BY SMTT(20) DEF WidthMultiplier, Mode
  <1>3. /\ BaseWidth(state, class) \in Int
        /\ state \in Trend => BaseWidth(state, class) \in {500, 800}
    BY SMTT(20) DEF BaseWidth, State, Trend, PairClass
  <1> HIDE DEF factor
  <1>4. wanted \in Int
    <2>1. BaseWidth(state, class) * WidthMultiplier[mode] * factor \in Int
      BY SMTT(20), <1>1, <1>2, <1>3
    <2> QED
      BY SMTT(20), <2>1
  <1>5. state \in Trend => wanted >= 360
    BY SMTT(20), <1>1, <1>2, <1>3, TrendWidth
  <1>6. Width(mode, state, class, volatility) =
          IF class = "STABLE" THEN Clamp(wanted, 100, 1500) ELSE Clamp(wanted, 200, 3500)
    BY SMTT(20) DEF Width, factor
  <1> HIDE DEF wanted
  <1> QED
    BY SMTT(20), <1>4, <1>5, <1>6 DEF Clamp, AtLeast, AtMost

\* rawHalfWidthTicks is 50 at least for a width of 1%, and 180 for one of 3.6%.
LEMMA HalfTicksOK ==
    ASSUME NEW width \in Int, width >= 100, NEW spacing \in {1, 10, 60, 200}
    PROVE  /\ HalfTicks(width, spacing) \in Int
           /\ HalfTicks(width, spacing) >= 50
           /\ width >= 360 => HalfTicks(width, spacing) >= 180
  <1>1. CASE spacing = 1
    BY SMTT(20), <1>1 DEF HalfTicks, AtLeast, Round
  <1>2. CASE spacing = 10
    BY SMTT(20), <1>2 DEF HalfTicks, AtLeast, Round
  <1>3. CASE spacing = 60
    BY SMTT(20), <1>3 DEF HalfTicks, AtLeast, Round
  <1>4. CASE spacing = 200
    BY SMTT(20), <1>4 DEF HalfTicks, AtLeast, Round
  <1> QED
    BY SMTT(20), <1>1, <1>2, <1>3, <1>4

\* propose, with a price that shows the tick: 8 decimals and bias together move the centre
\* by less than half of the width.
LEMMA ProposeHolds ==
    ASSUME NEW mode \in Mode, NEW pool, pool.tier \in Supported, pool.class \in PairClass,
           NEW tick \in PoolTick, NEW price, price.kind = "price", price.tick \in Int,
           price.tick - tick \in -10..10, NEW state \in State, NEW volatility \in Nat,
           NEW bias \in Bias(state)
    PROVE  ~OutOfRange(tick, Propose(mode, pool, tick, price, state, volatility, bias))
  <1> DEFINE width == Width(mode, state, pool.class, volatility)
             half == HalfTicks(width, TickSpacing(pool.tier))
             centre == price.tick + bias
  <1>1. /\ width \in Int /\ width >= 100 /\ (state \in Trend => width >= 360)
        /\ TickSpacing(pool.tier) \in {1, 10, 60, 200}
    BY WidthOK, SpacingOK
  <1> HIDE DEF width
  <1>2. half \in Int /\ half >= 50 /\ (state \in Trend => half >= 180)
    BY <1>1, HalfTicksOK
  <1>3. bias \in -121 .. 120 /\ (state \notin Trend => bias = 0)
    BY DEF Bias, State, Trend
  <1>4. tick \in Int
    BY PoolTickOK
  <1>5. Propose(mode, pool, tick, price, state, volatility, bias) = Around(centre, half, pool.tier)
    BY DEF Propose, width
  <1> HIDE DEF half
  <1>6. centre \in Int /\ centre - half <= tick /\ tick < centre + half
    BY <1>2, <1>3, <1>4
  <1> HIDE DEF centre
  <1>7. ~OutOfRange(tick, Around(centre, half, pool.tier))
    BY <1>2, <1>6, AroundHolds
  <1> QED
    BY <1>5, <1>7, Zenon

\* What is asked for, when it is to rebalance a pool whose price shows its tick.
HoldsTick(j) == j.kind = "rebalance" /\ j.shows => j.holds
HoldsInv == ProposalHoldsTick

LEMMA PoolOK == ASSUME NEW s \in Owned
                PROVE  /\ PoolOf[s] \in Pool
                       /\ PoolFacts[PoolOf[s]] \in [tier : Nat, class : PairClass, decimals : Int]
  BY LiveAssumption, WorkerAssumption

\* A tick that was read is one that a pool may have.
LEMMA TickRead ==
    ASSUME LiveInv, NEW e \in Evaluator, NEW s \in Owned, ~IsFallback(e, s)
    PROVE  TickOf(e, s) \in PoolTick
  <1>1. live[e][PoolOf[s]] \in Read
    BY PoolOK, Numbers DEF LiveInv, LiveTypeOK
  <1>2. TimeOf(e, s) \in Time
    BY <1>1 DEF IsFallback, TimeOf, Read
  <1> QED
    BY <1>2, PoolOK, WorkerAssumption DEF TickOf, PoolTick

\* In the pool's order, with even decimals and from 0.00001 on, the displayed price is that
\* of the tick but for the eight decimals.
LEMMA PriceShown ==
    ASSUME LiveInv, NEW e \in Evaluator, NEW s \in Owned, ShowsTick(e, s)
    PROVE  /\ PriceOf(e, s).kind = "price" /\ PriceOf(e, s).tick \in Int
           /\ PriceOf(e, s).tick - TickOf(e, s) \in -10..10
  <1> DEFINE p == PoolOf[s]
             t == TimeOf(e, s)
  <1>1. live[e][p] \in Read /\ p \in Pool
    BY PoolOK, Numbers DEF LiveInv, LiveTypeOK
  <1>2. t \in Time
    BY <1>1 DEF ShowsTick, IsFallback, TimeOf, Read
  <1>3. PriceOf(e, s) = PoolPrice[p][t] /\ TickOf(e, s) = TickAt[p][t] /\ TickAt[p][t] >= FirstShown
    BY DEF PriceOf, TickOf, ShowsTick
  <1>4. PoolPrice[p][t] \in Price /\ TickAt[p][t] \in PoolTick
    BY <1>1, <1>2, WorkerAssumption DEF PoolTick
  <1>5. Shows(PoolPrice[p][t], TickOfPrice(TickAt[p][t], PoolFacts[p].decimals))
    BY <1>1, <1>2, WorkerAssumption
  <1>6. TickOfPrice(TickAt[p][t], PoolFacts[p].decimals) = TickAt[p][t]
    BY <1>4, PoolTickOK DEF TickOfPrice, ShowsTick
  <1>7. PoolPrice[p][t].kind = "price" /\ PoolPrice[p][t].tick - TickAt[p][t] \in -10..10
    BY <1>3, <1>5, <1>6 DEF Shows
  <1>8. PoolPrice[p][t].tick \in Int
    BY <1>4 DEF Price
  <1> QED
    BY <1>3, <1>7, <1>8

LEMMA ModeSeen == ASSUME SeenInv, NEW e \in Evaluator, NEW s \in Owned PROVE seen[e][s].mode \in Mode
  <1>1. NoPolicy.mode \in Mode
    BY DEF NoPolicy, Mode
  <1>2. \A p \in PolicyChoice : p.mode \in Mode
    BY WorkerAssumption
  <1>3. seen[e][s] \in {NoPolicy} \cup PolicyChoice
    BY DEF SeenInv
  <1> QED
    BY <1>1, <1>2, <1>3

LEMMA AskedHolds ==
    ASSUME LiveInv, SeenInv, NEW e \in Evaluator, NEW s \in Owned, NEW sample \in Sample, NEW size,
           NEW bias \in Bias(Detect(sample))
    PROVE  HoldsTick(Asked(e, s, sample, size, bias))
  <1> DEFINE p == seen[e][s]
             pool == PoolFacts[PoolOf[s]]
             tick == TickOf(e, s)
             state == Detect(sample)
             proposed == Propose(p.mode, pool, tick, PriceOf(e, s), state, sample.volatility, bias)
             severe == Severe(tick, Range[s], proposed)
             net == Net(size, state)
             wanted == ShouldRebalance(p.mode, OutOfRange(tick, Range[s]), severe,
                                       Cooling(p, size), net, state, LossSeen(size))
             rebalance == [kind |-> "rebalance", fallback |-> IsFallback(e, s),
                           cooling |-> Cooling(p, size), severe |-> severe,
                           shows |-> ShowsTick(e, s), holds |-> ~OutOfRange(tick, proposed)]
             compound == [NoJob EXCEPT !.kind = "compound", !.fallback = IsFallback(e, s)]
  <1>1. ASSUME ~Rejected(pool.tier, Range[s]), ShowsTick(e, s)
        PROVE  ~OutOfRange(tick, proposed)
    <2>1. tick \in PoolTick
      BY <1>1, TickRead DEF ShowsTick
    <2>2. pool.class \in PairClass /\ pool.tier \in Supported
      BY <1>1, PoolOK DEF Rejected
    <2>3. sample.volatility \in Nat /\ state \in State /\ p.mode \in Mode
      BY WorkerAssumption, DetectOK, ModeSeen
    <2>4. /\ PriceOf(e, s).kind = "price" /\ PriceOf(e, s).tick \in Int
          /\ PriceOf(e, s).tick - tick \in -10..10
      BY <1>1, PriceShown
    <2> HIDE DEF pool, tick, p
    <2> QED
      BY <2>1, <2>2, <2>3, <2>4, ProposeHolds
  <1>2. Asked(e, s, sample, size, bias) =
          IF ~Rejected(pool.tier, Range[s]) /\ MayRebalance(p, wanted, net) THEN rebalance
          ELSE IF MayCompound(p, size) THEN compound ELSE NoJob
    BY DEF Asked
  <1> HIDE DEF p, pool, tick, state, proposed, severe, net, wanted
  <1>3. ~Rejected(pool.tier, Range[s]) => HoldsTick(rebalance)
    BY <1>1 DEF HoldsTick
  <1>4. HoldsTick(compound) /\ HoldsTick(NoJob)
    BY DEF HoldsTick, NoJob
  <1> HIDE DEF rebalance, compound
  <1> QED
    BY <1>2, <1>3, <1>4

LEMMA EvaluatorKeepsHolds ==
    ASSUME LiveInv, SeenInv, TurnInv, JobInv, HoldsInv, NEW e \in Evaluator, EvaluatorStep(e)
    PROVE  HoldsInv'
  <1>0. HoldsTick(NoJob) /\ \A d \in Evaluator : HoldsTick(job[d])
    BY DEF HoldsTick, NoJob, HoldsInv, ProposalHoldsTick
  <1>1. ASSUME NEW j, HoldsTick(j), job' = [job EXCEPT ![e] = j] PROVE HoldsInv'
    BY <1>0, <1>1 DEF JobInv, HoldsTick, HoldsInv, ProposalHoldsTick
  <1>2. CASE BeginEvaluate(e) \/ EnrichWallet(e) \/ Take(e)
    BY <1>2 DEF BeginEvaluate, EnrichWallet, Take, workerVars, HoldsInv, ProposalHoldsTick
  <1>3. CASE Abort(e) \/ EndJob(e) \/ Caught(e) \/ EndEvaluate(e)
    <2>1. job' = [job EXCEPT ![e] = NoJob]
      BY <1>3 DEF Abort, EndJob, Caught, EndEvaluate, Forget
    <2> QED
      BY <1>0, <1>1, <2>1
  <1>4. CASE Evaluate(e)
    <2>0. PICK s \in turn[e].positions, sample \in Sample :
            \E size \in Known(e, s), bias \in Bias(Detect(sample)) :
              /\ job' = [job EXCEPT ![e] = Asked(e, s, sample, size, bias)]
              /\ turn' = IF Asked(e, s, sample, size, bias) = NoJob THEN [turn EXCEPT ![e] = NoTurn]
                         ELSE [turn EXCEPT ![e].at = "execute"]
      BY <1>4 DEF Evaluate
    <2>1. PICK size \in Known(e, s), bias \in Bias(Detect(sample)) :
            job' = [job EXCEPT ![e] = Asked(e, s, sample, size, bias)]
      BY <2>0
    <2>2. s \in Owned
      BY <2>0 DEF TurnInv
    <2>3. HoldsTick(Asked(e, s, sample, size, bias))
      BY <2>2, AskedHolds
    <2> QED
      BY <1>1, <2>1, <2>3
  <1> QED
    BY <1>2, <1>3, <1>4 DEF EvaluatorStep

\* range-proposal-engine.ts and positions-live.ts: the proposed range holds the tick for
\* every mode, fee tier, class of pair and volatility, when the row has its tokens in the
\* pool's order, both tokens have as many decimals, and the price is at least 0.00001, so
\* that the eight decimals kept of it (within the ten ticks that the assumption on PoolPrice
\* allows) show the tick.
THEOREM ProposalAlwaysHolds == Spec => []ProposalHoldsTick
  <1>1. Init => HoldsInv
    BY DEF Init, NoJob, HoldsInv, ProposalHoldsTick
  <1>2. /\ LiveInv /\ SeenInv /\ TurnInv /\ JobInv
        /\ HoldsInv /\ [Next]_vars
        => HoldsInv'
    BY EvaluatorKeepsHolds DEF Next, ReaderStep, vars, workerVars, HoldsInv, ProposalHoldsTick
  <1> QED
    BY <1>1, <1>2, LiveInvariant, SeenInvariant, JobInvariant, PTL DEF Spec, HoldsInv

\* worker.ts and positions-live.ts: the state keeps its types.
THEOREM TypeCorrect == Spec => []TypeOK
  <1>1. LiveInv /\ TurnInv /\ JobInv /\ SeenInv => TypeOK
    BY DEF LiveInv, TurnInv, JobInv, SeenInv, TypeOK
  <1> QED
    BY <1>1, LiveInvariant, JobInvariant, SeenInvariant, PTL
=============================================================================
