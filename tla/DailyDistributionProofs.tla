------------------------ MODULE DailyDistributionProofs ------------------------
(***************************************************************************)
(* Proofs about DailyDistribution, for any owners, ticks, triggers, bodies *)
(* and days, with any failures.                                            *)
(*                                                                         *)
(* The inductive invariant adds to the checked ones that a trigger in its  *)
(* loop has a row (HasRow) and what the loop has done so far (SoFar):      *)
(* unless a wallet was given up, each wallet before the index has its      *)
(* distribution or was skipped.                                            *)
(***************************************************************************)
EXTENDS DailyDistribution, TLAPS

HasRow ==
    \A t \in Trigger : pc[t] \in Loop \cup {"end", "catch", "auditEnd"} => rowStatus[t] # "none"

\* An owner that a run need not come back to.
Settled(t, o) == Exists(o, body[t].day) \/ o \in incomplete[t]

SoFarOf(t) ==
    pc[t] \in Loop \cup {"end"} =>
        /\ pc[t] # "existing"
        /\ pc[t] = "end" => at[t] = Len(Owners) + 1
        /\ pc[t] = "audit" => Settled(t, Owners[at[t]])
        /\ served[t] => \E o \in Owner : Exists(o, body[t].day)
        /\ ~failed[t] =>
              /\ pc[t] = "log" => Settled(t, Owners[at[t]])
              /\ \A n \in DOMAIN Owners : n < at[t] => Settled(t, Owners[n])

SoFar == \A t \in Trigger : SoFarOf(t)

\* A runner that is not in the loop has fresh locals.
Fresh ==
    \A r \in Runner : pc[r] \in {"new", "insert"} => at[r] = 1 /\ ~served[r] /\ ~failed[r]

\* Only a trigger writes an audit row after its loop.
TickPlace ==
    \A r \in Tick : pc[r] # "auditEnd"

IInv ==
    /\ TypeOK /\ HasRow /\ SoFar /\ Fresh /\ TickPlace
    /\ OneDistributionPerDay /\ OneTriggerPerDay /\ RunningIsExact /\ VerdictIsHonest

\* What is known of the constants and of the owner that a runner is at.
LEMMA ConstantFacts ==
    /\ Len(Owners) \in Nat
    /\ DOMAIN Owners = 1 .. Len(Owners)
    /\ Owners = << >> <=> Len(Owners) = 0
    /\ Tick \cap Trigger = {}
    /\ MaxRetries \in Nat /\ MaxRetries >= 1
    /\ Today \in Day /\ RunDay \subseteq Day
BY DistributionConstants

LEMMA OwnerFacts ==
    /\ \A n \in 1 .. Len(Owners) : Owners[n] \in Owner
    /\ \A o \in Owner : \E n \in 1 .. Len(Owners) : o = Owners[n]
BY DistributionConstants, ConstantFacts DEF Owner

LEMMA BodyFacts ==
    ASSUME TypeOK, NEW t \in Trigger
    PROVE  body[t].key \in Key /\ body[t].day \in Day
BY DistributionConstants DEF TypeOK, StoreOK

LEMMA DayFacts == ASSUME TypeOK, NEW r \in Runner PROVE DayOf(r) \in Day
BY BodyFacts, ConstantFacts DEF DayOf, Runner

LEMMA InitIInv == Init => IInv
<1> SUFFICES ASSUME Init PROVE IInv
  OBVIOUS
<1> USE ConstantFacts
<1>1. TypeOK
  <2>1. StoreOK
    BY DEF Init, StoreOK, RowStatus
  <2>2. PlaceOK
    BY DEF Init, PlaceOK, Location, Loop
  <2>3. LocalsOK
    BY DEF Init, LocalsOK
  <2>. QED  BY <2>1, <2>2, <2>3 DEF TypeOK
<1>2. HasRow /\ SoFar /\ Fresh /\ TickPlace
  BY DEF Init, TickPlace, HasRow, SoFar, SoFarOf, Loop, Fresh, Runner
<1>3. OneDistributionPerDay /\ OneTriggerPerDay /\ VerdictIsHonest
  BY DEF Init, OneDistributionPerDay, OneTriggerPerDay, VerdictIsHonest
<1>4. RunningIsExact
  BY DEF Init, RunningIsExact, InTick, Loop, Runner
<1>. QED  BY <1>1, <1>2, <1>3, <1>4 DEF IInv

-----------------------------------------------------------------------------
(***************************************************************************)
(* What the actions share.                                                 *)
(***************************************************************************)
\* A trigger that does not move keeps what it has settled: rows are never deleted.
LEMMA Unmoved ==
    ASSUME IInv, NEW u \in Trigger, rows \subseteq rows', body' = body,
           pc'[u] = pc[u], at'[u] = at[u], served'[u] = served[u], failed'[u] = failed[u],
           incomplete[u] \subseteq incomplete'[u]
    PROVE  SoFarOf(u)'
<1>1. \A o : Settled(u, o) => Settled(u, o)'
  BY DEF Settled, Exists
<1>2. \A o : Exists(o, body[u].day) => Exists(o, body[u].day)'
  BY DEF Exists
<1>3. SoFarOf(u)
  BY DEF IInv, SoFar
<1>. QED  BY <1>1, <1>2, <1>3 DEF SoFarOf

\* A runner that returns or dies leaves the loop and takes its counters with it.
LEMMA LeaveFacts ==
    ASSUME IInv, NEW r \in Runner, NEW l \in {"done", "dead"}, Leave(r, l), UNCHANGED <<rows, body>>
    PROVE  PlaceOK' /\ LocalsOK' /\ SoFar' /\ \A u \in Trigger : incomplete'[u] = incomplete[u]
<1> USE ConstantFacts DEF IInv, TypeOK, Leave, Goto
<1>1. PlaceOK'
  BY DEF PlaceOK, Location, Loop
<1>2. LocalsOK'
  <2>1. \A s \in Runner : incomplete'[s] \in SUBSET Owner
    BY DEF LocalsOK
  <2>. QED  BY <2>1 DEF LocalsOK
<1>3. \A u \in Trigger : incomplete'[u] = incomplete[u]
  BY DEF LocalsOK, Runner
<1>4. ASSUME NEW u \in Trigger, u # r PROVE SoFarOf(u)'
  <2>1. pc'[u] = pc[u] /\ at'[u] = at[u] /\ served'[u] = served[u] /\ failed'[u] = failed[u]
    BY <1>4 DEF PlaceOK, LocalsOK, Runner
  <2>. QED  BY <1>3, <2>1, Unmoved
<1>5. r \in Trigger => SoFarOf(r)'
  BY DEF SoFarOf, PlaceOK, Loop
<1>. QED  BY <1>1, <1>2, <1>3, <1>4, <1>5 DEF SoFar

\* The step to the next wallet: the one it leaves must be settled, or the run has failed.
LEMMA AdvanceFacts ==
    ASSUME IInv, NEW r \in Runner, pc[r] \in Loop, Advance(r), UNCHANGED <<body, failed, incomplete, rows>>,
           served' = served \/ Flag(served, r),
           r \in Trigger => /\ ~failed[r] => Settled(r, Owners[at[r]])
                            /\ served'[r] => \E o \in Owner : Exists(o, body[r].day)
    PROVE  PlaceOK' /\ LocalsOK' /\ SoFar'
<1> USE ConstantFacts DEF IInv, TypeOK, Advance, Goto, Flag
<1>1. PlaceOK'
  <2>1. at[r] \in Nat /\ at[r] <= Len(Owners)
    BY DEF PlaceOK
  <2>. QED  BY <2>1 DEF PlaceOK, Location, Loop
<1>2. LocalsOK'
  <2>1. attempt' \in [Runner -> 1 .. MaxRetries]
    BY DEF LocalsOK
  <2>2. served' \in [Runner -> BOOLEAN] /\ failed' \in [Runner -> BOOLEAN]
    BY DEF LocalsOK
  <2>. QED  BY <2>1, <2>2 DEF LocalsOK
<1>3. ASSUME NEW u \in Trigger, u # r PROVE SoFarOf(u)'
  <2>1. pc'[u] = pc[u] /\ at'[u] = at[u] /\ served'[u] = served[u]
    BY <1>3 DEF PlaceOK, LocalsOK, Runner
  <2>. QED  BY <2>1, Unmoved
<1>4. ASSUME r \in Trigger PROVE SoFarOf(r)'
  <2>1. /\ at[r] \in 1 .. Len(Owners) /\ at'[r] = at[r] + 1 /\ failed'[r] = failed[r]
        /\ pc'[r] = IF at[r] = Len(Owners) THEN "end" ELSE "snapshot"
    BY DEF PlaceOK
  <2>2. \A o : Settled(r, o)' = Settled(r, o)
    BY DEF Settled, Exists
  <2>3. \A o : Exists(o, body[r].day)' = Exists(o, body[r].day)
    BY DEF Exists
  <2>4. ASSUME ~failed[r], NEW n \in DOMAIN Owners, n < at'[r] PROVE Settled(r, Owners[n])
    <3>1. n = at[r] \/ n < at[r]
      BY <2>1, <2>4
    <3>2. SoFarOf(r)
      BY <1>4 DEF SoFar
    <3>. QED  BY <1>4, <2>4, <3>1, <3>2 DEF SoFarOf
  <2>. QED  BY <1>4, <2>1, <2>2, <2>3, <2>4 DEF SoFarOf
<1>. QED  BY <1>1, <1>2, <1>3, <1>4 DEF SoFar

\* A verdict once true stays true: rows and skipped owners are never taken back.
LEMMA VerdictStays ==
    ASSUME IInv, rows \subseteq rows', body' = body,
           NEW t \in Trigger, incomplete[t] \subseteq incomplete'[t], rowStatus'[t] = rowStatus[t]
    PROVE  /\ rowStatus'[t] = "COMPLETED_SUCCESS" =>
                \A o \in Owner : Exists(o, body[t].day)' \/ o \in incomplete'[t]
           /\ rowStatus'[t] = "COMPLETED_PARTIAL" => \E o \in Owner : Exists(o, body[t].day)'
<1>1. \A o : Exists(o, body[t].day) => Exists(o, body[t].day)'
  BY DEF Exists
<1>. QED  BY <1>1 DEF IInv, VerdictIsHonest

-----------------------------------------------------------------------------
(***************************************************************************)
(* One lemma per action.                                                   *)
(***************************************************************************)
LEMMA BeginTickKeeps ==
    ASSUME IInv, NEW r \in Tick, BeginTick(r)
    PROVE  IInv'
<1> USE ConstantFacts DEF IInv, TypeOK, Runner
<1> USE DEF BeginTick, Goto, loopVars
<1>1. StoreOK'
  BY DEF StoreOK, RowStatus, Completed
<1>2. PlaceOK'
  <2>1. pc' \in [Runner -> Location]
    BY DEF PlaceOK, Location, Loop
  <2>2. ASSUME NEW s \in Runner, pc'[s] \in Loop PROVE at[s] <= Len(Owners)
    <3>1. CASE s = r
      <4>1. Owners # << >>
        BY <2>2, <3>1 DEF PlaceOK, Loop
      <4>2. at[r] = 1
        BY DEF Fresh
      <4>. QED  BY <3>1, <4>1, <4>2
    <3>2. CASE s # r
      BY <2>2, <3>2 DEF PlaceOK
    <3>. QED  BY <3>1, <3>2
  <2>. QED  BY <2>1, <2>2 DEF PlaceOK
<1>3. LocalsOK'
  BY DEF PlaceOK, LocalsOK
<1>4. HasRow'
  BY DEF StoreOK, PlaceOK, LocalsOK, HasRow, Loop
<1>5. SoFar'
  BY DEF StoreOK, PlaceOK, LocalsOK, SoFar, SoFarOf, Settled, Exists, Loop, DayOf
<1>6. Fresh'
  BY DEF StoreOK, PlaceOK, LocalsOK, Fresh, Loop
<1>7. TickPlace'
  BY DEF PlaceOK, TickPlace, Loop
<1>8. OneDistributionPerDay'
  BY DEF OneDistributionPerDay
<1>9. OneTriggerPerDay'
  BY DEF StoreOK, PlaceOK, LocalsOK, OneTriggerPerDay
<1>10. RunningIsExact'
  BY DEF StoreOK, PlaceOK, LocalsOK, RunningIsExact, InTick, Loop
<1>11. VerdictIsHonest'
  BY SMTT(30) DEF StoreOK, PlaceOK, LocalsOK, VerdictIsHonest, Exists
<1>. QED  BY <1>1, <1>2, <1>3, <1>4, <1>5, <1>6, <1>7, <1>8, <1>9, <1>10, <1>11

LEMMA LookupKeyKeeps ==
    ASSUME IInv, NEW t \in Trigger, LookupKey(t)
    PROVE  IInv'
<1> USE ConstantFacts DEF IInv, TypeOK, Runner
<1> USE DEF LookupKey, Answer, Leave, Goto, loopVars
<1>1. StoreOK'
  BY DEF StoreOK, RowStatus, Completed
<1>2. PlaceOK'
  BY DEF PlaceOK, Location, Loop
<1>3. LocalsOK'
  <2>1. CASE \E a : Answer(t, a)
    BY <2>1, LeaveFacts DEF Answer, Runner
  <2>2. CASE Goto(t, "insert") /\ UNCHANGED loopVars
    BY <2>2 DEF LocalsOK
  <2>. QED  BY <2>1, <2>2
<1>4. HasRow'
  BY DEF StoreOK, PlaceOK, LocalsOK, HasRow, Loop
<1>5. SoFar'
  <2>1. CASE \E a : Answer(t, a)
    BY <2>1, LeaveFacts DEF Answer
  <2>2. CASE Goto(t, "insert") /\ UNCHANGED loopVars
    BY <2>2 DEF PlaceOK, SoFar, SoFarOf, Settled, Exists, Loop
  <2>. QED  BY <2>1, <2>2
<1>6. Fresh'
  BY DEF StoreOK, PlaceOK, LocalsOK, Fresh, Loop
<1>7. TickPlace'
  BY DEF PlaceOK, TickPlace, Loop
<1>8. OneDistributionPerDay'
  BY DEF OneDistributionPerDay
<1>9. OneTriggerPerDay'
  BY DEF StoreOK, PlaceOK, LocalsOK, OneTriggerPerDay
<1>10. RunningIsExact'
  <2>1. \A s \in Tick : pc'[s] = pc[s]
    BY DEF PlaceOK
  <2>. QED  BY <2>1 DEF RunningIsExact, InTick
<1>11. VerdictIsHonest'
  <2>1. \A u \in Trigger : incomplete'[u] = incomplete[u]
    BY LeaveFacts
  <2>. QED  BY <2>1, VerdictStays DEF VerdictIsHonest, Exists
<1>. QED  BY <1>1, <1>2, <1>3, <1>4, <1>5, <1>6, <1>7, <1>8, <1>9, <1>10, <1>11

LEMMA InsertTriggerKeeps ==
    ASSUME IInv, NEW t \in Trigger, InsertTrigger(t)
    PROVE  IInv'
<1> USE ConstantFacts DEF IInv, TypeOK, Runner
<1> USE DEF InsertTrigger, Goto, WithKey, WithDay, loopVars
<1>1. StoreOK'
  BY DEF StoreOK, RowStatus, Completed
<1>2. PlaceOK'
  <2>1. pc' \in [Runner -> Location]
    BY DEF PlaceOK, Location, Loop
  <2>2. ASSUME NEW s \in Runner, pc'[s] \in Loop PROVE at[s] <= Len(Owners)
    <3>1. CASE s = t
      <4>1. Owners # << >>
        BY <2>2, <3>1 DEF PlaceOK, Loop
      <4>2. at[t] = 1
        BY DEF Fresh
      <4>. QED  BY <3>1, <4>1, <4>2
    <3>2. CASE s # t
      BY <2>2, <3>2 DEF PlaceOK
    <3>. QED  BY <3>1, <3>2
  <2>. QED  BY <2>1, <2>2 DEF PlaceOK
<1>3. LocalsOK'
  BY DEF PlaceOK, LocalsOK
<1>4. HasRow'
  BY DEF StoreOK, PlaceOK, LocalsOK, HasRow, Loop
<1>5. SoFar'
  <2>1. ASSUME NEW u \in Trigger, u # t PROVE SoFarOf(u)'
    <3>1. pc'[u] = pc[u] /\ at'[u] = at[u] /\ served'[u] = served[u] /\ failed'[u] = failed[u]
      BY <2>1 DEF PlaceOK, LocalsOK
    <3>2. rows \subseteq rows' /\ incomplete[u] \subseteq incomplete'[u]
      BY <2>1 DEF LocalsOK
    <3>. QED  BY <3>1, <3>2, Unmoved
  <2>2. ASSUME t \in Trigger PROVE SoFarOf(t)'
    <3>1. pc[t] = "insert" /\ at[t] = 1 /\ ~served[t] /\ ~failed[t]
      BY DEF Fresh
    <3>2. pc'[t] = "clash" \/ pc'[t] = "snapshot" \/ (pc'[t] = "end" /\ Len(Owners) = 0)
      BY DEF PlaceOK
    <3>. QED  BY <3>1, <3>2 DEF SoFarOf, Loop
  <2>. QED  BY <2>1, <2>2 DEF SoFar
<1>6. Fresh'
  BY DEF StoreOK, PlaceOK, LocalsOK, Fresh, Loop
<1>7. TickPlace'
  BY DEF PlaceOK, TickPlace, Loop
<1>8. OneDistributionPerDay'
  BY DEF OneDistributionPerDay
<1>9. OneTriggerPerDay'
  <2>1. CASE WithKey(t) \cup WithDay(t) # {}
    BY <2>1 DEF OneTriggerPerDay
  <2>2. CASE WithDay(t) = {} /\ rowStatus' = [rowStatus EXCEPT ![t] = "PENDING"]
    <3>1. \A u \in Trigger : u # t /\ rowStatus[u] # "none" => body[u].day # body[t].day
      BY <2>2
    <3>2. \A u \in Trigger : u # t => rowStatus'[u] = rowStatus[u]
      BY <2>2 DEF StoreOK
    <3>. QED  BY <3>1, <3>2 DEF OneTriggerPerDay
  <2>. QED  BY <2>1, <2>2
<1>10. RunningIsExact'
  <2>1. \A s \in Tick : pc'[s] = pc[s]
    BY DEF PlaceOK
  <2>. QED  BY <2>1 DEF RunningIsExact, InTick
<1>11. VerdictIsHonest'
  BY ZenonT(60) DEF StoreOK, PlaceOK, LocalsOK, VerdictIsHonest, Exists
<1>. QED  BY <1>1, <1>2, <1>3, <1>4, <1>5, <1>6, <1>7, <1>8, <1>9, <1>10, <1>11

LEMMA ReadClashKeeps ==
    ASSUME IInv, NEW t \in Trigger, ReadClash(t)
    PROVE  IInv'
<1> USE ConstantFacts DEF IInv, TypeOK, Runner
<1> USE DEF ReadClash, Answer, Leave, Goto, loopVars
<1>1. StoreOK'
  BY DEF StoreOK, RowStatus, Completed
<1>2. PlaceOK'
  BY LeaveFacts
<1>3. LocalsOK'
  BY LeaveFacts
<1>4. HasRow'
  BY DEF StoreOK, PlaceOK, LocalsOK, HasRow, Loop
<1>5. SoFar'
  BY LeaveFacts
<1>6. Fresh'
  BY DEF StoreOK, PlaceOK, LocalsOK, Fresh, Loop
<1>7. TickPlace'
  BY DEF PlaceOK, TickPlace, Loop
<1>8. OneDistributionPerDay'
  BY DEF OneDistributionPerDay
<1>9. OneTriggerPerDay'
  BY DEF StoreOK, PlaceOK, LocalsOK, OneTriggerPerDay
<1>10. RunningIsExact'
  <2>1. \A s \in Tick : pc'[s] = pc[s]
    BY DEF PlaceOK
  <2>. QED  BY <2>1 DEF RunningIsExact, InTick
<1>11. VerdictIsHonest'
  <2>1. \A u \in Trigger : incomplete'[u] = incomplete[u]
    BY LeaveFacts
  <2>. QED  BY <2>1, VerdictStays DEF VerdictIsHonest, Exists
<1>. QED  BY <1>1, <1>2, <1>3, <1>4, <1>5, <1>6, <1>7, <1>8, <1>9, <1>10, <1>11

LEMMA CheckSnapshotKeeps ==
    ASSUME IInv, NEW r \in Runner, CheckSnapshot(r)
    PROVE  IInv'
<1> USE ConstantFacts DEF IInv, TypeOK, Runner
<1> USE DEF CheckSnapshot, Goto, loopVars
<1>1. StoreOK'
  BY DEF StoreOK, RowStatus, Completed
<1>2. PlaceOK'
  BY DEF PlaceOK, Location, Loop
<1>3. LocalsOK'
  <2>1. Owners[at[r]] \in Owner
    BY OwnerFacts DEF PlaceOK, Loop
  <2>. QED  BY <2>1 DEF LocalsOK
<1>4. HasRow'
  BY DEF StoreOK, PlaceOK, LocalsOK, HasRow, Loop
<1>5. SoFar'
  BY DEF StoreOK, PlaceOK, LocalsOK, SoFar, SoFarOf, Settled, Exists, Loop, DayOf
<1>6. Fresh'
  BY DEF StoreOK, PlaceOK, LocalsOK, Fresh, Loop
<1>7. TickPlace'
  BY DEF PlaceOK, TickPlace, Loop
<1>8. OneDistributionPerDay'
  BY DEF OneDistributionPerDay
<1>9. OneTriggerPerDay'
  BY DEF StoreOK, PlaceOK, LocalsOK, OneTriggerPerDay
<1>10. RunningIsExact'
  BY DEF StoreOK, PlaceOK, LocalsOK, RunningIsExact, InTick, Loop
<1>11. VerdictIsHonest'
  <2>1. \A u \in Trigger : incomplete[u] \subseteq incomplete'[u]
    BY DEF LocalsOK
  <2>. QED  BY <2>1, VerdictStays DEF VerdictIsHonest, Exists
<1>. QED  BY <1>1, <1>2, <1>3, <1>4, <1>5, <1>6, <1>7, <1>8, <1>9, <1>10, <1>11

LEMMA LogAndAdvanceKeeps ==
    ASSUME IInv, NEW r \in Runner, LogAndAdvance(r)
    PROVE  IInv'
<1> USE ConstantFacts DEF IInv, TypeOK, Runner
<1> USE DEF LogAndAdvance, Advance, Goto, loopVars
<1>1. StoreOK'
  BY DEF StoreOK, RowStatus, Completed
<1>2. PlaceOK'
  BY DEF PlaceOK, Location, Loop
<1>3. LocalsOK'
  BY DEF PlaceOK, LocalsOK
<1>4. HasRow'
  BY DEF StoreOK, PlaceOK, LocalsOK, HasRow, Loop
<1>5. SoFar'
  <2>1. pc[r] = "log"
    OBVIOUS
  <2>2. ASSUME r \in Trigger
      PROVE  /\ ~failed[r] => Settled(r, Owners[at[r]])
             /\ served[r] => \E o \in Owner : Exists(o, body[r].day)
    BY <2>1, <2>2 DEF SoFar, SoFarOf, Loop
  <2>. QED  BY <2>1, <2>2, AdvanceFacts DEF Loop
<1>6. Fresh'
  BY DEF StoreOK, PlaceOK, LocalsOK, Fresh, Loop
<1>7. TickPlace'
  BY DEF PlaceOK, TickPlace, Loop
<1>8. OneDistributionPerDay'
  BY DEF OneDistributionPerDay
<1>9. OneTriggerPerDay'
  BY DEF StoreOK, PlaceOK, LocalsOK, OneTriggerPerDay
<1>10. RunningIsExact'
  BY DEF StoreOK, PlaceOK, LocalsOK, RunningIsExact, InTick, Loop
<1>11. VerdictIsHonest'
  BY DEF StoreOK, PlaceOK, LocalsOK, VerdictIsHonest, Exists
<1>. QED  BY <1>1, <1>2, <1>3, <1>4, <1>5, <1>6, <1>7, <1>8, <1>9, <1>10, <1>11

LEMMA CheckExistingKeeps ==
    ASSUME IInv, NEW r \in Runner, CheckExisting(r)
    PROVE  IInv'
<1> USE ConstantFacts DEF IInv, TypeOK, Runner
<1> USE DEF CheckExisting, Advance, Goto, Flag, loopVars
<1>1. StoreOK'
  BY DEF StoreOK, RowStatus, Completed
<1>2. PlaceOK'
  <2>1. CASE Advance(r)
    BY <2>1 DEF PlaceOK, Location, Loop
  <2>2. CASE Goto(r, "create") /\ UNCHANGED at
    BY <2>2 DEF PlaceOK, Location, Loop
  <2>. QED  BY <2>1, <2>2
<1>3. LocalsOK'
  <2>1. attempt' \in [Runner -> 1 .. MaxRetries]
    BY DEF LocalsOK
  <2>2. served' \in [Runner -> BOOLEAN] /\ failed' \in [Runner -> BOOLEAN]
    BY DEF LocalsOK
  <2>. QED  BY <2>1, <2>2 DEF LocalsOK
<1>4. HasRow'
  BY DEF StoreOK, PlaceOK, LocalsOK, HasRow, Loop
<1>5. SoFar'
  BY DEF StoreOK, PlaceOK, LocalsOK, SoFar, SoFarOf, Settled, Exists, Loop, DayOf
<1>6. Fresh'
  BY DEF StoreOK, PlaceOK, LocalsOK, Fresh, Loop
<1>7. TickPlace'
  BY DEF PlaceOK, TickPlace, Loop
<1>8. OneDistributionPerDay'
  BY DEF OneDistributionPerDay
<1>9. OneTriggerPerDay'
  BY DEF StoreOK, PlaceOK, LocalsOK, OneTriggerPerDay
<1>10. RunningIsExact'
  BY DEF StoreOK, PlaceOK, LocalsOK, RunningIsExact, InTick, Loop
<1>11. VerdictIsHonest'
  BY DEF StoreOK, PlaceOK, LocalsOK, VerdictIsHonest, Exists
<1>. QED  BY <1>1, <1>2, <1>3, <1>4, <1>5, <1>6, <1>7, <1>8, <1>9, <1>10, <1>11

LEMMA CreateKeeps ==
    ASSUME IInv, NEW r \in Runner, Create(r)
    PROVE  IInv'
<1> USE ConstantFacts DEF IInv, TypeOK, Runner
<1> USE DEF Create, Advance, Goto, Flag, Distribution, loopVars
<1>1. StoreOK'
  <2>1. Owners[at[r]] \in Owner
    BY OwnerFacts DEF PlaceOK, Loop
  <2>2. Distribution(r) \in Row
    BY <2>1, DayFacts DEF Row
  <2>. QED  BY <2>2 DEF StoreOK
<1>2. PlaceOK'
  BY DEF PlaceOK, Location, Loop
<1>3. LocalsOK'
  BY DEF LocalsOK
<1>4. HasRow'
  BY DEF StoreOK, PlaceOK, LocalsOK, HasRow, Loop
<1>5. SoFar'
  <2>1. ASSUME NEW u \in Trigger, u # r PROVE SoFarOf(u)'
    <3>1. pc'[u] = pc[u] /\ at'[u] = at[u] /\ served'[u] = served[u] /\ failed'[u] = failed[u]
      BY <2>1 DEF PlaceOK, LocalsOK
    <3>2. rows \subseteq rows' /\ incomplete[u] \subseteq incomplete'[u]
      BY <2>1 DEF LocalsOK
    <3>. QED  BY <3>1, <3>2, Unmoved
  <2>2. ASSUME r \in Trigger PROVE SoFarOf(r)'
    <3>1. pc[r] = "create" /\ SoFarOf(r) /\ DayOf(r) = body[r].day
      BY <2>2, ConstantFacts DEF SoFar, DayOf
    <3>2. PICK o \in Owner : o = Owners[at[r]]
      BY OwnerFacts DEF PlaceOK, Loop
    <3>3. Exists(o, body[r].day)'
      <4>1. CASE Exists(o, body[r].day)
        BY <4>1 DEF Exists
      <4>2. CASE rows' = rows \cup {Distribution(r)}
        <5>1. Distribution(r) \in rows' /\ Distribution(r).owner = o /\ Distribution(r).day = body[r].day
          BY <3>1, <3>2, <4>2
        <5>. QED  BY <5>1 DEF Exists
      <4>. QED  BY <3>1, <3>2, <4>1, <4>2
    <3>4. \A p : Settled(r, p) => Settled(r, p)'
      BY DEF Settled, Exists
    <3>5. CASE pc'[r] = "audit" /\ at'[r] = at[r]
      <4>1. Settled(r, Owners[at[r]])'
        BY <3>2, <3>3, <3>5 DEF Settled
      <4>. QED  BY <3>1, <3>3, <3>4, <3>5, <4>1 DEF SoFarOf, Loop, LocalsOK
    <3>6. CASE UNCHANGED rows /\ Advance(r)
      <4>1. Exists(o, body[r].day)
        BY <3>3, <3>6 DEF Exists
      <4>2. Settled(r, Owners[at[r]]) /\ \E p \in Owner : Exists(p, body[r].day)
        BY <3>2, <4>1 DEF Settled
      <4>. QED  BY <2>2, <3>1, <3>6, <4>2, AdvanceFacts DEF Loop, SoFar
    <3>. QED  BY <2>2, <3>5, <3>6 DEF PlaceOK
  <2>. QED  BY <2>1, <2>2 DEF SoFar
<1>6. Fresh'
  BY DEF StoreOK, PlaceOK, LocalsOK, Fresh, Loop
<1>7. TickPlace'
  BY DEF PlaceOK, TickPlace, Loop
<1>8. OneDistributionPerDay'
  <2>1. CASE UNCHANGED rows
    BY <2>1 DEF OneDistributionPerDay
  <2>2. CASE ~Exists(Owners[at[r]], DayOf(r)) /\ rows' = rows \cup {Distribution(r)}
    <3>1. \A d \in rows : ~(d.owner = Distribution(r).owner /\ d.day = Distribution(r).day)
      BY <2>2 DEF Exists
    <3>. QED  BY <2>2, <3>1 DEF OneDistributionPerDay
  <2>. QED  BY <2>1, <2>2
<1>9. OneTriggerPerDay'
  BY DEF StoreOK, PlaceOK, LocalsOK, OneTriggerPerDay
<1>10. RunningIsExact'
  BY DEF StoreOK, PlaceOK, LocalsOK, RunningIsExact, InTick, Loop
<1>11. VerdictIsHonest'
  BY DEF StoreOK, PlaceOK, LocalsOK, VerdictIsHonest, Exists
<1>. QED  BY <1>1, <1>2, <1>3, <1>4, <1>5, <1>6, <1>7, <1>8, <1>9, <1>10, <1>11

LEMMA LogCreatedKeeps ==
    ASSUME IInv, NEW r \in Runner, LogCreated(r)
    PROVE  IInv'
<1> USE ConstantFacts DEF IInv, TypeOK, Runner
<1> USE DEF LogCreated, Advance, Goto, loopVars
<1>1. StoreOK'
  BY DEF StoreOK, RowStatus, Completed
<1>2. PlaceOK'
  BY DEF PlaceOK, Location, Loop
<1>3. LocalsOK'
  BY DEF PlaceOK, LocalsOK
<1>4. HasRow'
  BY DEF StoreOK, PlaceOK, LocalsOK, HasRow, Loop
<1>5. SoFar'
  <2>1. pc[r] = "audit"
    OBVIOUS
  <2>2. ASSUME r \in Trigger
      PROVE  /\ ~failed[r] => Settled(r, Owners[at[r]])
             /\ served[r] => \E o \in Owner : Exists(o, body[r].day)
    BY <2>1, <2>2 DEF SoFar, SoFarOf, Loop
  <2>. QED  BY <2>1, <2>2, AdvanceFacts DEF Loop
<1>6. Fresh'
  BY DEF StoreOK, PlaceOK, LocalsOK, Fresh, Loop
<1>7. TickPlace'
  BY DEF PlaceOK, TickPlace, Loop
<1>8. OneDistributionPerDay'
  BY DEF OneDistributionPerDay
<1>9. OneTriggerPerDay'
  BY DEF StoreOK, PlaceOK, LocalsOK, OneTriggerPerDay
<1>10. RunningIsExact'
  BY DEF StoreOK, PlaceOK, LocalsOK, RunningIsExact, InTick, Loop
<1>11. VerdictIsHonest'
  BY DEF StoreOK, PlaceOK, LocalsOK, VerdictIsHonest, Exists
<1>. QED  BY <1>1, <1>2, <1>3, <1>4, <1>5, <1>6, <1>7, <1>8, <1>9, <1>10, <1>11

LEMMA RetryKeeps ==
    ASSUME IInv, NEW r \in Runner, Retry(r)
    PROVE  IInv'
<1> USE ConstantFacts DEF IInv, TypeOK, Runner
<1> USE DEF Retry, Goto, Flag, loopVars
<1>1. StoreOK'
  BY DEF StoreOK, RowStatus, Completed
<1>2. PlaceOK'
  BY DEF PlaceOK, Location, Loop
<1>3. LocalsOK'
  <2>1. attempt' \in [Runner -> 1 .. MaxRetries]
    BY DEF LocalsOK
  <2>2. served' \in [Runner -> BOOLEAN] /\ failed' \in [Runner -> BOOLEAN]
    BY DEF LocalsOK
  <2>. QED  BY <2>1, <2>2 DEF LocalsOK
<1>4. HasRow'
  BY DEF StoreOK, PlaceOK, LocalsOK, HasRow, Loop
<1>5. SoFar'
  <2>1. ASSUME NEW u \in Trigger, u # r PROVE SoFarOf(u)'
    <3>1. pc'[u] = pc[u] /\ at'[u] = at[u] /\ served'[u] = served[u] /\ failed'[u] = failed[u]
      BY <2>1 DEF PlaceOK, LocalsOK
    <3>2. rows \subseteq rows' /\ incomplete[u] \subseteq incomplete'[u]
      BY <2>1 DEF LocalsOK
    <3>. QED  BY <3>1, <3>2, Unmoved
  <2>2. ASSUME r \in Trigger PROVE SoFarOf(r)'
    <3>1. pc[r] \in {"create", "audit"} /\ SoFarOf(r)
      BY <2>2 DEF SoFar
    <3>2. \A o : Settled(r, o)' = Settled(r, o)
      BY DEF Settled, Exists
    <3>3. (pc'[r] = "create" /\ failed'[r] = failed[r]) \/ (pc'[r] = "log" /\ failed'[r])
      <4>1. CASE attempt[r] < MaxRetries
        <5>1. pc' = [pc EXCEPT ![r] = "create"] /\ failed' = failed
          BY <4>1
        <5>. QED  BY <5>1 DEF PlaceOK
      <4>2. CASE ~(attempt[r] < MaxRetries)
        BY <4>2 DEF PlaceOK, LocalsOK
      <4>. QED  BY <4>1, <4>2
    <3>. QED  BY <3>1, <3>2, <3>3 DEF SoFarOf, Loop, Exists
  <2>. QED  BY <2>1, <2>2 DEF SoFar
<1>6. Fresh'
  BY DEF StoreOK, PlaceOK, LocalsOK, Fresh, Loop
<1>7. TickPlace'
  BY DEF PlaceOK, TickPlace, Loop
<1>8. OneDistributionPerDay'
  BY DEF OneDistributionPerDay
<1>9. OneTriggerPerDay'
  BY DEF StoreOK, PlaceOK, LocalsOK, OneTriggerPerDay
<1>10. RunningIsExact'
  BY DEF StoreOK, PlaceOK, LocalsOK, RunningIsExact, InTick, Loop
<1>11. VerdictIsHonest'
  BY DEF StoreOK, PlaceOK, LocalsOK, VerdictIsHonest, Exists
<1>. QED  BY <1>1, <1>2, <1>3, <1>4, <1>5, <1>6, <1>7, <1>8, <1>9, <1>10, <1>11

LEMMA EndTickKeeps ==
    ASSUME IInv, NEW r \in Tick, EndTick(r)
    PROVE  IInv'
<1> USE ConstantFacts DEF IInv, TypeOK, Runner
<1> USE DEF EndTick, Leave, Goto, loopVars
<1>1. StoreOK'
  BY DEF StoreOK, RowStatus, Completed
<1>2. PlaceOK'
  BY DEF PlaceOK, Location, Loop
<1>3. LocalsOK'
  BY DEF PlaceOK, LocalsOK
<1>4. HasRow'
  BY DEF StoreOK, PlaceOK, LocalsOK, HasRow, Loop
<1>5. SoFar'
  BY DEF StoreOK, PlaceOK, LocalsOK, SoFar, SoFarOf, Settled, Exists, Loop, DayOf
<1>6. Fresh'
  BY DEF StoreOK, PlaceOK, LocalsOK, Fresh, Loop
<1>7. TickPlace'
  BY DEF PlaceOK, TickPlace, Loop
<1>8. OneDistributionPerDay'
  BY DEF OneDistributionPerDay
<1>9. OneTriggerPerDay'
  BY DEF StoreOK, PlaceOK, LocalsOK, OneTriggerPerDay
<1>10. RunningIsExact'
  BY DEF StoreOK, PlaceOK, LocalsOK, RunningIsExact, InTick, Loop
<1>11. VerdictIsHonest'
  BY DEF StoreOK, PlaceOK, LocalsOK, VerdictIsHonest, Exists
<1>. QED  BY <1>1, <1>2, <1>3, <1>4, <1>5, <1>6, <1>7, <1>8, <1>9, <1>10, <1>11

LEMMA EndTriggerKeeps ==
    ASSUME IInv, NEW t \in Trigger, EndTrigger(t)
    PROVE  IInv'
<1> USE ConstantFacts DEF IInv, TypeOK, Runner
<1> USE DEF EndTrigger, Verdict, Goto, loopVars
<1>1. StoreOK'
  BY DEF StoreOK, RowStatus, Completed
<1>2. PlaceOK'
  BY DEF PlaceOK, Location, Loop
<1>3. LocalsOK'
  BY DEF PlaceOK, LocalsOK
<1>4. HasRow'
  BY DEF StoreOK, PlaceOK, LocalsOK, HasRow, Loop
<1>5. SoFar'
  BY DEF StoreOK, PlaceOK, LocalsOK, SoFar, SoFarOf, Settled, Exists, Loop, DayOf
<1>6. Fresh'
  BY DEF StoreOK, PlaceOK, LocalsOK, Fresh, Loop
<1>7. TickPlace'
  BY DEF PlaceOK, TickPlace, Loop
<1>8. OneDistributionPerDay'
  BY DEF OneDistributionPerDay
<1>9. OneTriggerPerDay'
  <2>1. rowStatus[t] # "none"
    BY DEF HasRow
  <2>2. \A u \in Trigger : u # t => rowStatus'[u] = rowStatus[u]
    BY DEF StoreOK
  <2>. QED  BY <2>1, <2>2 DEF OneTriggerPerDay
<1>10. RunningIsExact'
  <2>1. \A s \in Tick : pc'[s] = pc[s]
    BY DEF PlaceOK
  <2>. QED  BY <2>1 DEF RunningIsExact, InTick
<1>11. VerdictIsHonest'
  <2>1. ASSUME NEW u \in Trigger, u # t PROVE rowStatus'[u] = rowStatus[u]
    BY <2>1 DEF StoreOK
  <2>2. rowStatus'[t] = Verdict(t)
    BY DEF StoreOK
  <2>3. SoFarOf(t) /\ pc[t] = "end"
    BY DEF SoFar
  <2>4. ~failed[t] => \A o \in Owner : Settled(t, o)
    BY <2>3, OwnerFacts DEF SoFarOf
  <2>5. served[t] => \E o \in Owner : Exists(o, body[t].day)
    BY <2>3 DEF SoFarOf
  <2>. QED  BY <2>1, <2>2, <2>4, <2>5 DEF VerdictIsHonest, Settled, Exists
<1>. QED  BY <1>1, <1>2, <1>3, <1>4, <1>5, <1>6, <1>7, <1>8, <1>9, <1>10, <1>11

LEMMA AnswerTriggerKeeps ==
    ASSUME IInv, NEW t \in Trigger, AnswerTrigger(t)
    PROVE  IInv'
<1> USE ConstantFacts DEF IInv, TypeOK, Runner
<1> USE DEF AnswerTrigger, Answer, Leave, Goto, loopVars
<1>1. StoreOK'
  BY DEF StoreOK, RowStatus, Completed
<1>2. PlaceOK'
  BY DEF PlaceOK, Location, Loop
<1>3. LocalsOK'
  BY DEF PlaceOK, LocalsOK
<1>4. HasRow'
  BY DEF StoreOK, PlaceOK, LocalsOK, HasRow, Loop
<1>5. SoFar'
  BY DEF StoreOK, PlaceOK, LocalsOK, SoFar, SoFarOf, Settled, Exists, Loop, DayOf
<1>6. Fresh'
  BY DEF StoreOK, PlaceOK, LocalsOK, Fresh, Loop
<1>7. TickPlace'
  BY DEF PlaceOK, TickPlace, Loop
<1>8. OneDistributionPerDay'
  BY DEF OneDistributionPerDay
<1>9. OneTriggerPerDay'
  BY DEF StoreOK, PlaceOK, LocalsOK, OneTriggerPerDay
<1>10. RunningIsExact'
  <2>1. \A s \in Tick : pc'[s] = pc[s]
    BY DEF PlaceOK
  <2>. QED  BY <2>1 DEF RunningIsExact, InTick
<1>11. VerdictIsHonest'
  BY DEF StoreOK, PlaceOK, LocalsOK, VerdictIsHonest, Exists
<1>. QED  BY <1>1, <1>2, <1>3, <1>4, <1>5, <1>6, <1>7, <1>8, <1>9, <1>10, <1>11

LEMMA FailTriggerKeeps ==
    ASSUME IInv, NEW t \in Trigger, FailTrigger(t)
    PROVE  IInv'
<1> USE ConstantFacts DEF IInv, TypeOK, Runner
<1> USE DEF FailTrigger, Answer, Leave, Goto, loopVars
<1>1. StoreOK'
  BY DEF StoreOK, RowStatus, Completed
<1>2. PlaceOK'
  BY LeaveFacts
<1>3. LocalsOK'
  BY LeaveFacts
<1>4. HasRow'
  BY DEF StoreOK, PlaceOK, LocalsOK, HasRow, Loop
<1>5. SoFar'
  BY LeaveFacts
<1>6. Fresh'
  BY DEF StoreOK, PlaceOK, LocalsOK, Fresh, Loop
<1>7. TickPlace'
  BY DEF PlaceOK, TickPlace, Loop
<1>8. OneDistributionPerDay'
  BY DEF OneDistributionPerDay
<1>9. OneTriggerPerDay'
  <2>1. rowStatus[t] # "none"
    BY DEF HasRow
  <2>2. \A u \in Trigger : u # t => rowStatus'[u] = rowStatus[u]
    BY DEF StoreOK
  <2>. QED  BY <2>1, <2>2 DEF OneTriggerPerDay
<1>10. RunningIsExact'
  <2>1. \A s \in Tick : pc'[s] = pc[s]
    BY DEF PlaceOK
  <2>. QED  BY <2>1 DEF RunningIsExact, InTick
<1>11. VerdictIsHonest'
  <2>1. \A u \in Trigger : incomplete'[u] = incomplete[u]
    BY LeaveFacts
  <2>2. \A u \in Trigger : u # t => rowStatus'[u] = rowStatus[u]
    BY DEF StoreOK
  <2>3. rowStatus'[t] = "FAILED"
    BY DEF StoreOK
  <2>. QED  BY <2>1, <2>2, <2>3, VerdictStays DEF VerdictIsHonest, Exists
<1>. QED  BY <1>1, <1>2, <1>3, <1>4, <1>5, <1>6, <1>7, <1>8, <1>9, <1>10, <1>11

LEMMA ThrowKeeps ==
    ASSUME IInv, NEW r \in Runner, Throw(r)
    PROVE  IInv'
<1> USE ConstantFacts DEF IInv, TypeOK, Runner
<1> USE DEF Throw, Leave, Goto, loopVars
<1>1. StoreOK'
  BY DEF StoreOK, RowStatus, Completed
<1>2. PlaceOK'
  BY DEF PlaceOK, Location, Loop
<1>3. LocalsOK'
  <2>1. CASE \E l \in {"done", "dead"} : Leave(r, l)
    BY <2>1, LeaveFacts
  <2>2. CASE UNCHANGED loopVars
    BY <2>2 DEF LocalsOK
  <2>. QED  BY <2>1, <2>2
<1>4. HasRow'
  BY DEF StoreOK, PlaceOK, LocalsOK, HasRow, Loop
<1>5. SoFar'
  <2>1. CASE \E l \in {"done", "dead"} : Leave(r, l)
    BY <2>1, LeaveFacts
  <2>2. CASE Goto(r, "catch") /\ UNCHANGED loopVars
    BY <2>2 DEF PlaceOK, SoFar, SoFarOf, Settled, Exists, Loop
  <2>. QED  BY <2>1, <2>2
<1>6. Fresh'
  BY DEF StoreOK, PlaceOK, LocalsOK, Fresh, Loop
<1>7. TickPlace'
  BY DEF PlaceOK, TickPlace, Loop
<1>8. OneDistributionPerDay'
  BY DEF OneDistributionPerDay
<1>9. OneTriggerPerDay'
  BY DEF StoreOK, PlaceOK, LocalsOK, OneTriggerPerDay
<1>10. RunningIsExact'
  <2>1. ASSUME NEW s \in Tick PROVE InTick(s)' = InTick(s)
    <3>1. CASE s = r
      <4>1. pc[r] \in {"snapshot", "existing", "log", "auditEnd"} /\ pc'[r] = "catch"
        BY <3>1 DEF PlaceOK
      <4>2. pc[r] # "auditEnd"
        BY <3>1 DEF TickPlace
      <4>. QED  BY <3>1, <4>1, <4>2 DEF InTick, Loop
    <3>2. CASE s # r
      BY <3>2 DEF InTick, PlaceOK
    <3>. QED  BY <3>1, <3>2
  <2>. QED  BY <2>1 DEF RunningIsExact
<1>11. VerdictIsHonest'
  BY DEF StoreOK, PlaceOK, LocalsOK, VerdictIsHonest, Exists
<1>. QED  BY <1>1, <1>2, <1>3, <1>4, <1>5, <1>6, <1>7, <1>8, <1>9, <1>10, <1>11

LEMMA CrashKeeps ==
    ASSUME IInv, Crash
    PROVE  IInv'
<1> USE ConstantFacts DEF IInv, TypeOK, Runner
<1> USE DEF Crash, loopVars
<1>1. StoreOK'
  BY DEF StoreOK, RowStatus, Completed
<1>2. PlaceOK'
  BY DEF PlaceOK, Location, Loop
<1>3. LocalsOK'
  BY DEF PlaceOK, LocalsOK
<1>4. HasRow'
  BY DEF StoreOK, PlaceOK, LocalsOK, HasRow, Loop
<1>5. SoFar'
  BY DEF StoreOK, PlaceOK, LocalsOK, SoFar, SoFarOf, Settled, Exists, Loop, DayOf
<1>6. Fresh'
  BY DEF StoreOK, PlaceOK, LocalsOK, Fresh, Loop
<1>7. TickPlace'
  BY DEF PlaceOK, TickPlace, Loop
<1>8. OneDistributionPerDay'
  BY DEF OneDistributionPerDay
<1>9. OneTriggerPerDay'
  BY DEF StoreOK, PlaceOK, LocalsOK, OneTriggerPerDay
<1>10. RunningIsExact'
  BY DEF StoreOK, PlaceOK, LocalsOK, RunningIsExact, InTick, Loop
<1>11. VerdictIsHonest'
  BY DEF StoreOK, PlaceOK, LocalsOK, VerdictIsHonest, Exists
<1>. QED  BY <1>1, <1>2, <1>3, <1>4, <1>5, <1>6, <1>7, <1>8, <1>9, <1>10, <1>11

LEMMA RunForOwnerKeeps ==
    ASSUME IInv, NEW o \in Owner, NEW day \in RunDay, RunForOwner(o, day)
    PROVE  IInv'
<1> USE ConstantFacts DEF IInv, TypeOK, Runner
<1> USE DEF RunForOwner, loopVars
<1>1. StoreOK'
  <2>1. \A items \in {{}, Beneficiaries[o]} :
           [owner |-> o, day |-> day, items |-> items, by |-> "run"] \in Row
    BY DEF Row
  <2>. QED  BY <2>1 DEF StoreOK
<1>2. PlaceOK'
  BY DEF PlaceOK, Location, Loop
<1>3. LocalsOK'
  BY DEF PlaceOK, LocalsOK
<1>4. HasRow'
  BY DEF StoreOK, PlaceOK, LocalsOK, HasRow, Loop
<1>5. SoFar'
  <2>1. rows \subseteq rows'
    OBVIOUS
  <2>. QED  BY <2>1, Unmoved DEF SoFar
<1>6. Fresh'
  BY DEF StoreOK, PlaceOK, LocalsOK, Fresh, Loop
<1>7. TickPlace'
  BY DEF PlaceOK, TickPlace, Loop
<1>8. OneDistributionPerDay'
  <2>1. PICK items : rows' = rows \cup {[owner |-> o, day |-> day, items |-> items, by |-> "run"]}
    OBVIOUS
  <2>2. \A e \in rows : ~(e.owner = o /\ e.day = day)
    BY DEF Exists
  <2>. QED  BY <2>1, <2>2 DEF OneDistributionPerDay
<1>9. OneTriggerPerDay'
  BY DEF StoreOK, PlaceOK, LocalsOK, OneTriggerPerDay
<1>10. RunningIsExact'
  BY DEF StoreOK, PlaceOK, LocalsOK, RunningIsExact, InTick, Loop
<1>11. VerdictIsHonest'
  BY DEF StoreOK, PlaceOK, LocalsOK, VerdictIsHonest, Exists
<1>. QED  BY <1>1, <1>2, <1>3, <1>4, <1>5, <1>6, <1>7, <1>8, <1>9, <1>10, <1>11

-----------------------------------------------------------------------------
LEMMA StepIInv == IInv /\ [Next]_vars => IInv'
<1> SUFFICES ASSUME IInv, [Next]_vars PROVE IInv'
  OBVIOUS
<1>1. CASE Next
  <2>1. ASSUME NEW r \in Runner, Step(r) PROVE IInv'
    BY <2>1, CheckSnapshotKeeps, LogAndAdvanceKeeps, CheckExistingKeeps, CreateKeeps,
       LogCreatedKeeps,
       RetryKeeps, ThrowKeeps, EndTickKeeps, InsertTriggerKeeps, ReadClashKeeps, EndTriggerKeeps,
       AnswerTriggerKeeps, FailTriggerKeeps DEF Step, LoopStep
  <2>2. ASSUME NEW r \in Tick, BeginTick(r) PROVE IInv'
    BY <2>2, BeginTickKeeps
  <2>3. ASSUME NEW t \in Trigger, LookupKey(t) PROVE IInv'
    BY <2>3, LookupKeyKeeps
  <2>4. ASSUME NEW o \in Owner, NEW day \in RunDay, RunForOwner(o, day) PROVE IInv'
    BY <2>4, RunForOwnerKeeps
  <2>5. CASE Crash
    BY <2>5, CrashKeeps
  <2>. QED  BY <1>1, <2>1, <2>2, <2>3, <2>4, <2>5 DEF Next
<1>2. CASE UNCHANGED vars
  <2> USE <1>2 DEF vars, loopVars, IInv
  <2>1. TypeOK' /\ HasRow' /\ SoFar' /\ Fresh' /\ TickPlace'
    BY DEF TypeOK, StoreOK, PlaceOK, LocalsOK, HasRow, SoFar, SoFarOf, Fresh, TickPlace, Settled,
       Exists
  <2>2. OneDistributionPerDay' /\ OneTriggerPerDay' /\ RunningIsExact' /\ VerdictIsHonest'
    BY DEF OneDistributionPerDay, OneTriggerPerDay, RunningIsExact, InTick, VerdictIsHonest, Exists
  <2>. QED  BY <2>1, <2>2
<1>. QED  BY <1>1, <1>2

\* The invariant holds in every reachable state, with any failures and crashes of
\* the scheduler and of the triggers.
THEOREM DistributionInvariance == Spec => []IInv
BY InitIInv, StepIInv, PTL DEF Spec

\* Type correctness of the scheduler's and the triggers' state.
THEOREM DistributionTypeCorrect == Spec => []TypeOK
<1>. IInv => TypeOK
  BY DEF IInv
<1>. QED  BY DistributionInvariance, PTL

\* However many ticks, triggers and direct runs race, an owner has one
\* ProfitDistribution row per day.
THEOREM DistributionOncePerDay == Spec => []OneDistributionPerDay
<1>. IInv => OneDistributionPerDay
  BY DEF IInv
<1>. QED  BY DistributionInvariance, PTL

\* At most one trigger row per day, whatever keys the requests carry.
THEOREM DistributionOneTrigger == Spec => []OneTriggerPerDay
<1>. IInv => OneTriggerPerDay
  BY DEF IInv
<1>. QED  BY DistributionInvariance, PTL

\* state.running is true exactly while one tick is in its loop, after any error.
THEOREM DistributionRunningExact == Spec => []RunningIsExact
<1>. IInv => RunningIsExact
  BY DEF IInv
<1>. QED  BY DistributionInvariance, PTL

\* The status of a finished trigger row tells what was distributed, also when the
\* ticks, other triggers and failing statements came between.
THEOREM DistributionVerdict == Spec => []VerdictIsHonest
<1>. IInv => VerdictIsHonest
  BY DEF IInv
<1>. QED  BY DistributionInvariance, PTL
-----------------------------------------------------------------------------
(***************************************************************************)
(* The row of a trigger.  It is PENDING only while its request works on    *)
(* it, or for good when that request died; once settled it changes only    *)
(* when its own request's audit row throws after the verdict.              *)
(***************************************************************************)
Working == Loop \cup {"end", "catch"}

PendingIsWorkedOn == \A t \in Trigger : rowStatus[t] = "PENDING" => pc[t] \in Working \cup {"dead"}

\* A request that works on its row has not settled it, unless it is past its verdict.
SettledLate ==
    \A t \in Trigger : pc[t] \in Loop \cup {"end"} => rowStatus[t] = "PENDING"

RowMoves(t) ==
    rowStatus[t] \notin {"none", "PENDING"} =>
        rowStatus'[t] = rowStatus[t] \/ (rowStatus'[t] = "FAILED" /\ pc[t] = "catch")

LEMMA RowStep ==
    ASSUME IInv, PendingIsWorkedOn, SettledLate, [Next]_vars
    PROVE  PendingIsWorkedOn' /\ SettledLate' /\ \A t \in Trigger : RowMoves(t)
<1> USE ConstantFacts DEF IInv, TypeOK, Runner
<1> DEFINE Good == PendingIsWorkedOn' /\ SettledLate' /\ \A t \in Trigger : RowMoves(t)
<1>1. ASSUME NEW r \in Runner, LoopStep(r) \/ Throw(r) PROVE Good
  <2>1. rowStatus' = rowStatus
    BY <1>1 DEF LoopStep, Throw, CheckSnapshot, LogAndAdvance, CheckExisting, Create, LogCreated, Retry
  <2>2. /\ \A s \in Runner : s # r => pc'[s] = pc[s]
        /\ pc[r] \in Loop => pc'[r] \in Loop \cup {"end", "catch"}
        /\ pc'[r] \in Loop \cup {"end"} => pc[r] \in Loop
        /\ pc[r] = "end" => pc'[r] = "catch"
        /\ pc[r] = "catch" => pc'[r] = "dead"
        /\ pc[r] \notin {"new", "done", "dead"}
    <3>1. CASE LoopStep(r)
      BY <3>1 DEF LoopStep, CheckSnapshot, LogAndAdvance, CheckExisting, Create, LogCreated, Retry, Advance,
         Goto, PlaceOK, Loop
    <3>2. CASE Throw(r)
      BY <3>2 DEF Throw, Leave, Goto, PlaceOK, Loop
    <3>. QED  BY <1>1, <3>1, <3>2
  <2>3. pc[r] \in {"insert", "clash", "auditEnd"} /\ r \in Trigger => rowStatus[r] # "PENDING"
    BY DEF PendingIsWorkedOn, Working, Loop
  <2>. QED  BY <2>1, <2>2, <2>3 DEF PendingIsWorkedOn, SettledLate, RowMoves, Working, PlaceOK, Location
<1>2. ASSUME NEW r \in Tick, BeginTick(r) \/ EndTick(r) PROVE Good
  <2>1. rowStatus' = rowStatus /\ \A t \in Trigger : pc'[t] = pc[t]
    BY <1>2 DEF BeginTick, EndTick, Leave, Goto, PlaceOK
  <2>. QED  BY <2>1 DEF PendingIsWorkedOn, SettledLate, RowMoves
<1>3. ASSUME NEW t \in Trigger, LookupKey(t) \/ ReadClash(t) \/ AnswerTrigger(t) PROVE Good
  <2>1. rowStatus' = rowStatus /\ pc[t] \in {"new", "clash", "auditEnd"} /\ pc'[t] \in {"insert", "done"}
        /\ \A u \in Trigger : u # t => pc'[u] = pc[u]
    BY <1>3 DEF LookupKey, ReadClash, AnswerTrigger, Answer, Leave, Goto, PlaceOK
  <2>. QED  BY <2>1 DEF PendingIsWorkedOn, SettledLate, RowMoves, Working, Loop
<1>4. ASSUME NEW t \in Trigger, InsertTrigger(t) PROVE Good
  <2>1. pc[t] = "insert" /\ \A u \in Trigger : u # t => pc'[u] = pc[u] /\ rowStatus'[u] = rowStatus[u]
    BY <1>4 DEF InsertTrigger, Goto, PlaceOK, StoreOK
  <2>2. \/ rowStatus'[t] = "PENDING" /\ pc'[t] \in {"snapshot", "end"} /\ rowStatus[t] = "none"
        \/ rowStatus'[t] = rowStatus[t] /\ pc'[t] = "clash"
    BY <1>4 DEF InsertTrigger, Goto, PlaceOK, StoreOK, WithKey
  <2>3. rowStatus[t] # "PENDING"
    BY <2>1 DEF PendingIsWorkedOn, Working, Loop
  <2>. QED  BY <2>1, <2>2, <2>3 DEF PendingIsWorkedOn, SettledLate, RowMoves, Working, Loop
<1>5. ASSUME NEW t \in Trigger, EndTrigger(t) PROVE Good
  <2>1. /\ pc[t] = "end" /\ pc'[t] = "auditEnd" /\ rowStatus'[t] = Verdict(t)
        /\ \A u \in Trigger : u # t => pc'[u] = pc[u] /\ rowStatus'[u] = rowStatus[u]
    BY <1>5 DEF EndTrigger, Goto, PlaceOK, StoreOK
  <2>2. Verdict(t) # "PENDING" /\ rowStatus[t] = "PENDING"
    BY <2>1 DEF Verdict, SettledLate
  <2>. QED  BY <2>1, <2>2 DEF PendingIsWorkedOn, SettledLate, RowMoves, Working, Loop
<1>6. ASSUME NEW t \in Trigger, FailTrigger(t) PROVE Good
  <2>1. /\ pc[t] = "catch" /\ pc'[t] \in {"done", "dead"} /\ rowStatus'[t] = "FAILED"
        /\ \A u \in Trigger : u # t => pc'[u] = pc[u] /\ rowStatus'[u] = rowStatus[u]
    BY <1>6 DEF FailTrigger, Answer, Leave, Goto, PlaceOK, StoreOK
  <2>. QED  BY <2>1 DEF PendingIsWorkedOn, SettledLate, RowMoves, Working, Loop
<1>7. CASE Crash
  <2>1. rowStatus' = rowStatus
        /\ \A t \in Trigger : pc'[t] = IF pc[t] \in {"new", "done"} THEN pc[t] ELSE "dead"
    BY <1>7 DEF Crash
  <2>. QED  BY <2>1 DEF PendingIsWorkedOn, SettledLate, RowMoves, Working, Loop
<1>8. CASE UNCHANGED <<pc, rowStatus>>
  BY <1>8 DEF PendingIsWorkedOn, SettledLate, RowMoves
<1>. QED  BY <1>1, <1>2, <1>3, <1>4, <1>5, <1>6, <1>7, <1>8 DEF Next, Step, RunForOwner, vars

LEMMA RowInvariant == Spec => [](PendingIsWorkedOn /\ SettledLate)
<1>1. Init => PendingIsWorkedOn /\ SettledLate
  BY DEF Init, PendingIsWorkedOn, SettledLate, Loop, Runner
<1>. QED  BY <1>1, RowStep, DistributionInvariance, PTL DEF Spec

\* The safety half of TriggerSettles: while its request lives, a PENDING row is in its
\* hands, so that only a death leaves a trigger PENDING for good.
THEOREM DistributionPendingIsWorkedOn == Spec => []PendingIsWorkedOn
BY RowInvariant, PTL

\* A verdict is final, but that the route's own catch clause may make it FAILED: no other
\* trigger, tick, run or crash changes the row of a day that is settled.
THEOREM DistributionVerdictFinal == Spec => [][\A t \in Trigger : RowMoves(t)]_vars
<1>1. IInv /\ PendingIsWorkedOn /\ SettledLate /\ [Next]_vars => [\A t \in Trigger : RowMoves(t)]_vars
  BY RowStep
<1>. QED  BY <1>1, RowInvariant, DistributionInvariance, PTL DEF Spec
================================================================================
