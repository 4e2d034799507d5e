-------------------------- MODULE WalletAccessProofs --------------------------
(***************************************************************************)
(* Proofs about WalletAccess: how old a permission may be when a request   *)
(* is let in with it, what the cache of permissions may hold, and that     *)
(* either challenge store keeps the promise of ChallengeLedger.            *)
(***************************************************************************)
EXTENDS WalletAccess, SequenceTheorems, TLAPS

Req == [at : ReqPlace, ask : Ask, needs : NeedSet, got : Row, gotList : [Operator -> Row],
        since : Time, late : BOOLEAN]

\* A request that asks for an operator's permission is an operator's.
Fits(q) == q \in Req /\ (q.at \in {"authorize", "read", "set"} => q.ask.by \in Operator)

TypeInv ==
    /\ now \in Time
    /\ perm \in [Operator -> Row]
    /\ active \in [Operator -> Entry]
    /\ last \in [Operator -> [NeedSet -> Time \cup {-1}]]
    /\ req \in [Request -> Req]
    /\ \A r \in Request : Fits(req[r])

\* What the table gives is remembered as given now.
LastInv == \A o \in Operator : \A g \in NeedSet :
    last[o][g] <= now /\ (Has(perm[o], g) => last[o][g] = now)

\* What a SELECT has returned was in the table at that time, and is there still unless an
\* upsert has marked the request.
Holds(q) ==
    q.at = "set" =>
      /\ q.since <= now /\ now <= q.since + ReadDelay
      /\ \A g \in NeedSet : Has(q.got, g) => q.since <= last[q.ask.by][g]
      /\ q.late \/ q.got \in {perm[q.ask.by], Older(perm[q.ask.by]), NoRow}
GotInv == \A r \in Request : Holds(req[r])

EntryInv == \A o \in Operator : \A g \in NeedSet :
    active[o].until # -1 /\ Has(active[o].row, g) =>
        last[o][g] # -1 /\ active[o].until <= last[o][g] + CacheTtl + ReadDelay

Inv == TypeInv /\ LastInv /\ GotInv /\ EntryInv /\ CacheFollowsTable

-----------------------------------------------------------------------------
LEMMA Settings ==
    /\ CacheTtl \in Nat /\ ChallengeTtl \in Nat /\ ReadDelay \in Nat /\ MaxTime \in Nat
    /\ Time \subseteq Nat /\ Time \cup {-1} \subseteq Int /\ 0 \in Time
    /\ Wallet = {Owner} \cup Operator /\ Owner \notin Operator
  BY AccessAssumption DEF Time, Wallet

LEMMA AskOK == ASSUME NEW a \in Ask
               PROVE  /\ a \in Asks /\ a.by \in Wallet /\ a.about \in Operator /\ a.row \in Row
                      /\ a.nonce \in Nonce /\ a.route \in Route /\ a.route.needs \in NeedSet
  BY AccessAssumption DEF Asks, NeedSet

\* When an operator last had something is a number.
LEMMA LastOK ==
    ASSUME NEW f \in [Operator -> [NeedSet -> Time \cup {-1}]], NEW u \in Operator, NEW g \in NeedSet
    PROVE  f[u][g] \in Int
  <1>1. f[u] \in [NeedSet -> Time \cup {-1}]
    OBVIOUS
  <1>2. f[u][g] \in Time \cup {-1}
    BY <1>1
  <1> QED
    BY <1>2, Settings

LEMMA NeedSetOK == {} \in NeedSet /\ {"pause"} \in NeedSet
  <1>1. Own \in Route /\ Own.needs = {}
    BY DEF Route, NotificationsRoute, Own
  <1> QED
    BY <1>1 DEF NeedSet

LEMMA RowsOK ==
    /\ NoRow \in Row
    /\ \A g : ~Has(NoRow, g)
    /\ \A row \in Row : Older(row) \in Row /\ \A g : Has(Older(row), g) => Has(row, g)
  BY DEF NoRow, Row, Has, Older, OldGrant, Grant

LEMMA NoEntryOK == NoEntry \in Entry /\ NoEntry.until = -1
  BY RowsOK DEF NoEntry, Entry

LEMMA NoRequestOK == NoRequest \in Req /\ NoRequest.at = "idle"
  <1>1. (CHOOSE a \in Ask : TRUE) \in Ask
    BY AccessAssumption
  <1>2. NoList.rows \in [Operator -> Row]
    BY RowsOK DEF NoList
  <1> QED
    BY <1>1, <1>2, RowsOK, NeedSetOK, Settings DEF NoRequest, Req, ReqPlace

LEMMA AtPlaceOK ==
    ASSUME NEW q \in Req, NEW place \in ReqPlace
    PROVE  /\ AtPlace(q, place) \in Req /\ AtPlace(q, place).at = place
           /\ place \notin Ended => AtPlace(q, place).ask = q.ask /\ AtPlace(q, place).needs = q.needs
  <1>1. CASE place \in Ended
    BY <1>1, NoRequestOK DEF AtPlace, Req
  <1>2. CASE place \notin Ended
    BY <1>2, NoRequestOK DEF AtPlace, Req
  <1> QED
    BY <1>1, <1>2

-----------------------------------------------------------------------------
\* One request moves on; at most entries of the cache go.
LEMMA OneRequest ==
    ASSUME Inv, NEW r \in Request, NEW q, Fits(q), Holds(q), req[r].at # "invalidate",
           req' = [req EXCEPT ![r] = q], now' = now, perm' = perm, last' = last,
           active' \in [Operator -> Entry],
           \A o \in Operator : active'[o] \in {active[o], NoEntry}
    PROVE  Inv'
  <1>1. /\ req' \in [Request -> Req] /\ req'[r] = q
        /\ \A p \in Request : p # r => req'[p] = req[p]
    BY DEF Inv, TypeInv, Fits
  <1>2. TypeInv'
    BY <1>1 DEF Inv, TypeInv, Fits
  <1>3. LastInv'
    BY DEF Inv, LastInv
  <1>4. GotInv'
    BY <1>1 DEF Inv, GotInv, Holds
  <1>5. EntryInv'
    BY NoEntryOK DEF Inv, EntryInv
  <1>6. CacheFollowsTable'
    BY <1>1, NoEntryOK DEF Inv, CacheFollowsTable
  <1> QED
    BY <1>2, <1>3, <1>4, <1>5, <1>6 DEF Inv

LEMMA SameCache == ASSUME Inv PROVE active \in [Operator -> Entry]
  BY DEF Inv, TypeInv

\* It moves to a place where it holds nothing.
LEMMA Moves ==
    ASSUME Inv, NEW r \in Request, NEW p \in Req, NEW place \in ReqPlace, place # "set",
           place \in {"authorize", "read"} => p.ask.by \in Operator, req[r].at # "invalidate",
           req' = [req EXCEPT ![r] = AtPlace(p, place)], now' = now, perm' = perm, last' = last,
           active' \in [Operator -> Entry],
           \A o \in Operator : active'[o] \in {active[o], NoEntry}
    PROVE  Inv'
  <1>1. Fits(AtPlace(p, place)) /\ Holds(AtPlace(p, place))
    BY AtPlaceOK DEF Fits, Holds, Ended
  <1> QED
    BY <1>1, OneRequest

LEMMA ReqOK == ASSUME Inv, NEW r \in Request
               PROVE  /\ req[r] \in Req /\ Fits(req[r]) /\ Holds(req[r])
                      /\ req[r].ask \in Ask /\ now \in Nat /\ now \in Time
  BY Settings DEF Inv, TypeInv, GotInv, Req

LEMMA BeginKeeps == ASSUME Inv, NEW r \in Request, NEW a \in Ask, Begin(r, a) PROVE Inv'
  <1> DEFINE p == [req[r] EXCEPT !.ask = a, !.needs = a.route.needs]
  <1>1. p \in Req
    BY ReqOK, AskOK DEF Req
  <1>2. PICK place \in {"consume", "refused"} : req' = [req EXCEPT ![r] = AtPlace(p, place)]
    BY DEF Begin
  <1>3. req[r].at # "invalidate" /\ UNCHANGED <<now, perm, active, last>>
    BY DEF Begin, cacheVars
  <1> HIDE DEF p
  <1> QED
    BY <1>1, <1>2, <1>3, Moves, SameCache DEF ReqPlace

LEMMA AdmitOK == ASSUME Inv, NEW r \in Request
                 PROVE  /\ Admit(r) \in ReqPlace \ {"set", "read", "delete"}
                        /\ Admit(r) = "authorize" => req[r].ask.by \in Operator
  BY ReqOK, AskOK, Settings DEF Admit, ReqPlace

LEMMA ConsumeKeeps == ASSUME Inv, NEW r \in Request, Consume(r) \/ DeleteChallenge(r) PROVE Inv'
  <1>1. PICK place \in {Admit(r), "delete", "refused"} : req' = [req EXCEPT ![r] = AtPlace(req[r], place)]
    BY ReqOK DEF Consume, DeleteChallenge, Pass, Refuse, Goto, Inv, TypeInv
  <1>2. req[r].at # "invalidate" /\ UNCHANGED <<now, perm, active, last>>
    BY DEF Consume, DeleteChallenge, cacheVars
  <1>3. place \in ReqPlace /\ place \notin {"set", "read"}
        /\ (place = "authorize" => req[r].ask.by \in Operator)
    BY AdmitOK DEF ReqPlace
  <1> QED
    BY <1>1, <1>2, <1>3, ReqOK, Moves, SameCache

\* A decision sends the request on, or back for the pause.
LEMMA DecideOK ==
    ASSUME Inv, NEW r \in Request, NEW row, Decide(r, row), req[r].at \in {"authorize", "set"}
    PROVE  \E p \in Req : \E place \in ReqPlace \ {"set", "read"} :
             /\ p.ask.by \in Operator
             /\ req' = [req EXCEPT ![r] = AtPlace(p, place)]
             /\ place \in {"done", "listRead"} => Has(row, req[r].needs)
  <1> DEFINE again == [req[r] EXCEPT !.needs = {"pause"}]
  <1>1. req[r] \in Req /\ req[r].ask.by \in Operator
    BY ReqOK DEF Fits
  <1>2. again \in Req /\ again.ask = req[r].ask
    BY <1>1, NeedSetOK DEF Req
  <1> HIDE DEF again
  <1>a. \A place \in ReqPlace \ {"set", "read"} : Goto(r, place) => req' = [req EXCEPT ![r] = AtPlace(req[r], place)]
    BY DEF Goto, Inv, TypeInv
  <1>b. {"refused", "listRead", "done", "authorize"} \subseteq ReqPlace \ {"set", "read"}
    BY DEF ReqPlace
  <1>3. CASE ~Has(row, req[r].needs) /\ Goto(r, "refused")
    <2>1. req' = [req EXCEPT ![r] = AtPlace(req[r], "refused")] /\ "refused" \notin {"done", "listRead"}
      BY <1>a, <1>b, <1>3
    <2> QED
      BY <1>1, <1>b, <2>1
  <1>4. CASE /\ Has(row, req[r].needs)
             /\ Goto(r, IF req[r].ask.route.does = "list" THEN "listRead" ELSE "done")
    <2>1. PICK place \in {"listRead", "done"} : Goto(r, place)
      BY <1>4
    <2>2. req' = [req EXCEPT ![r] = AtPlace(req[r], place)] /\ place \in ReqPlace \ {"set", "read"}
      BY <1>a, <1>b, <2>1
    <2> QED
      BY <1>1, <1>4, <2>2
  <1>5. CASE req' = [req EXCEPT ![r] = AtPlace(again, "authorize")]
    <2>1. again.ask.by \in Operator /\ "authorize" \notin {"done", "listRead"}
      BY <1>1, <1>2
    <2> QED
      BY <1>2, <1>b, <1>5, <2>1
  <1> QED
    BY <1>3, <1>4, <1>5 DEF Decide, again, Inv, TypeInv

LEMMA HitKeeps == ASSUME Inv, NEW r \in Request, Hit(r) PROVE Inv'
  <1>1. UNCHANGED <<now, perm, active, last>> /\ req[r].at = "authorize"
            /\ Decide(r, active[Who(r)].row)
    BY DEF Hit, cacheVars
  <1>2. PICK p \in Req, place \in ReqPlace \ {"set", "read"} :
             p.ask.by \in Operator /\ req' = [req EXCEPT ![r] = AtPlace(p, place)]
    BY <1>1, DecideOK
  <1> QED
    BY <1>1, <1>2, Moves, SameCache

LEMMA MissKeeps == ASSUME Inv, NEW r \in Request, Miss(r) PROVE Inv'
  <1>1. req[r].at = "authorize" /\ Goto(r, "read") /\ UNCHANGED <<now, perm, last>>
            /\ active' = [active EXCEPT ![Who(r)] = NoEntry]
    BY DEF Miss
  <1>2. active' \in [Operator -> Entry] /\ \A o \in Operator : active'[o] \in {active[o], NoEntry}
    BY <1>1, NoEntryOK DEF Inv, TypeInv
  <1>3. req' = [req EXCEPT ![r] = AtPlace(req[r], "read")]
    BY <1>1 DEF Goto, Inv, TypeInv
  <1>4. req[r].ask.by \in Operator
    BY <1>1, ReqOK DEF Fits
  <1> QED
    BY <1>1, <1>2, <1>3, <1>4, ReqOK, Moves DEF ReqPlace

LEMMA ReadRowKeeps == ASSUME Inv, NEW r \in Request, ReadRow(r) PROVE Inv'
  <1>1. req[r].at = "read" /\ UNCHANGED <<now, perm, active, last>>
    BY DEF ReadRow, cacheVars
  <1>2. PICK row \in {perm[Who(r)], Older(perm[Who(r)]), NoRow} :
          req' = [req EXCEPT ![r].at = "set", ![r].since = now, ![r].late = FALSE, ![r].got = row]
    BY DEF ReadRow
  <1> DEFINE q == [req[r] EXCEPT !.at = "set", !.since = now, !.late = FALSE, !.got = row]
  <1>3. Who(r) \in Operator /\ Who(r) = req[r].ask.by
    BY <1>1, ReqOK DEF Fits, Who
  <1>4. row \in Row /\ \A g : Has(row, g) => Has(perm[Who(r)], g)
    BY <1>2, <1>3, RowsOK DEF Inv, TypeInv
  <1>5. /\ q \in Req /\ q.at = "set" /\ q.since = now /\ q.late = FALSE /\ q.got = row
        /\ q.ask = req[r].ask
    BY <1>4, ReqOK DEF Req, ReqPlace
  <1>6. req' = [req EXCEPT ![r] = q]
    BY <1>2 DEF Inv, TypeInv
  <1> HIDE DEF q
  <1>7. Fits(q)
    BY <1>3, <1>5 DEF Fits
  <1>8. Holds(q)
    <2>1. \A g \in NeedSet : Has(q.got, g) => now <= last[q.ask.by][g]
      BY <1>3, <1>4, <1>5, ReqOK DEF Inv, LastInv
    <2>2. now <= now + ReadDelay /\ now <= now
      BY ReqOK, Settings
    <2> QED
      BY <1>2, <1>3, <1>5, <2>1, <2>2 DEF Holds
  <1> QED
    BY <1>1, <1>6, <1>7, <1>8, OneRequest, SameCache

LEMMA SetActiveKeeps == ASSUME Inv, NEW r \in Request, SetActive(r) PROVE Inv'
  <1> DEFINE o == Who(r)
             entry == [row |-> req[r].got, until |-> now + CacheTtl, late |-> req[r].late]
  <1>1. req[r].at = "set" /\ UNCHANGED <<now, perm, last>> /\ Decide(r, req[r].got)
    BY DEF SetActive
  <1>2. PICK p \in Req, place \in ReqPlace \ {"set", "read"} :
             p.ask.by \in Operator /\ req' = [req EXCEPT ![r] = AtPlace(p, place)]
    BY <1>1, DecideOK
  <1>3. o \in Operator /\ o = req[r].ask.by
    BY <1>1, ReqOK DEF Fits, Who
  <1>4. entry \in Entry
    BY ReqOK, Settings DEF Entry, Req
  <1>5. \A u \in Operator : active'[u] = active[u] \/ active'[u] = NoEntry \/ (u = o /\ active'[u] = entry)
    BY DEF SetActive
  <1>6. active' \in [Operator -> Entry]
    BY <1>4, NoEntryOK DEF SetActive, Inv, TypeInv
  <1>7. /\ req' \in [Request -> Req] /\ Fits(req'[r]) /\ req'[r].at # "set"
        /\ \A s \in Request : s # r => req'[s] = req[s]
    <2>1. AtPlace(p, place) \in Req /\ AtPlace(p, place).at = place
          /\ (place \notin Ended => AtPlace(p, place).ask = p.ask)
      BY <1>2, AtPlaceOK
    <2>2. Fits(AtPlace(p, place)) /\ AtPlace(p, place).at # "set"
      BY <1>2, <2>1 DEF Fits, Ended
    <2> QED
      BY <1>2, <2>1, <2>2 DEF Inv, TypeInv
  <1> HIDE DEF o, entry
  <1>8. TypeInv'
    BY <1>1, <1>6, <1>7 DEF Inv, TypeInv, Fits
  <1>9. LastInv'
    BY <1>1 DEF Inv, LastInv
  <1>10. GotInv'
    BY <1>1, <1>7 DEF Inv, GotInv, Holds
  <1>11. EntryInv'
    <2> SUFFICES ASSUME NEW u \in Operator, NEW g \in NeedSet,
                        active'[u].until # -1, Has(active'[u].row, g)
                 PROVE  last[u][g] # -1 /\ active'[u].until <= last[u][g] + CacheTtl + ReadDelay
      BY <1>1 DEF EntryInv
    <2>1. CASE active'[u] = active[u]
      BY <2>1 DEF Inv, EntryInv
    <2>2. CASE active'[u] = NoEntry
      BY <2>2, NoEntryOK
    <2>3. CASE u = o /\ active'[u] = entry
      <3>1. active'[u].row = req[r].got /\ active'[u].until = now + CacheTtl
        BY <2>3 DEF entry
      <3>2. req[r].since <= last[u][g] /\ now <= req[r].since + ReadDelay
        BY <1>1, <1>3, <2>3, <3>1, ReqOK DEF Holds
      <3>3. now \in Nat /\ req[r].since \in Nat /\ last[u][g] \in Int
        <4>1. last \in [Operator -> [NeedSet -> Time \cup {-1}]]
          BY DEF Inv, TypeInv
        <4>2. req[r].since \in Time /\ now \in Nat
          BY ReqOK DEF Req
        <4> QED
          BY <4>1, <4>2, Settings
      <3> QED
        BY <3>1, <3>2, <3>3, Settings
    <2> QED
      BY <1>5, <2>1, <2>2, <2>3
  <1>12. CacheFollowsTable'
    <2> SUFFICES ASSUME NEW u \in Operator
                 PROVE  \/ active'[u].until = -1
                        \/ active'[u].late
                        \/ active'[u].row \in {perm[u], Older(perm[u]), NoRow}
                        \/ \E s \in Request : req'[s].at = "invalidate" /\ req'[s].ask.about = u
      BY <1>1 DEF CacheFollowsTable
    <2>1. CASE active'[u] = active[u]
      BY <1>1, <1>7, <2>1 DEF Inv, CacheFollowsTable
    <2>2. CASE active'[u] = NoEntry
      BY <2>2, NoEntryOK
    <2>3. CASE u = o /\ active'[u] = entry
      <3>1. active'[u].row = req[r].got /\ active'[u].late = req[r].late
        BY <2>3 DEF entry
      <3> QED
        BY <1>1, <1>3, <2>3, <3>1, ReqOK DEF Holds
    <2> QED
      BY <1>5, <2>1, <2>2, <2>3
  <1> QED
    BY <1>8, <1>9, <1>10, <1>11, <1>12 DEF Inv

LEMMA ReadListKeeps == ASSUME Inv, NEW r \in Request, ReadList(r) PROVE Inv'
  <1>1. req[r].at = "listRead" /\ UNCHANGED <<now, perm, active, last>>
    BY DEF ReadList
  <1>2. CASE Goto(r, "done")
    <2>1. req' = [req EXCEPT ![r] = AtPlace(req[r], "done")]
      BY <1>2 DEF Goto, Inv, TypeInv
    <2> QED
      BY <1>1, <2>1, ReqOK, Moves, SameCache DEF ReqPlace
  <1>3. ASSUME NEW rows \in [Operator -> Row],
               req' = [req EXCEPT ![r].at = "listSet", ![r].since = now, ![r].gotList = rows]
        PROVE  Inv'
    <2> DEFINE q == [req[r] EXCEPT !.at = "listSet", !.since = now, !.gotList = rows]
    <2>1. q \in Req /\ q.at = "listSet"
      BY ReqOK DEF Req, ReqPlace
    <2>2. req' = [req EXCEPT ![r] = q]
      BY <1>3 DEF Inv, TypeInv
    <2> HIDE DEF q
    <2>3. Fits(q) /\ Holds(q)
      BY <2>1 DEF Fits, Holds
    <2> QED
      BY <1>1, <2>2, <2>3, OneRequest, SameCache
  <1>4. perm \in [Operator -> Row] /\ NoList.rows \in [Operator -> Row]
        /\ [o \in Operator |-> Older(perm[o])] \in [Operator -> Row]
    BY RowsOK DEF NoList, Inv, TypeInv
  <1>5. \/ Goto(r, "done")
        \/ \E rows \in {perm, [o \in Operator |-> Older(perm[o])], NoList.rows} :
             req' = [req EXCEPT ![r].at = "listSet", ![r].since = now, ![r].gotList = rows]
    BY DEF ReadList
  <1> QED
    BY <1>2, <1>3, <1>4, <1>5

LEMMA SetListKeeps == ASSUME Inv, NEW r \in Request, SetList(r) PROVE Inv'
  <1>1. req[r].at = "listSet" /\ UNCHANGED <<now, perm, active, last>>
            /\ req' = [req EXCEPT ![r] = AtPlace(req[r], "done")]
    BY DEF SetList, Goto, Inv, TypeInv
  <1> QED
    BY <1>1, ReqOK, Moves, SameCache DEF ReqPlace

\* An upsert marks the requests whose SELECT it has overtaken.
LEMMA WriteRowKeeps == ASSUME Inv, NEW r \in Request, WriteRow(r) PROVE Inv'
  <1> DEFINE o == req[r].ask.about
             new == req[r].ask.row
             older == [new EXCEPT !.grants = (@ \cap OldGrant) \cup (perm[o].grants \ OldGrant)]
  <1>1. /\ req[r].at = "write" /\ UNCHANGED <<now, active>>
        /\ perm' = [perm EXCEPT ![o] = new] \/ perm' = [perm EXCEPT ![o] = older]
        /\ req' = [q \in Request |-> IF q = r THEN AtPlace(req[q], "invalidate")
                                     ELSE [req[q] EXCEPT !.late = @ \/ (req[q].at = "set" /\ Who(q) = o)]]
        /\ Remember(perm', now)
    BY DEF WriteRow, cacheVars
  <1>2. o \in Operator /\ new \in Row
    BY ReqOK, AskOK
  <1>3. older \in Row
    BY <1>2 DEF Row, OldGrant, Inv, TypeInv
  <1>4. perm' \in [Operator -> Row] /\ \A u \in Operator : u # o => perm'[u] = perm[u]
    BY <1>1, <1>2, <1>3 DEF Inv, TypeInv
  <1> HIDE DEF new, older
  <1>5. /\ req'[r] \in Req /\ req'[r].at = "invalidate" /\ req'[r].ask = req[r].ask
    BY <1>1, ReqOK, AtPlaceOK DEF ReqPlace, Ended
  <1>6. \A q \in Request : q # r =>
          /\ req'[q] \in Req /\ req'[q].at = req[q].at /\ req'[q].ask = req[q].ask
          /\ req'[q].got = req[q].got /\ req'[q].since = req[q].since
          /\ req[q].late => req'[q].late
          /\ req[q].at = "set" /\ req[q].ask.by = o => req'[q].late
    <2> SUFFICES ASSUME NEW q \in Request, q # r
                 PROVE  /\ req'[q] \in Req /\ req'[q].at = req[q].at /\ req'[q].ask = req[q].ask
                        /\ req'[q].got = req[q].got /\ req'[q].since = req[q].since
                        /\ req[q].late => req'[q].late
                        /\ req[q].at = "set" /\ req[q].ask.by = o => req'[q].late
      OBVIOUS
    <2> DEFINE b == req[q].late \/ (req[q].at = "set" /\ Who(q) = o)
    <2>1. req'[q] = [req[q] EXCEPT !.late = b]
      BY <1>1
    <2>2. b \in BOOLEAN /\ (req[q].late => b) /\ (req[q].at = "set" /\ req[q].ask.by = o => b)
      BY ReqOK DEF Req, Who
    <2> HIDE DEF b
    <2>3. req[q] \in Req
      BY ReqOK
    <2> QED
      BY <2>1, <2>2, <2>3 DEF Req
  <1> HIDE DEF o
  <1>7. req' \in [Request -> Req]
    BY <1>1, <1>5, <1>6
  <1>8. \A u \in Operator : \A g \in NeedSet : last'[u][g] = IF Has(perm'[u], g) THEN now ELSE last[u][g]
    BY <1>1 DEF Remember
  <1>9. last' \in [Operator -> [NeedSet -> Time \cup {-1}]]
    BY <1>1, ReqOK DEF Remember, Inv, TypeInv
  <1>10. \A u \in Operator : \A g \in NeedSet :
            /\ last[u][g] \in Int /\ last'[u][g] \in Int /\ last[u][g] <= now
            /\ last[u][g] <= last'[u][g] /\ last'[u][g] <= now
            /\ Has(perm'[u], g) => last'[u][g] = now
    <2> SUFFICES ASSUME NEW u \in Operator, NEW g \in NeedSet
                 PROVE  /\ last[u][g] \in Int /\ last'[u][g] \in Int /\ last[u][g] <= now
                        /\ last[u][g] <= last'[u][g] /\ last'[u][g] <= now
                        /\ Has(perm'[u], g) => last'[u][g] = now
      OBVIOUS
    <2>1. last[u][g] \in Int /\ last'[u][g] \in Int /\ now \in Nat
      <3>1. last \in [Operator -> [NeedSet -> Time \cup {-1}]] /\ now \in Nat
        BY Settings DEF Inv, TypeInv
      <3>2. last[u][g] \in Int
        BY <3>1, LastOK
      <3>3. last'[u][g] \in Int
        BY <1>9, LastOK
      <3> QED
        BY <3>1, <3>2, <3>3
    <2>2. last[u][g] <= now
      BY DEF Inv, LastInv
    <2> QED
      BY <1>8, <2>1, <2>2
  <1>11. TypeInv'
    BY <1>1, <1>4, <1>5, <1>6, <1>7, <1>9 DEF Inv, TypeInv, Fits
  <1>12. LastInv'
    BY <1>1, <1>10 DEF LastInv
  <1>13. GotInv'
    <2> SUFFICES ASSUME NEW q \in Request, req'[q].at = "set" PROVE Holds(req[q])'
      BY DEF GotInv, Holds
    <2>1. q # r /\ req[q].at = "set" /\ req[q].ask.by \in Operator /\ Holds(req[q])
      BY <1>5, <1>6, ReqOK DEF Fits
    <2>2. now \in Nat /\ req[q].since \in Int
      BY ReqOK, Settings DEF Req
    <2>3. \A g \in NeedSet : Has(req[q].got, g) => req[q].since <= last'[req[q].ask.by][g]
      BY <1>10, <2>1, <2>2 DEF Holds
    <2>4. req'[q].late \/ req[q].got \in {perm'[req[q].ask.by], Older(perm'[req[q].ask.by]), NoRow}
      BY <1>4, <1>6, <2>1 DEF Holds
    <2>5. req[q].since <= now /\ now <= req[q].since + ReadDelay
      BY <2>1 DEF Holds
    <2> QED
      BY <1>1, <1>6, <2>1, <2>3, <2>4, <2>5 DEF Holds
  <1>14. EntryInv'
    <2> SUFFICES ASSUME NEW u \in Operator, NEW g \in NeedSet,
                        active[u].until # -1, Has(active[u].row, g)
                 PROVE  last'[u][g] # -1 /\ active[u].until <= last'[u][g] + CacheTtl + ReadDelay
      BY <1>1 DEF EntryInv
    <2>1. last[u][g] # -1 /\ active[u].until <= last[u][g] + CacheTtl + ReadDelay
      BY DEF Inv, EntryInv
    <2>2. active[u].until \in Int /\ last[u][g] \in Time \cup {-1}
      BY DEF Inv, TypeInv, Entry
    <2> QED
      BY <1>10, <2>1, <2>2, Settings
  <1>15. CacheFollowsTable'
    <2> SUFFICES ASSUME NEW u \in Operator
                 PROVE  \/ active[u].until = -1
                        \/ active[u].late
                        \/ active[u].row \in {perm'[u], Older(perm'[u]), NoRow}
                        \/ \E s \in Request : req'[s].at = "invalidate" /\ req'[s].ask.about = u
      BY <1>1 DEF CacheFollowsTable
    <2>1. CASE u = o
      BY <1>5, <2>1 DEF o
    <2>2. CASE u # o
      BY <1>1, <1>4, <1>6, <2>2 DEF Inv, CacheFollowsTable
    <2> QED
      BY <2>1, <2>2
  <1> QED
    BY <1>11, <1>12, <1>13, <1>14, <1>15 DEF Inv

LEMMA InvalidateKeeps == ASSUME Inv, NEW r \in Request, Invalidate(r) PROVE Inv'
  <1> DEFINE o == req[r].ask.about
  <1>1. /\ req[r].at = "invalidate" /\ UNCHANGED <<now, perm, last>>
        /\ active' = [active EXCEPT ![o] = NoEntry]
        /\ req' = [req EXCEPT ![r] = AtPlace(req[r], "done")]
    BY DEF Invalidate, Goto, Inv, TypeInv
  <1>2. o \in Operator
    BY ReqOK, AskOK
  <1>3. /\ active' \in [Operator -> Entry] /\ active'[o] = NoEntry
        /\ \A u \in Operator : u # o => active'[u] = active[u]
    BY <1>1, <1>2, NoEntryOK DEF Inv, TypeInv
  <1>4. /\ req' \in [Request -> Req] /\ req'[r].at = "done"
        /\ \A s \in Request : s # r => req'[s] = req[s]
    BY <1>1, ReqOK, AtPlaceOK DEF ReqPlace, Inv, TypeInv
  <1> HIDE DEF o
  <1>5. TypeInv'
    BY <1>1, <1>3, <1>4 DEF Inv, TypeInv, Fits
  <1>6. LastInv'
    BY <1>1 DEF Inv, LastInv
  <1>7. GotInv'
    BY <1>1, <1>4 DEF Inv, GotInv, Holds
  <1>8. EntryInv'
    BY <1>1, <1>3, NoEntryOK DEF Inv, EntryInv
  <1>9. CacheFollowsTable'
    BY <1>1, <1>3, <1>4, NoEntryOK DEF Inv, CacheFollowsTable, o
  <1> QED
    BY <1>5, <1>6, <1>7, <1>8, <1>9 DEF Inv

LEMMA TickKeeps == ASSUME Inv, Tick PROVE Inv'
  <1>1. /\ now' = now + 1 /\ now' \in Time /\ now \in Nat /\ UNCHANGED <<perm, active, req>>
        /\ \A r \in Request : req[r].at = "set" => now < req[r].since + ReadDelay
    BY Settings DEF Tick, cacheVars, Inv, TypeInv, Time
  <1>2. \A u \in Operator : \A g \in NeedSet :
          last'[u][g] = IF Has(perm[u], g) THEN now + 1 ELSE last[u][g]
    BY DEF Tick, Remember
  <1>3. last' \in [Operator -> [NeedSet -> Time \cup {-1}]]
    BY <1>1 DEF Tick, Remember, Inv, TypeInv
  <1>4. \A u \in Operator : \A g \in NeedSet :
            /\ last[u][g] \in Int /\ last'[u][g] \in Int /\ last[u][g] <= now
            /\ last[u][g] <= last'[u][g] /\ last'[u][g] <= now'
            /\ Has(perm[u], g) => last'[u][g] = now'
    <2> SUFFICES ASSUME NEW u \in Operator, NEW g \in NeedSet
                 PROVE  /\ last[u][g] \in Int /\ last'[u][g] \in Int /\ last[u][g] <= now
                        /\ last[u][g] <= last'[u][g] /\ last'[u][g] <= now'
                        /\ Has(perm[u], g) => last'[u][g] = now'
      OBVIOUS
    <2>1. last[u][g] \in Int /\ last'[u][g] \in Int
      <3>1. last \in [Operator -> [NeedSet -> Time \cup {-1}]]
        BY DEF Inv, TypeInv
      <3>2. last[u][g] \in Int
        BY <3>1, LastOK
      <3>3. last'[u][g] \in Int
        BY <1>3, LastOK
      <3> QED
        BY <3>2, <3>3
    <2>2. last[u][g] <= now
      BY DEF Inv, LastInv
    <2> QED
      BY <1>1, <1>2, <2>1, <2>2
  <1>5. TypeInv'
    BY <1>1, <1>3 DEF Inv, TypeInv, Fits
  <1>6. LastInv'
    BY <1>1, <1>4 DEF LastInv
  <1>7. GotInv'
    <2> SUFFICES ASSUME NEW q \in Request, req[q].at = "set" PROVE Holds(req[q])'
      BY <1>1 DEF GotInv, Holds
    <2>1. req[q].ask.by \in Operator /\ Holds(req[q]) /\ req[q].since \in Nat
      BY ReqOK, Settings DEF Fits, Req
    <2>2. \A g \in NeedSet : Has(req[q].got, g) => req[q].since <= last'[req[q].ask.by][g]
      BY <1>4, <2>1 DEF Holds
    <2>3. req[q].since <= now' /\ now' <= req[q].since + ReadDelay
      BY <1>1, <2>1, Settings DEF Holds
    <2> QED
      BY <1>1, <2>1, <2>2, <2>3 DEF Holds
  <1>8. EntryInv'
    <2> SUFFICES ASSUME NEW u \in Operator, NEW g \in NeedSet,
                        active[u].until # -1, Has(active[u].row, g)
                 PROVE  last'[u][g] # -1 /\ active[u].until <= last'[u][g] + CacheTtl + ReadDelay
      BY <1>1 DEF EntryInv
    <2>1. last[u][g] # -1 /\ active[u].until <= last[u][g] + CacheTtl + ReadDelay
      BY DEF Inv, EntryInv
    <2>2. active[u].until \in Int /\ last[u][g] \in Time \cup {-1}
      BY DEF Inv, TypeInv, Entry
    <2> QED
      BY <1>4, <2>1, <2>2, Settings
  <1>9. CacheFollowsTable'
    BY <1>1 DEF Inv, CacheFollowsTable
  <1> QED
    BY <1>5, <1>6, <1>7, <1>8, <1>9 DEF Inv

LEMMA RestartKeeps == ASSUME Inv, Restart PROVE Inv'
  <1>1. /\ UNCHANGED <<now, perm, last>> /\ active' = [o \in Operator |-> NoEntry]
        /\ req' = [r \in Request |-> IF req[r].at \in Ended \cup {"idle"} THEN req[r]
                                     ELSE AtPlace(req[r], "refused")]
    BY DEF Restart
  <1>2. \A r \in Request : req'[r] \in Req /\ req'[r].at \in Ended \cup {"idle"}
    BY <1>1, ReqOK, AtPlaceOK DEF ReqPlace, Ended
  <1>3. TypeInv'
    BY <1>1, <1>2, NoEntryOK DEF Inv, TypeInv, Fits, Ended
  <1>4. LastInv'
    BY <1>1 DEF Inv, LastInv
  <1>5. GotInv'
    BY <1>2 DEF GotInv, Holds, Ended
  <1>6. EntryInv' /\ CacheFollowsTable'
    BY <1>1, NoEntryOK DEF EntryInv, CacheFollowsTable
  <1> QED
    BY <1>3, <1>4, <1>5, <1>6 DEF Inv

-----------------------------------------------------------------------------
LEMMA Initially == Init => Inv
  <1> SUFFICES ASSUME Init PROVE Inv
    OBVIOUS
  <1>1. perm \in [Operator -> Row]
    BY AccessAssumption DEF Init
  <1>2. \A o \in Operator : \A g \in NeedSet : last[o][g] = IF Has(perm[o], g) THEN 0 ELSE -1
    BY DEF Init
  <1>3. TypeInv
    BY <1>1, Settings, NoEntryOK, NoRequestOK DEF Init, TypeInv, Fits
  <1>4. LastInv
    BY <1>2 DEF Init, LastInv
  <1>5. GotInv /\ EntryInv /\ CacheFollowsTable
    BY NoRequestOK, NoEntryOK DEF Init, GotInv, Holds, EntryInv, CacheFollowsTable
  <1> QED
    BY <1>3, <1>4, <1>5 DEF Inv

LEMMA Quiet == ASSUME Inv, UNCHANGED <<now, perm, active, req, last>> PROVE Inv'
  BY DEF Inv, TypeInv, Fits, LastInv, GotInv, Holds, EntryInv, CacheFollowsTable

LEMMA StepKeeps == ASSUME Inv, [Next]_vars PROVE Inv'
  <1>1. ASSUME NEW r \in Request, RequestStep(r) PROVE Inv'
    BY <1>1, BeginKeeps, ConsumeKeeps, HitKeeps, MissKeeps, ReadRowKeeps, SetActiveKeeps,
       ReadListKeeps, SetListKeeps, WriteRowKeeps, InvalidateKeeps DEF RequestStep
  <1>2. ASSUME NEW a \in Ask, IssueChallenge(a) PROVE Inv'
    BY <1>2, Quiet DEF IssueChallenge, cacheVars
  <1>3. CASE UNCHANGED vars
    BY <1>3, Quiet DEF vars, cacheVars
  <1> QED
    BY <1>1, <1>2, <1>3, TickKeeps, RestartKeeps DEF Next

LEMMA Invariant == Spec => []Inv
  BY Initially, StepKeeps, PTL DEF Spec

\* operator-permission-cache.ts: the cache says of an operator what the table says, or less,
\* unless its SELECT was overtaken by an upsert or an upsert is about to invalidate it.
THEOREM CacheAlwaysFollows == Spec => []CacheFollowsTable
  <1>1. Inv => CacheFollowsTable
    BY DEF Inv
  <1> QED
    BY <1>1, Invariant, PTL

\* A request is let in by what it has found in the cache, or by what its SELECT returned.
LEMMA DecisionsAreRecent ==
    ASSUME Inv, [Next]_vars, NEW r \in Request, req[r].at \in {"authorize", "set"},
           req'[r].at # req[r].at, req'[r].at \in {"done", "listRead"}
    PROVE  /\ last[Who(r)][req[r].needs] # -1
           /\ now <= last[Who(r)][req[r].needs] + CacheTtl + ReadDelay
  <1>1. Who(r) \in Operator /\ Who(r) = req[r].ask.by /\ req[r].needs \in NeedSet /\ now \in Nat
    BY ReqOK DEF Fits, Who, Req
  <1>2. last[Who(r)][req[r].needs] \in Int /\ active[Who(r)].until \in Int /\ req[r].since \in Nat
    <2>1. last \in [Operator -> [NeedSet -> Time \cup {-1}]] /\ active[Who(r)] \in Entry /\ req[r] \in Req
      BY <1>1 DEF Inv, TypeInv
    <2>2. last[Who(r)][req[r].needs] \in Int
      BY <1>1, <2>1, LastOK
    <2>3. active[Who(r)].until \in Int
      BY <2>1 DEF Entry
    <2>4. req[r].since \in Time
      BY <2>1 DEF Req
    <2> QED
      BY <2>2, <2>3, <2>4, Settings
  <1>3. ASSUME NEW row, Decide(r, row) PROVE Has(row, req[r].needs)
    <2>1. PICK p \in Req, place \in ReqPlace \ {"set", "read"} :
             /\ req' = [req EXCEPT ![r] = AtPlace(p, place)]
             /\ place \in {"done", "listRead"} => Has(row, req[r].needs)
      BY <1>3, DecideOK
    <2>2. req'[r].at = place
      BY <2>1, AtPlaceOK DEF Inv, TypeInv
    <2> QED
      BY <2>1, <2>2
  <1>4. CASE Hit(r)
    <2>1. now < active[Who(r)].until /\ Has(active[Who(r)].row, req[r].needs)
      BY <1>3, <1>4 DEF Hit
    <2>2. active[Who(r)].until # -1
      BY <1>1, <1>2, <2>1
    <2>3. /\ last[Who(r)][req[r].needs] # -1
          /\ active[Who(r)].until <= last[Who(r)][req[r].needs] + CacheTtl + ReadDelay
      BY <1>1, <2>1, <2>2 DEF Inv, EntryInv
    <2> QED
      BY <1>1, <1>2, <2>1, <2>3, Settings, SMTT(30)
  <1>5. CASE SetActive(r)
    <2>1. req[r].at = "set" /\ Has(req[r].got, req[r].needs)
      BY <1>3, <1>5 DEF SetActive
    <2>2. now <= req[r].since + ReadDelay /\ req[r].since <= last[Who(r)][req[r].needs]
      BY <1>1, <2>1, ReqOK DEF Holds
    <2> QED
      BY <1>1, <1>2, <2>2, Settings
  <1>6. CASE Miss(r) \/ ReadRow(r)
    <2>1. req'[r].at \in {"read", "set"}
      <3>1. CASE Miss(r)
        <4>1. req' = [req EXCEPT ![r] = AtPlace(req[r], "read")]
          BY <3>1 DEF Miss, Goto, Inv, TypeInv
        <4> QED
          BY <4>1, ReqOK, AtPlaceOK DEF ReqPlace, Inv, TypeInv
      <3>2. CASE ReadRow(r)
        BY <3>2 DEF ReadRow
      <3> QED
        BY <1>6, <3>1, <3>2
    <2> QED
      BY <2>1
  <1>7. ASSUME NEW s \in Request, s # r, RequestStep(s) PROVE req'[r].at = req[r].at
    <2>1. CASE WriteRow(s)
      <3>1. req'[r] = [req[r] EXCEPT !.late = @ \/ (req[r].at = "set" /\ Who(r) = req[s].ask.about)]
        BY <1>7, <2>1 DEF WriteRow
      <3> QED
        BY <3>1, ReqOK DEF Req
    <2>2. CASE ~WriteRow(s)
      <3>1. req \in [Request -> Req]
        BY DEF Inv, TypeInv
      <3> QED
        BY <1>7, <2>2, <3>1 DEF RequestStep, Begin, Consume, DeleteChallenge, Pass, Refuse, Goto, Hit,
           Decide, Miss, ReadRow, SetActive, ReadList, SetList, Invalidate
    <2> QED
      BY <2>1, <2>2
  <1>8. CASE RequestStep(r)
    BY <1>4, <1>5, <1>6, <1>8 DEF RequestStep, Begin, Consume, DeleteChallenge, ReadList, SetList,
       WriteRow, Invalidate
  <1>9. ASSUME NEW a \in Ask, IssueChallenge(a) PROVE FALSE
    BY <1>9 DEF IssueChallenge
  <1>10. ASSUME Restart PROVE FALSE
    <2>1. req'[r] = AtPlace(req[r], "refused")
      BY <1>10 DEF Restart, Ended
    <2> QED
      BY <2>1, ReqOK, AtPlaceOK DEF ReqPlace
  <1> QED
    BY <1>7, <1>8, <1>9, <1>10 DEF Next, Tick, vars

\* services/auth/wallet-authorization.ts: whatever is stale, evicted or lost, an operator is
\* let in only with what the table gave it no longer ago than one time to live of the cache
\* and one answer of the database.
THEOREM DecisionsAlwaysRecent == Spec => DecisionIsRecent
  <1>1. Inv /\ [Next]_vars =>
          [\A r \in Request :
             req[r].at \in {"authorize", "set"} /\ req'[r].at # req[r].at
                     /\ req'[r].at \in {"done", "listRead"}
                 => /\ last[Who(r)][req[r].needs] # -1
                    /\ now <= last[Who(r)][req[r].needs] + CacheTtl + ReadDelay]_vars
    BY DecisionsAreRecent
  <1> QED
    BY <1>1, Invariant, PTL DEF Spec, DecisionIsRecent

-----------------------------------------------------------------------------
(***************************************************************************)
(* The challenge stores implement ChallengeLedger.                         *)
(***************************************************************************)
Challenge == [by : Wallet, route : Route, until : Nat \cup {-1}]

\* A challenge that is held was issued, and nobody has got past with it.
LedgerInv ==
    /\ challenge \in [Nonce -> Challenge]
    /\ \A n \in Nonce : challenge[n].until # -1 => n \in issued /\ \A u \in uses : u[2] # n
    /\ \A u \in uses : u[2] \in issued
    /\ \A r \in Request : req[r].at = "delete" => req[r].ask.nonce \in issued

Keeps == LedgerInv' /\ [Ledger!Next]_(Ledger!vars)

LEMMA NoChallengeOK == NoChallenge \in Challenge /\ NoChallenge.until = -1
  <1>1. WorkerHealthRoute \in Route /\ Owner \in Wallet
    BY Settings DEF Route
  <1> QED
    BY <1>1 DEF NoChallenge, Challenge

LEMMA SweptOK ==
    ASSUME LedgerInv
    PROVE  Swept \in [Nonce -> Challenge] /\ \A n \in Nonce : Swept[n] \in {challenge[n], NoChallenge}
  BY NoChallengeOK DEF LedgerInv, Swept

\* The requests at the DEL, and what they delete.
LEMMA ClaimsStay ==
    ASSUME \A q \in Request : /\ (req'[q].at = "delete") = (req[q].at = "delete")
                              /\ req[q].at = "delete" => req'[q].ask = req[q].ask
    PROVE  claims' = claims
  BY DEF claims

\* Nothing that the ledger speaks of changes.
LEMMA LedgerStutters ==
    ASSUME LedgerInv, UNCHANGED <<issued, uses>>, challenge' \in [Nonce -> Challenge],
           \A n \in Nonce : challenge'[n] \in {challenge[n], NoChallenge},
           \A q \in Request : /\ (req'[q].at = "delete") = (req[q].at = "delete")
                              /\ req[q].at = "delete" => req'[q].ask = req[q].ask
    PROVE  Keeps
  <1>1. claims' = claims
    BY ClaimsStay
  <1>2. UNCHANGED Ledger!vars
    BY <1>1 DEF Ledger!vars
  <1>3. LedgerInv'
    BY NoChallengeOK DEF LedgerInv
  <1> QED
    BY <1>2, <1>3 DEF Keeps

LEMMA ReqDomain == ASSUME Inv PROVE req \in [Request -> Req]
  BY DEF Inv, TypeInv

\* One request that is not at the DEL moves, and not to the DEL.
LEMMA OthersStay ==
    ASSUME Inv, LedgerInv, NEW r \in Request, NEW q, req' = [req EXCEPT ![r] = q],
           req[r].at # "delete", q.at # "delete", UNCHANGED <<issued, uses>>,
           challenge' \in [Nonce -> Challenge],
           \A n \in Nonce : challenge'[n] \in {challenge[n], NoChallenge}
    PROVE  Keeps
  <1>1. \A p \in Request : req'[p] = IF p = r THEN q ELSE req[p]
    BY ReqDomain
  <1> QED
    BY <1>1, LedgerStutters

LEMMA SameChallenges ==
    ASSUME LedgerInv, challenge' = challenge
    PROVE  challenge' \in [Nonce -> Challenge]
           /\ \A n \in Nonce : challenge'[n] \in {challenge[n], NoChallenge}
  BY DEF LedgerInv

LEMMA IssueRefines == ASSUME Inv, LedgerInv, NEW a \in Ask, IssueChallenge(a) PROVE Keeps
  <1> DEFINE new == [by |-> a.by, route |-> a.route, until |-> now + ChallengeTtl]
  <1>1. /\ a.nonce \in Nonce /\ a.nonce \notin issued
        /\ challenge' = [Swept EXCEPT ![a.nonce] = new]
        /\ issued' = issued \cup {a.nonce} /\ uses' = uses /\ req' = req
    BY AskOK DEF IssueChallenge
  <1>2. now \in Nat
    BY Settings DEF Inv, TypeInv
  <1>3. new \in Challenge
    <2>1. now + ChallengeTtl \in Nat
      BY <1>2, Settings
    <2> QED
      BY <2>1, AskOK DEF Challenge
  <1> HIDE DEF new
  <1>4. /\ challenge' \in [Nonce -> Challenge]
        /\ \A n \in Nonce : n # a.nonce => challenge'[n] \in {challenge[n], NoChallenge}
    BY <1>1, <1>3, SweptOK
  <1>5. LedgerInv'
    BY <1>1, <1>4, NoChallengeOK DEF LedgerInv
  <1>6. claims' = claims
    BY <1>1, ClaimsStay
  <1>7. Ledger!Issue(a.nonce)
    BY <1>1, <1>6 DEF Ledger!Issue
  <1> QED
    BY <1>1, <1>5, <1>7 DEF Keeps, Ledger!Next

LEMMA BeginRefines == ASSUME Inv, LedgerInv, NEW r \in Request, NEW a \in Ask, Begin(r, a) PROVE Keeps
  <1> DEFINE p == [req[r] EXCEPT !.ask = a, !.needs = a.route.needs]
  <1>1. p \in Req
    BY ReqOK, AskOK DEF Req
  <1>2. PICK place \in {"consume", "refused"} : req' = [req EXCEPT ![r] = AtPlace(p, place)]
    BY DEF Begin
  <1>3. req[r].at = "idle" /\ UNCHANGED <<issued, uses>> /\ challenge' = Swept
    BY DEF Begin
  <1> HIDE DEF p
  <1>4. AtPlace(p, place).at # "delete"
    BY <1>1, <1>2, AtPlaceOK DEF ReqPlace
  <1> QED
    BY <1>2, <1>3, <1>4, SweptOK, OthersStay

\* A challenge that is valid is unused.
LEMMA ValidIsUnused ==
    ASSUME Inv, LedgerInv, NEW a \in Ask, Valid(a)
    PROVE  a.nonce \in Nonce /\ Ledger!Unused(a.nonce)
  <1>1. a.nonce \in Nonce /\ now \in Nat /\ now <= challenge[a.nonce].until
    BY AskOK, Settings DEF Valid, Inv, TypeInv
  <1>2. challenge[a.nonce].until # -1
    BY <1>1
  <1> QED
    BY <1>1, <1>2 DEF LedgerInv, Ledger!Unused

\* A request gets past with a nonce that it may use.
LEMMA PassRefines ==
    ASSUME Inv, LedgerInv, NEW r \in Request, Pass(r), issued' = issued,
           \/ Ledger!Unused(req[r].ask.nonce) /\ req[r].at = "consume"
           \/ req[r].at = "delete"
    PROVE  Keeps
  <1> DEFINE n == req[r].ask.nonce
  <1>1. n \in Nonce /\ Admit(r) \in ReqPlace /\ Admit(r) # "delete"
    BY ReqOK, AskOK, AdmitOK
  <1>2. /\ challenge' = [Swept EXCEPT ![n] = NoChallenge]
        /\ uses' = uses \cup {<<r, n>>}
        /\ req' = [req EXCEPT ![r] = AtPlace(req[r], Admit(r))]
    BY ReqDomain DEF Pass, Goto
  <1>3. /\ req'[r].at # "delete"
        /\ \A p \in Request : p # r => req'[p] = req[p]
    BY <1>1, <1>2, ReqOK, ReqDomain, AtPlaceOK
  <1>4. n \in issued
    BY DEF Ledger!Unused, LedgerInv
  <1> HIDE DEF n
  <1>5. /\ challenge' \in [Nonce -> Challenge] /\ challenge'[n] = NoChallenge
        /\ \A m \in Nonce : challenge'[m] \in {challenge[m], NoChallenge}
    BY <1>1, <1>2, SweptOK, NoChallengeOK
  <1>6. LedgerInv'
    <2>1. \A m \in Nonce : challenge'[m].until # -1 => m \in issued' /\ \A u \in uses' : u[2] # m
      <3> SUFFICES ASSUME NEW m \in Nonce, challenge'[m].until # -1
                   PROVE  m \in issued' /\ \A u \in uses' : u[2] # m
        OBVIOUS
      <3>1. m # n /\ challenge'[m] = challenge[m]
        BY <1>5, NoChallengeOK
      <3>2. m \in issued /\ \A u \in uses : u[2] # m
        BY <3>1 DEF LedgerInv
      <3> QED
        BY <1>2, <3>1, <3>2
    <2>2. \A u \in uses' : u[2] \in issued'
      BY <1>2, <1>4 DEF LedgerInv
    <2>3. \A p \in Request : req'[p].at = "delete" => req'[p].ask.nonce \in issued'
      BY <1>3 DEF LedgerInv
    <2> QED
      BY <1>5, <2>1, <2>2, <2>3 DEF LedgerInv
  <1>7. claims' = claims \ {<<r, n>>}
    <2>1. \A p, m : <<p, m>> \in claims <=> p \in Request /\ req[p].at = "delete" /\ m = req[p].ask.nonce
      BY DEF claims
    <2>2. \A p, m : <<p, m>> \in claims' <=> p \in Request /\ req'[p].at = "delete" /\ m = req'[p].ask.nonce
      BY DEF claims
    <2>3. \A c \in claims : c = <<c[1], c[2]>>
      BY DEF claims
    <2>4. \A c \in claims' : c = <<c[1], c[2]>>
      BY DEF claims
    <2>5. ASSUME NEW p, NEW m PROVE <<p, m>> \in claims' <=> <<p, m>> \in claims /\ <<p, m>> # <<r, n>>
      <3>1. CASE p = r
        BY <1>3, <2>1, <2>2, <3>1 DEF n
      <3>2. CASE p # r
        BY <1>3, <2>1, <2>2, <3>2
      <3> QED
        BY <3>1, <3>2
    <2> QED
      BY <2>3, <2>4, <2>5
  <1>8. Ledger!Unused(n) \/ <<r, n>> \in claims
    BY DEF claims, n
  <1>9. Ledger!Use(r, n)
    BY <1>2, <1>7, <1>8 DEF Ledger!Use
  <1> QED
    BY <1>1, <1>6, <1>9 DEF Keeps, Ledger!Next

\* The GET of Redis finds the challenge: the request may delete it and pass.
LEMMA ClaimRefines ==
    ASSUME Inv, LedgerInv, NEW r \in Request, req[r].at = "consume", Valid(req[r].ask),
           Goto(r, "delete"), UNCHANGED <<challenge, uses, issued>>
    PROVE  Keeps
  <1> DEFINE n == req[r].ask.nonce
  <1>1. n \in Nonce /\ Ledger!Unused(n)
    BY ReqOK, ValidIsUnused
  <1>2. /\ req'[r].at = "delete" /\ req'[r].ask = req[r].ask
        /\ \A p \in Request : p # r => req'[p] = req[p]
    <2>1. req' = [req EXCEPT ![r] = AtPlace(req[r], "delete")]
      BY ReqDomain DEF Goto
    <2>2. "delete" \in ReqPlace \ Ended
      BY DEF ReqPlace, Ended
    <2> QED
      BY <2>1, <2>2, ReqOK, ReqDomain, AtPlaceOK
  <1> HIDE DEF n
  <1>3. LedgerInv'
    <2>1. n \in issued
      BY <1>1 DEF Ledger!Unused
    <2> QED
      BY <1>2, <2>1 DEF LedgerInv, n
  <1>4. claims' = claims \cup {<<r, n>>}
    BY <1>2 DEF claims, n
  <1>5. Ledger!Claim(r, n)
    BY <1>1, <1>4 DEF Ledger!Claim
  <1> QED
    BY <1>1, <1>3, <1>5 DEF Keeps, Ledger!Next

LEMMA ConsumeRefines == ASSUME Inv, LedgerInv, NEW r \in Request, Consume(r) PROVE Keeps
  <1>1. req[r].at = "consume" /\ issued' = issued
    BY DEF Consume
  <1>2. CASE Valid(req[r].ask) /\ Pass(r)
    BY <1>1, <1>2, ReqOK, ValidIsUnused, PassRefines
  <1>3. CASE Valid(req[r].ask) /\ Goto(r, "delete") /\ UNCHANGED <<challenge, uses>>
    BY <1>1, <1>3, ClaimRefines
  <1>4. CASE Refuse(r)
    <2>1. req' = [req EXCEPT ![r] = AtPlace(req[r], "refused")] /\ challenge' = Swept /\ uses' = uses
      BY <1>4, ReqDomain DEF Refuse, Goto
    <2>2. AtPlace(req[r], "refused").at # "delete"
      BY ReqOK, AtPlaceOK DEF ReqPlace
    <2> QED
      BY <1>1, <2>1, <2>2, SweptOK, OthersStay
  <1> QED
    BY <1>2, <1>3, <1>4 DEF Consume

\* A request that goes on to a place other than the DEL.
LEMMA MoveRefines ==
    ASSUME Inv, LedgerInv, NEW r \in Request, NEW p \in Req, NEW place \in ReqPlace, place # "delete",
           req[r].at # "delete", req' = [req EXCEPT ![r] = AtPlace(p, place)],
           UNCHANGED <<challenge, issued, uses>>
    PROVE  Keeps
  <1>1. AtPlace(p, place).at # "delete"
    BY AtPlaceOK
  <1>2. UNCHANGED <<issued, uses>> /\ challenge' \in [Nonce -> Challenge]
        /\ \A n \in Nonce : challenge'[n] \in {challenge[n], NoChallenge}
    BY SameChallenges
  <1> QED
    BY <1>1, <1>2, OthersStay

LEMMA DecideRefines ==
    ASSUME Inv, LedgerInv, NEW r \in Request, NEW row, Decide(r, row),
           req[r].at \in {"authorize", "set"}, UNCHANGED <<challenge, issued, uses>>
    PROVE  Keeps
  <1> DEFINE again == [req[r] EXCEPT !.needs = {"pause"}]
  <1>1. again \in Req
    BY ReqOK, NeedSetOK DEF Req
  <1> HIDE DEF again
  <1>2. CASE req' = [req EXCEPT ![r] = AtPlace(again, "authorize")]
    BY <1>1, <1>2, MoveRefines DEF ReqPlace
  <1>3. CASE \E place \in {"refused", "listRead", "done"} : Goto(r, place)
    <2>1. PICK place \in {"refused", "listRead", "done"} : req' = [req EXCEPT ![r] = AtPlace(req[r], place)]
      BY <1>3, ReqDomain DEF Goto
    <2> QED
      BY <2>1, ReqOK, MoveRefines DEF ReqPlace
  <1> QED
    BY <1>2, <1>3, ReqDomain DEF Decide, again

LEMMA RequestRefines == ASSUME Inv, LedgerInv, NEW r \in Request, RequestStep(r) PROVE Keeps
  <1>1. CASE Hit(r) \/ SetActive(r)
    BY <1>1, DecideRefines DEF Hit, SetActive, challengeVars
  <1>2. CASE Miss(r) \/ SetList(r) \/ Invalidate(r)
    <2>1. PICK place \in {"read", "done"} : Goto(r, place)
      BY <1>2 DEF Miss, SetList, Invalidate
    <2>2. req' = [req EXCEPT ![r] = AtPlace(req[r], place)]
      BY <2>1, ReqDomain DEF Goto
    <2> QED
      BY <1>2, <2>2, ReqOK, MoveRefines DEF Miss, SetList, Invalidate, challengeVars, ReqPlace
  <1>3. CASE ReadRow(r)
    <2>1. UNCHANGED <<challenge, issued, uses>> /\ req[r].at = "read" /\ req'[r].at = "set"
            /\ \A p \in Request : p # r => req'[p] = req[p]
      BY <1>3, ReqDomain, ReqOK DEF ReadRow, challengeVars, Req
    <2> QED
      BY <2>1, SameChallenges, LedgerStutters
  <1>4. CASE ReadList(r)
    <2>1. UNCHANGED <<challenge, issued, uses>> /\ req[r].at = "listRead"
      BY <1>4 DEF ReadList, challengeVars
    <2>2. CASE Goto(r, "done")
      <3>1. req' = [req EXCEPT ![r] = AtPlace(req[r], "done")]
        BY <2>2, ReqDomain DEF Goto
      <3> QED
        BY <2>1, <3>1, ReqOK, MoveRefines DEF ReqPlace
    <2>3. CASE ~Goto(r, "done")
      <3>1. req'[r].at = "listSet" /\ \A p \in Request : p # r => req'[p] = req[p]
        BY <1>4, <2>3, ReqDomain, ReqOK DEF ReadList, Req
      <3> QED
        BY <2>1, <3>1, SameChallenges, LedgerStutters
    <2> QED
      BY <2>2, <2>3
  <1>5. CASE WriteRow(r)
    <2>1. UNCHANGED <<challenge, issued, uses>> /\ req[r].at = "write"
      BY <1>5 DEF WriteRow, challengeVars
    <2>2. req'[r].at = "invalidate"
      <3>1. req'[r] = AtPlace(req[r], "invalidate")
        BY <1>5 DEF WriteRow
      <3> QED
        BY <3>1, ReqOK, AtPlaceOK DEF ReqPlace
    <2>3. ASSUME NEW p \in Request, p # r PROVE req'[p].at = req[p].at /\ req'[p].ask = req[p].ask
      <3>1. req'[p] = [req[p] EXCEPT !.late = @ \/ (req[p].at = "set" /\ Who(p) = req[r].ask.about)]
        BY <1>5, <2>3 DEF WriteRow
      <3> QED
        BY <3>1, ReqOK DEF Req
    <2> QED
      BY <2>1, <2>2, <2>3, SameChallenges, LedgerStutters
  <1>6. CASE DeleteChallenge(r)
    BY <1>6, PassRefines DEF DeleteChallenge
  <1> QED
    BY <1>1, <1>2, <1>3, <1>4, <1>5, <1>6, BeginRefines, ConsumeRefines DEF RequestStep

LEMMA RestartRefines == ASSUME Inv, LedgerInv, Restart PROVE Keeps
  <1>1. UNCHANGED <<issued, uses>> /\ challenge' \in {challenge, [n \in Nonce |-> NoChallenge]}
    BY DEF Restart
  <1>2. \A r \in Request : req'[r].at # "delete"
    <2> SUFFICES ASSUME NEW r \in Request PROVE req'[r].at # "delete"
      OBVIOUS
    <2>1. req'[r] = IF req[r].at \in Ended \cup {"idle"} THEN req[r] ELSE AtPlace(req[r], "refused")
      BY DEF Restart
    <2> QED
      BY <2>1, ReqOK, AtPlaceOK DEF ReqPlace, Ended
  <1>3. claims' = {}
    BY <1>2 DEF claims
  <1>4. LedgerInv'
    BY <1>1, <1>2, NoChallengeOK DEF LedgerInv
  <1>5. Ledger!Forget
    BY <1>1, <1>3 DEF Ledger!Forget
  <1> QED
    BY <1>4, <1>5 DEF Keeps, Ledger!Next

LEMMA StepRefines == ASSUME Inv, LedgerInv, [Next]_vars PROVE Keeps
  <1>1. CASE Tick \/ UNCHANGED vars
    BY <1>1, SameChallenges, LedgerStutters DEF Tick, vars, challengeVars
  <1> QED
    BY <1>1, IssueRefines, RequestRefines, RestartRefines DEF Next

\* challenge-store.ts and challenge-store.redis.ts: whichever store is configured, and through
\* restarts, a request gets past only with a nonce that was issued and, when it looked, unused.
THEOREM LedgerRefined == Spec => RefinesLedger
  <1>1. Init => LedgerInv /\ Ledger!Init
    BY NoChallengeOK, NoRequestOK DEF Init, LedgerInv, Ledger!Init, claims
  <1>2. Inv /\ LedgerInv /\ [Next]_vars => LedgerInv' /\ [Ledger!Next]_(Ledger!vars)
    BY StepRefines DEF Keeps
  <1> QED
    BY <1>1, <1>2, Invariant, PTL DEF Spec, RefinesLedger, Ledger!Spec

LEMMA LedgerInvariant == Spec => []LedgerInv
  <1>1. Init => LedgerInv
    BY NoChallengeOK, NoRequestOK DEF Init, LedgerInv
  <1>2. Inv /\ LedgerInv /\ [Next]_vars => LedgerInv'
    BY StepRefines DEF Keeps
  <1> QED
    BY <1>1, <1>2, Invariant, PTL DEF Spec

-----------------------------------------------------------------------------
(***************************************************************************)
(* What the ledger leaves to the store.  Redis looks a challenge up and    *)
(* deletes it later; the memory store does both in one step, so there no   *)
(* request is ever between the two and a used nonce stays used.            *)
(***************************************************************************)
UsedOnce == \A u, v \in uses : u[2] = v[2] => u = v

MemoryInv ==
    store = "memory" => UsedOnce /\ \A r \in Request : req[r].at # "delete"

\* Only the GET of Redis sends a request to the DEL.
LEMMA MovesAside ==
    ASSUME Inv, NEW r \in Request, NEW p \in Req, NEW place \in ReqPlace, place # "delete",
           req' = [req EXCEPT ![r] = AtPlace(p, place)]
    PROVE  \A q \in Request : req'[q].at = "delete" => req[q].at = "delete"
  <1>1. AtPlace(p, place).at # "delete"
    BY AtPlaceOK
  <1>2. \A q \in Request : req'[q] = IF q = r THEN AtPlace(p, place) ELSE req[q]
    BY ReqDomain
  <1> QED
    BY <1>1, <1>2

LEMMA DecideAside ==
    ASSUME Inv, NEW r \in Request, NEW row, Decide(r, row)
    PROVE  \A q \in Request : req'[q].at = "delete" => req[q].at = "delete"
  <1> DEFINE again == [req[r] EXCEPT !.needs = {"pause"}]
  <1>1. again \in Req
    BY ReqOK, NeedSetOK DEF Req
  <1> HIDE DEF again
  <1>2. CASE req' = [req EXCEPT ![r] = AtPlace(again, "authorize")]
    BY <1>1, <1>2, MovesAside DEF ReqPlace
  <1>3. CASE \E place \in {"refused", "listRead", "done"} : Goto(r, place)
    <2>1. PICK place \in {"refused", "listRead", "done"} : req' = [req EXCEPT ![r] = AtPlace(req[r], place)]
      BY <1>3, ReqDomain DEF Goto
    <2> QED
      BY <2>1, ReqOK, MovesAside DEF ReqPlace
  <1> QED
    BY <1>2, <1>3, ReqDomain DEF Decide, again

LEMMA PassAside ==
    ASSUME Inv, NEW r \in Request, Pass(r) \/ Refuse(r)
    PROVE  \A q \in Request : req'[q].at = "delete" => req[q].at = "delete"
  <1>1. PICK place \in ReqPlace \ {"delete"} : req' = [req EXCEPT ![r] = AtPlace(req[r], place)]
    BY AdmitOK, ReqDomain DEF Pass, Refuse, Goto, ReqPlace
  <1> QED
    BY <1>1, ReqOK, MovesAside

LEMMA RequestAside ==
    ASSUME Inv, NEW r \in Request, RequestStep(r), store # "redis"
    PROVE  \A q \in Request : req'[q].at = "delete" => req[q].at = "delete"
  <1>1. CASE \E a \in Ask : Begin(r, a)
    <2>1. PICK a \in Ask : Begin(r, a)
      BY <1>1
    <2> DEFINE p == [req[r] EXCEPT !.ask = a, !.needs = a.route.needs]
    <2>2. p \in Req
      BY ReqOK, AskOK DEF Req
    <2>3. PICK place \in {"consume", "refused"} : req' = [req EXCEPT ![r] = AtPlace(p, place)]
      BY <2>1 DEF Begin
    <2> HIDE DEF p
    <2> QED
      BY <2>2, <2>3, MovesAside DEF ReqPlace
  <1>2. CASE Consume(r) \/ DeleteChallenge(r)
    BY <1>2, PassAside DEF Consume, DeleteChallenge
  <1>3. CASE Hit(r) \/ SetActive(r)
    BY <1>3, DecideAside DEF Hit, SetActive
  <1>4. CASE Miss(r) \/ SetList(r) \/ Invalidate(r)
    <2>1. PICK place \in {"read", "done"} : Goto(r, place)
      BY <1>4 DEF Miss, SetList, Invalidate
    <2>2. req' = [req EXCEPT ![r] = AtPlace(req[r], place)]
      BY <2>1, ReqDomain DEF Goto
    <2> QED
      BY <2>2, ReqOK, MovesAside DEF ReqPlace
  <1>5. CASE ReadRow(r)
    <2>1. req'[r].at = "set" /\ \A p \in Request : p # r => req'[p] = req[p]
      BY <1>5, ReqDomain, ReqOK DEF ReadRow, Req
    <2> QED
      BY <2>1
  <1>6. CASE ReadList(r)
    <2>1. CASE Goto(r, "done")
      <3>1. req' = [req EXCEPT ![r] = AtPlace(req[r], "done")]
        BY <2>1, ReqDomain DEF Goto
      <3> QED
        BY <3>1, ReqOK, MovesAside DEF ReqPlace
    <2>2. CASE ~Goto(r, "done")
      <3>1. req'[r].at = "listSet" /\ \A p \in Request : p # r => req'[p] = req[p]
        BY <1>6, <2>2, ReqDomain, ReqOK DEF ReadList, Req
      <3> QED
        BY <3>1
    <2> QED
      BY <2>1, <2>2
  <1>7. CASE WriteRow(r)
    <2>1. req'[r].at = "invalidate"
      <3>1. req'[r] = AtPlace(req[r], "invalidate")
        BY <1>7 DEF WriteRow
      <3> QED
        BY <3>1, ReqOK, AtPlaceOK DEF ReqPlace
    <2>2. ASSUME NEW p \in Request, p # r PROVE req'[p].at = req[p].at
      <3>1. req'[p] = [req[p] EXCEPT !.late = @ \/ (req[p].at = "set" /\ Who(p) = req[r].ask.about)]
        BY <1>7, <2>2 DEF WriteRow
      <3> QED
        BY <3>1, ReqOK DEF Req
    <2> QED
      BY <2>1, <2>2
  <1> QED
    BY <1>1, <1>2, <1>3, <1>4, <1>5, <1>6, <1>7 DEF RequestStep

LEMMA StoreStays == ASSUME [Next]_vars PROVE store' = store
  BY DEF Next, RequestStep, vars, IssueChallenge, Begin, Consume, DeleteChallenge, Hit, Miss, ReadRow,
     SetActive, ReadList, SetList, WriteRow, Invalidate, Tick, Restart

\* A step of the ledger without claims uses a nonce that is unused.
LEMMA UsesStayOnce ==
    ASSUME UsedOnce, claims = {}, [Ledger!Next]_(Ledger!vars)
    PROVE  UsedOnce'
  <1>1. CASE uses' = uses
    BY <1>1 DEF UsedOnce
  <1>2. CASE \E n \in Nonce, r \in Request : Ledger!Use(r, n)
    <2>1. PICK n \in Nonce, r \in Request : Ledger!Use(r, n)
      BY <1>2
    <2>2. uses' = uses \cup {<<r, n>>} /\ \A u \in uses : u[2] # n
      BY <2>1 DEF Ledger!Use, Ledger!Unused
    <2> QED
      BY <2>2 DEF UsedOnce
  <1> QED
    BY <1>1, <1>2 DEF Ledger!Next, Ledger!vars, Ledger!Issue, Ledger!Claim, Ledger!Forget

LEMMA MemoryStep == ASSUME Inv, LedgerInv, MemoryInv, [Next]_vars PROVE MemoryInv'
  <1> SUFFICES ASSUME store' = "memory"
               PROVE  UsedOnce' /\ \A q \in Request : req'[q].at # "delete"
    BY DEF MemoryInv
  <1>1. store = "memory" /\ UsedOnce /\ \A q \in Request : req[q].at # "delete"
    BY StoreStays DEF MemoryInv
  <1>2. claims = {}
    BY <1>1 DEF claims
  <1>3. UsedOnce'
    BY <1>1, <1>2, StepRefines, UsesStayOnce DEF Keeps
  <1>4. CASE \E r \in Request : RequestStep(r)
    BY <1>1, <1>3, <1>4, RequestAside
  <1>5. CASE Restart
    <2> SUFFICES ASSUME NEW r \in Request PROVE req'[r].at # "delete"
      BY <1>3
    <2>1. req'[r] = IF req[r].at \in Ended \cup {"idle"} THEN req[r] ELSE AtPlace(req[r], "refused")
      BY <1>5 DEF Restart
    <2> QED
      BY <1>1, <2>1, ReqOK, AtPlaceOK DEF ReqPlace
  <1>6. CASE req' = req
    BY <1>1, <1>3, <1>6
  <1> QED
    BY <1>4, <1>5, <1>6 DEF Next, vars, IssueChallenge, Tick

\* challenge-store.ts: with the memory store, whose consume finds and deletes a challenge in
\* one step, no two requests ever get past with the same nonce, whatever races and restarts.
THEOREM MemoryStoreUsesOnce == Spec => [](store = "memory" => UsedOnce)
  <1>1. Init => MemoryInv
    BY NoRequestOK DEF Init, MemoryInv, UsedOnce
  <1>2. MemoryInv => (store = "memory" => UsedOnce)
    BY DEF MemoryInv
  <1> QED
    BY <1>1, <1>2, MemoryStep, Invariant, LedgerInvariant, PTL DEF Spec

-----------------------------------------------------------------------------
(***************************************************************************)
(* The keys of the cache, in the order in which they were inserted.  They  *)
(* are the operators that have an entry, each once, and no more than       *)
(* MaxEntries; evictIfNeeded finds one to drop and never the one just set. *)
(***************************************************************************)
At(keys, o) == \E i \in 1 .. Len(keys) : keys[i] = o
Once(keys) == \A i, j \in 1 .. Len(keys) : keys[i] = keys[j] => i = j

KeysInv ==
    /\ order \in Seq(Operator)
    /\ Len(order) <= MaxEntries
    /\ Once(order)
    /\ \A o \in Operator : active[o].until # -1 <=> At(order, o)
ListInv == list \in [rows : [Operator -> Row], until : Nat \cup {-1}]

\* Map.delete: the keys but one.
LEMMA DroppedOK ==
    ASSUME NEW keys \in Seq(Operator), Once(keys), NEW o \in Operator
    PROVE  /\ Dropped(keys, o) \in Seq(Operator) /\ Len(Dropped(keys, o)) <= Len(keys)
           /\ Once(Dropped(keys, o))
           /\ \A q \in Operator : At(Dropped(keys, o), q) <=> q # o /\ At(keys, q)
  <1>1. CASE ~At(keys, o)
    BY <1>1 DEF Dropped, At
  <1>2. CASE At(keys, o)
    <2> DEFINE k == CHOOSE i \in 1 .. Len(keys) : keys[i] = o
               rest == Closed(keys, k)
    <2>1. k \in 1 .. Len(keys) /\ keys[k] = o
      BY <1>2 DEF At
    <2>2. Dropped(keys, o) = rest
      BY <1>2 DEF Dropped, At
    <2> HIDE DEF k
    <2>3. Len(keys) \in Nat /\ Len(keys) - 1 \in Nat /\ \A i \in 1 .. Len(keys) : keys[i] \in Operator
      BY <2>1
    <2>4. \A i \in 1 .. Len(keys) - 1 :
            /\ rest[i] = keys[IF i < k THEN i ELSE i + 1]
            /\ (IF i < k THEN i ELSE i + 1) \in (1 .. Len(keys)) \ {k}
      BY <2>1, <2>3 DEF Closed
    <2>5. rest \in [1 .. Len(keys) - 1 -> Operator]
      BY <2>3, <2>4 DEF Closed
    <2>6. rest \in Seq(Operator) /\ Len(rest) = Len(keys) - 1
      BY <2>3, <2>5, LenProperties, SeqDef
    <2> HIDE DEF rest
    <2>7. Once(rest)
      BY <2>1, <2>3, <2>4, <2>6 DEF Once
    <2>8. ASSUME NEW q \in Operator, At(rest, q) PROVE q # o /\ At(keys, q)
      <3>1. PICK i \in 1 .. Len(keys) - 1 : rest[i] = q
        BY <2>6, <2>8 DEF At
      <3>2. PICK j \in (1 .. Len(keys)) \ {k} : keys[j] = q
        BY <2>4, <3>1
      <3> QED
        BY <2>1, <3>2 DEF At, Once
    <2>9. ASSUME NEW q \in Operator, q # o, At(keys, q) PROVE At(rest, q)
      <3>1. PICK j \in 1 .. Len(keys) : keys[j] = q
        BY <2>9 DEF At
      <3>2. j # k
        BY <2>1, <2>9, <3>1
      <3>3. CASE j < k
        <4>1. j \in 1 .. Len(keys) - 1 /\ rest[j] = keys[j]
          BY <2>1, <2>3, <2>4, <3>3
        <4> QED
          BY <2>6, <3>1, <4>1 DEF At
      <3>4. CASE k < j
        <4>1. j - 1 \in 1 .. Len(keys) - 1 /\ ~(j - 1 < k) /\ (j - 1) + 1 = j
          BY <2>1, <2>3, <3>4
        <4>2. rest[j - 1] = keys[j]
          BY <2>4, <4>1
        <4> QED
          BY <2>6, <3>1, <4>1, <4>2 DEF At
      <3> QED
        BY <2>1, <2>3, <3>2, <3>3, <3>4
    <2> QED
      BY <2>2, <2>3, <2>6, <2>7, <2>8, <2>9
  <1> QED
    BY <1>1, <1>2

\* Map.set: a key that is not there comes last.
LEMMA KeysOK ==
    ASSUME KeysInv, NEW o \in Operator
    PROVE  /\ Keys(o) \in Seq(Operator) /\ Once(Keys(o)) /\ Len(Keys(o)) \in Nat \ {0}
           /\ \A q \in Operator : At(Keys(o), q) <=> q = o \/ At(order, q)
           /\ Len(Keys(o)) > MaxEntries => Len(Keys(o)) = MaxEntries + 1 /\ Head(Keys(o)) # o
  <1>0. /\ order \in Seq(Operator) /\ Len(order) \in Nat /\ Len(order) <= MaxEntries
        /\ MaxEntries \in Nat \ {0} /\ Once(order)
    BY AccessAssumption DEF KeysInv
  <1>1. CASE At(order, o)
    <2>1. Keys(o) = order
      BY <1>1 DEF Keys, At
    <2>2. Len(order) # 0
      BY <1>0, <1>1 DEF At
    <2> QED
      BY <1>0, <1>1, <2>1, <2>2
  <1>2. CASE ~At(order, o)
    <2> DEFINE longer == Append(order, o)
    <2>1. Keys(o) = longer
      BY <1>2 DEF Keys, At
    <2>2. /\ longer \in Seq(Operator) /\ Len(longer) = Len(order) + 1
          /\ \A i \in 1 .. Len(order) : longer[i] = order[i]
          /\ longer[Len(order) + 1] = o
      BY <1>0, AppendProperties
    <2> HIDE DEF longer
    <2>3. \A i \in 1 .. Len(order) : order[i] # o
      BY <1>2 DEF At
    <2>4. Once(longer)
      BY <1>0, <2>2, <2>3 DEF Once
    <2>5. \A q \in Operator : At(longer, q) <=> q = o \/ At(order, q)
      BY <1>0, <2>2 DEF At
    <2>6. Len(longer) > MaxEntries => Head(longer) # o
      <3> SUFFICES ASSUME Len(longer) > MaxEntries PROVE Head(longer) # o
        OBVIOUS
      <3>1. 1 \in 1 .. Len(order)
        BY <1>0, <2>2
      <3>2. Head(longer) = longer[1]
        BY <2>2
      <3> QED
        BY <2>2, <2>3, <3>1, <3>2
    <2> QED
      BY <1>0, <2>1, <2>2, <2>4, <2>5, <2>6
  <1> QED
    BY <1>1, <1>2

\* evictIfNeeded: the keys but the first.
LEMMA TailOK ==
    ASSUME NEW keys \in Seq(Operator), Once(keys), Len(keys) # 0
    PROVE  /\ Tail(keys) \in Seq(Operator) /\ Len(Tail(keys)) = Len(keys) - 1 /\ Once(Tail(keys))
           /\ Head(keys) \in Operator
           /\ \A q \in Operator : At(Tail(keys), q) <=> q # Head(keys) /\ At(keys, q)
  <1>0. Len(keys) \in Nat \ {0} /\ keys # << >>
    OBVIOUS
  <1>1. /\ Tail(keys) \in Seq(Operator) /\ Len(Tail(keys)) = Len(keys) - 1
        /\ \A i \in 1 .. Len(keys) - 1 : Tail(keys)[i] = keys[i + 1]
        /\ Head(keys) = keys[1]
    BY <1>0, HeadTailProperties
  <1> DEFINE rest == Tail(keys)
  <1> HIDE DEF rest
  <1>2. Once(rest)
    BY <1>0, <1>1 DEF Once, rest
  <1>3. ASSUME NEW q \in Operator, At(rest, q) PROVE q # keys[1] /\ At(keys, q)
    <2>1. PICK i \in 1 .. Len(keys) - 1 : keys[i + 1] = q
      BY <1>1, <1>3 DEF At, rest
    <2>2. i + 1 \in 1 .. Len(keys) /\ i + 1 # 1 /\ 1 \in 1 .. Len(keys)
      BY <1>0
    <2> QED
      BY <2>1, <2>2 DEF At, Once
  <1>4. ASSUME NEW q \in Operator, q # keys[1], At(keys, q) PROVE At(rest, q)
    <2>1. PICK j \in 1 .. Len(keys) : keys[j] = q
      BY <1>4 DEF At
    <2>2. j # 1
      BY <1>4, <2>1
    <2>3. j - 1 \in 1 .. Len(keys) - 1 /\ (j - 1) + 1 = j
      BY <1>0, <2>2
    <2>4. rest[j - 1] = q
      BY <1>1, <2>1, <2>3 DEF rest
    <2> QED
      BY <1>1, <2>3, <2>4 DEF At, rest
  <1> QED
    BY <1>0, <1>1, <1>2, <1>3, <1>4 DEF rest

LEMMA DropKeeps ==
    ASSUME Inv, KeysInv, NEW o \in Operator, active' = [active EXCEPT ![o] = NoEntry],
           order' = Dropped(order, o)
    PROVE  KeysInv'
  <1>1. order \in Seq(Operator) /\ Once(order) /\ Len(order) \in Nat /\ MaxEntries \in Nat
    BY AccessAssumption DEF KeysInv
  <1>2. /\ order' \in Seq(Operator) /\ Len(order') <= Len(order) /\ Once(order')
        /\ \A q \in Operator : At(order', q) <=> q # o /\ At(order, q)
    BY <1>1, DroppedOK
  <1>3. Len(order') <= MaxEntries
    BY <1>1, <1>2 DEF KeysInv
  <1>4. \A q \in Operator : active'[q] = IF q = o THEN NoEntry ELSE active[q]
    BY SameCache
  <1> QED
    BY <1>2, <1>3, <1>4, NoEntryOK DEF KeysInv

LEMMA SetActiveKeepsKeys == ASSUME Inv, KeysInv, NEW r \in Request, SetActive(r) PROVE KeysInv'
  <1> DEFINE o == Who(r)
             entry == [row |-> req[r].got, until |-> now + CacheTtl, late |-> req[r].late]
             full == Len(Keys(o)) > MaxEntries
  <1>1. o \in Operator
    BY ReqOK DEF SetActive, Fits, Who
  <1>2. entry.until # -1
    BY ReqOK, Settings
  <1>3. /\ order' = IF full THEN Tail(Keys(o)) ELSE Keys(o)
        /\ \A q \in Operator : active'[q] = IF full /\ q = Head(Keys(o)) THEN NoEntry
                                            ELSE IF q = o THEN entry ELSE active[q]
    BY DEF SetActive
  <1>4. /\ Keys(o) \in Seq(Operator) /\ Once(Keys(o)) /\ Len(Keys(o)) \in Nat \ {0}
        /\ \A q \in Operator : At(Keys(o), q) <=> q = o \/ At(order, q)
        /\ full => Len(Keys(o)) = MaxEntries + 1 /\ Head(Keys(o)) # o
    BY <1>1, KeysOK
  <1>5. MaxEntries \in Nat /\ \A q \in Operator : active[q].until # -1 <=> At(order, q)
    BY AccessAssumption DEF KeysInv
  <1> HIDE DEF o, entry
  <1>6. CASE ~full
    <2>1. order' = Keys(o) /\ Len(Keys(o)) <= MaxEntries
      BY <1>3, <1>4, <1>5, <1>6
    <2>2. \A q \in Operator : active'[q].until # -1 <=> At(order', q)
      BY <1>2, <1>3, <1>4, <1>5, <1>6, <2>1
    <2> QED
      BY <1>4, <2>1, <2>2 DEF KeysInv
  <1>7. CASE full
    <2>1. /\ order' \in Seq(Operator) /\ Len(order') = MaxEntries /\ Once(order')
          /\ \A q \in Operator : At(order', q) <=> q # Head(Keys(o)) /\ At(Keys(o), q)
      BY <1>3, <1>4, <1>5, <1>7, TailOK
    <2>2. \A q \in Operator : active'[q].until # -1 <=> At(order', q)
      BY <1>2, <1>3, <1>4, <1>5, <1>7, <2>1, NoEntryOK
    <2> QED
      BY <1>5, <2>1, <2>2 DEF KeysInv
  <1> QED
    BY <1>6, <1>7

LEMMA RequestKeepsKeys == ASSUME Inv, KeysInv, NEW r \in Request, RequestStep(r) PROVE KeysInv'
  <1>1. CASE Miss(r)
    <2>1. Who(r) \in Operator
      BY <1>1, ReqOK DEF Miss, Fits, Who
    <2> QED
      BY <1>1, <2>1, DropKeeps DEF Miss
  <1>2. CASE Invalidate(r)
    <2>1. req[r].ask.about \in Operator
      BY ReqOK, AskOK
    <2> QED
      BY <1>2, <2>1, DropKeeps DEF Invalidate
  <1>3. CASE UNCHANGED <<active, order>>
    BY <1>3 DEF KeysInv
  <1> QED
    BY <1>1, <1>2, <1>3, SetActiveKeepsKeys
       DEF RequestStep, Begin, Consume, DeleteChallenge, Hit, ReadRow, ReadList, SetList, WriteRow,
           cacheVars

LEMMA RequestKeepsList == ASSUME Inv, ListInv, NEW r \in Request, RequestStep(r) PROVE ListInv'
  <1>1. NoList \in [rows : [Operator -> Row], until : Nat \cup {-1}]
    BY RowsOK DEF NoList
  <1>2. CASE SetList(r)
    <2>1. req[r].gotList \in [Operator -> Row] /\ now + CacheTtl \in Nat
      BY ReqOK, Settings DEF Req
    <2> QED
      BY <1>2, <2>1 DEF SetList, ListInv
  <1>3. CASE list' \in {list, NoList}
    BY <1>1, <1>3 DEF ListInv
  <1> QED
    BY <1>2, <1>3 DEF RequestStep, Begin, Consume, DeleteChallenge, Hit, Miss, ReadRow, SetActive,
       ReadList, WriteRow, Invalidate, cacheVars

\* What is left of the state: the store, the faults, the nonces.
RestInv ==
    /\ store \in Stores
    /\ faults \in 0 .. MaxFaults
    /\ issued \subseteq Nonce
    /\ uses \subseteq Request \X Nonce

LEMMA RequestKeepsRest == ASSUME Inv, RestInv, NEW r \in Request, RequestStep(r) PROVE RestInv'
  <1>1. <<r, req[r].ask.nonce>> \in Request \X Nonce
    BY ReqOK, AskOK
  <1>2. UNCHANGED <<store, issued>>
    BY DEF RequestStep, Begin, Consume, DeleteChallenge, Hit, Miss, ReadRow, SetActive, ReadList,
       SetList, WriteRow, Invalidate, challengeVars
  <1>3. uses' \in {uses, uses \cup {<<r, req[r].ask.nonce>>}}
    BY DEF RequestStep, Begin, Consume, DeleteChallenge, Pass, Refuse, Hit, Miss, ReadRow, SetActive,
       ReadList, SetList, WriteRow, Invalidate, challengeVars
  <1>4. \/ faults' = faults
        \/ faults < MaxFaults /\ faults' = faults + 1
    BY DEF RequestStep, Begin, Consume, DeleteChallenge, Hit, Miss, ReadRow, SetActive, ReadList,
       SetList, WriteRow, Invalidate
  <1>5. faults' \in 0 .. MaxFaults
    BY <1>4, AccessAssumption DEF RestInv
  <1> QED
    BY <1>1, <1>2, <1>3, <1>5 DEF RestInv

LEMMA TypeStep ==
    ASSUME Inv, KeysInv, ListInv, RestInv, [Next]_vars
    PROVE  KeysInv' /\ ListInv' /\ RestInv'
  <1>1. CASE Restart
    <2>1. /\ order' = << >> /\ list' = NoList /\ active' = [o \in Operator |-> NoEntry]
          /\ faults < MaxFaults /\ faults' = faults + 1 /\ UNCHANGED <<store, issued, uses>>
      BY <1>1 DEF Restart
    <2>2. KeysInv'
      BY <2>1, NoEntryOK, AccessAssumption DEF KeysInv, Once, At
    <2>3. ListInv'
      BY <2>1, RowsOK DEF ListInv, NoList
    <2>4. RestInv'
      BY <2>1, AccessAssumption DEF RestInv
    <2> QED
      BY <2>2, <2>3, <2>4
  <1>2. ASSUME NEW a \in Ask, IssueChallenge(a) PROVE KeysInv' /\ ListInv' /\ RestInv'
    BY <1>2, AskOK DEF IssueChallenge, cacheVars, KeysInv, ListInv, RestInv
  <1>3. CASE Tick \/ UNCHANGED vars
    BY <1>3 DEF Tick, vars, cacheVars, challengeVars, KeysInv, ListInv, RestInv
  <1> QED
    BY <1>1, <1>2, <1>3, RequestKeepsKeys, RequestKeepsList, RequestKeepsRest DEF Next

\* operator-permission-cache.ts and the challenge stores: everything keeps its type, and the
\* keys by which the cache evicts are those of its entries, each once and MaxEntries at most.
THEOREM TypeCorrect == Spec => []TypeOK
  <1>1. Init => KeysInv /\ ListInv /\ RestInv
    <2> SUFFICES ASSUME Init PROVE KeysInv /\ ListInv /\ RestInv
      OBVIOUS
    <2>1. KeysInv
      BY NoEntryOK, AccessAssumption DEF Init, KeysInv, Once, At
    <2>2. ListInv
      BY RowsOK DEF Init, ListInv, NoList
    <2> QED
      BY <2>1, <2>2, AccessAssumption DEF Init, RestInv
  <1>2. Inv /\ KeysInv /\ ListInv /\ RestInv /\ [Next]_vars => (KeysInv /\ ListInv /\ RestInv)'
    BY TypeStep
  <1>3. Inv /\ LedgerInv /\ KeysInv /\ ListInv /\ RestInv => TypeOK
    <2> SUFFICES ASSUME Inv, LedgerInv, KeysInv, ListInv, RestInv PROVE TypeOK
      OBVIOUS
    <2>1. CachesOK
      BY DEF Inv, TypeInv, KeysInv, ListInv, CachesOK, Once, At
    <2>2. ChallengesOK
      BY DEF LedgerInv, RestInv, ChallengesOK, Challenge
    <2>3. RequestsOK
      BY DEF Inv, TypeInv, RequestsOK, Req
    <2> QED
      BY <2>1, <2>2, <2>3 DEF Inv, TypeInv, RestInv, TypeOK
  <1> QED
    BY <1>1, <1>2, <1>3, Invariant, LedgerInvariant, PTL DEF Spec
=============================================================================
