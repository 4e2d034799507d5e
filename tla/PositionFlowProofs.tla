-------------------------- MODULE PositionFlowProofs --------------------------
(***************************************************************************)
(* Proofs about PositionFlow, for any accounts, tokens, tabs and amounts.  *)
(*                                                                         *)
(* The inductive invariant adds to the checked ones what a handler knows   *)
(* at its await: at a save or a log its newest transaction succeeded, and  *)
(* a card past its burn has burned (Backed); an approval that is set out   *)
(* on, or that is still pending, is for no more than what was asked for    *)
(* (Asked); a pending transaction is an older one of its flow (Newest).    *)
(***************************************************************************)
EXTENDS PositionFlow, WellFoundedInduction, TLAPS

PositionType == [owner : Somebody, state : {"unminted", "open", "burned"}, liquid : BOOLEAN, owed : Amounts]

HashOf(f) == <<f, sent[f]>>

Backed ==
    \A f \in Flow :
        /\ flow[f].at \in {"save", "logCreated"} => [kind |-> "mint", id |-> flow[f].id, hash |-> HashOf(f)] \in mined
        /\ flow[f].at = "logCollect" => [kind |-> "collect", id |-> flow[f].id, hash |-> HashOf(f)] \in mined
        /\ flow[f].at \in {"remint", "logRebalance"} => nft[flow[f].id].state = "burned"
        /\ flow[f].at = "logRebalance" => \E m \in mined : m.kind = "remint" /\ m.hash = HashOf(f)

Asked ==
    /\ \A f \in Flow :
        flow[f].at \in {"allowances", "approve"} => Covers(asked[flow[f].who], flow[f].need)
    /\ \A x \in late : x.kind = "approve" => Covers(asked[x.who], x.amounts)

Newest == \A x \in late : x.hash[2] <= sent[x.hash[1]]

IInv == TypeOK /\ Backed /\ Asked /\ Newest /\ RecordsAreBacked /\ ShortMintsAreRaces /\ ApprovalsAreExact

\* A set of numbers has a smallest one.
LEMMA Smallest ==
    ASSUME NEW S, S # {}, S \subseteq Nat
    PROVE  \E t \in S : \A u \in S : t <= u
<1> DEFINE Less == OpToRel(<, Nat)
<1>1. PICK t \in S : \A u \in S : ~(<<u, t>> \in Less)
  BY NatLessThanWellFounded, WFMin
<1>2. ASSUME NEW u \in S PROVE ~(u < t)
  BY <1>1 DEF OpToRel
<1>. QED  BY <1>2

\* The flows of a page differ, and so do those of two pages.
LEMMA FlowFacts ==
    /\ \A p \in Page : Approving(p) \in Flow /\ Minting(p) \in Flow
    /\ \A c \in Card : Carding(c) \in Flow
    /\ \A p, q \in Page : Approving(p) # Minting(q) /\ (Minting(p) = Minting(q) => p = q)
    /\ \A c \in Card, p \in Page : Carding(c) # Minting(p)
BY DEF Approving, Minting, Carding, Flow

LEMMA AmountFacts ==
    /\ Zero \in Amounts
    /\ \A x, y, z \in Amounts : Covers(x, y) /\ Covers(y, z) => Covers(x, z)
    /\ \A x \in Amounts : Covers(x, x) /\ Covers(x, Zero)
    /\ \A x, y \in Amounts : Plus(x, y) \in Amounts
BY DEF Amounts, Zero, Covers, Plus

LEMMA IdleFacts ==
    /\ Idle \in FlowType
    /\ Idle.at = "idle"
BY AmountFacts, FlowConstants DEF Idle, FlowType, Location, Transactions, Somebody, Nft

LEMMA InitIInv == Init => IInv
<1> SUFFICES ASSUME Init PROVE IInv
  OBVIOUS
<1>1. TypeOK
  <2>1. nft \in [Nft -> PositionType]
    <3>1. PICK fees \in Yield \cup {Zero} :
            nft = [i \in Nft |-> IF i = 1 THEN [Open(account) EXCEPT !.owed = fees] ELSE Unminted]
      BY DEF Init
    <3>2. fees \in Amounts
      BY AmountFacts, FlowConstants
    <3>3. [Open(account) EXCEPT !.owed = fees] \in PositionType
      BY <3>2 DEF Init, Open, PositionType, Somebody
    <3>4. Unminted \in PositionType
      BY AmountFacts DEF Unminted, PositionType, Somebody
    <3>. QED  BY <3>1, <3>3, <3>4
  <2>2. \A i \in Nft : nft[i].owner # None => nft[i].state = "open"
    BY DEF Init, Unminted, Open
  <2>. QED  BY <2>1, <2>2, IdleFacts, AmountFacts, FlowConstants DEF Init, TypeOK, Transactions, PositionType
<1>2. Backed /\ Asked /\ Newest
  BY IdleFacts DEF Init, Backed, Asked, Newest
<1>3. RecordsAreBacked /\ ShortMintsAreRaces
  BY IdleFacts, FlowFacts DEF Init, RecordsAreBacked, ShortMintsAreRaces
<1>4. ApprovalsAreExact
  <2>1. \A a \in Account : allowance[a] = Zero /\ asked[a] = Zero
    BY DEF Init
  <2>. QED  BY <2>1, AmountFacts DEF ApprovalsAreExact
<1>. QED  BY <1>1, <1>2, <1>3, <1>4 DEF IInv

-----------------------------------------------------------------------------
(***************************************************************************)
(* What a transaction may do: a burned position stays burned, and no       *)
(* allowance grows beyond its old value but by an approval.                *)
(***************************************************************************)
NftOK(n) ==
    /\ n \in [Nft -> PositionType]
    /\ \A i \in Nft : n[i].owner # None => n[i].state = "open"
    /\ \A i \in Nft : nft[i].state = "burned" => n[i].state = "burned"

EffectOK(x, e) ==
    /\ e.allowance \in [Account -> Amounts]
    /\ NftOK(e.nft)
    /\ e.id \in Nft
    /\ e.paid \in Amounts
    /\ x.kind = "collect" => e.id = x.id
    /\ x.kind = "burn" => e.nft[x.id].state = "burned"
    /\ \A a \in Account : a # x.who => e.allowance[a] = allowance[a]
    /\ x.kind # "approve" => Covers(allowance[x.who], e.allowance[x.who])
    /\ x.kind = "approve" =>
            \A t \in Token : e.allowance[x.who][t] <= allowance[x.who][t] \/ e.allowance[x.who][t] = x.amounts[t]

\* Changing one position, and never a burned one into another.
LEMMA UpdateIsOK ==
    ASSUME TypeOK, NEW i \in Nft, NEW n \in PositionType,
           n.owner # None => n.state = "open",
           nft[i].state = "burned" => n.state = "burned"
    PROVE  NftOK([nft EXCEPT ![i] = n])
BY DEF TypeOK, NftOK, PositionType

LEMMA EffectsAreOK ==
    ASSUME TypeOK, NEW x \in TxType, NEW e \in Effects(x), x.kind \in {"mint", "remint"} => x.for \in Account
    PROVE  EffectOK(x, e)
<1>. USE AmountFacts, FlowConstants DEF TxType, Transactions
<1>0. /\ allowance \in [Account -> Amounts]
      /\ nft \in [Nft -> PositionType]
      /\ \A i \in Nft : nft[i].owner # None => nft[i].state = "open"
      /\ allowance[x.who] \in Amounts
      /\ nft[x.id] \in PositionType
      /\ NftOK(nft)
  BY DEF TypeOK, PositionType, NftOK
<1>1. CASE x.kind = "approve"
  <2>1. e \in ApproveEffects(x)
    BY <1>1 DEF Effects
  <2> DEFINE new == [t \in Token |-> IF x.amounts[t] > 0 THEN x.amounts[t] ELSE allowance[x.who][t]]
  <2>2. e = Effect([allowance EXCEPT ![x.who] = new], nft, x.id, Zero)
    BY <2>1 DEF ApproveEffects
  <2>3. /\ new \in Amounts
        /\ \A t \in Token : new[t] <= allowance[x.who][t] \/ new[t] = x.amounts[t]
    BY <1>0 DEF Amounts
  <2> HIDE DEF new
  <2>. QED  BY <1>0, <1>1, <2>2, <2>3 DEF EffectOK, Effect
<1>2. CASE x.kind = "decrease"
  <2>1. PICK y \in Yield :
            /\ Owned(x)
            /\ e = Effect(allowance, [nft EXCEPT ![x.id].liquid = FALSE, ![x.id].owed = Plus(@, y)], x.id, Zero)
    BY <1>2 DEF Effects, DecreaseEffects
  <2>2. Plus(nft[x.id].owed, y) \in Amounts /\ nft[x.id].state = "open"
    BY <1>0, <2>1 DEF Owned, PositionType
  <2> DEFINE sum == Plus(nft[x.id].owed, y)
             new == [nft[x.id] EXCEPT !.liquid = FALSE, !.owed = sum]
  <2>a. sum \in Amounts
    BY <2>2
  <2> HIDE DEF sum
  <2>3. new \in PositionType /\ new.state = nft[x.id].state
    BY <1>0, <2>a DEF PositionType
  <2> USE DEF sum
  <2>4. e = Effect(allowance, [nft EXCEPT ![x.id] = new], x.id, Zero)
    BY <1>0, <2>1
  <2> HIDE DEF new
  <2>5. NftOK([nft EXCEPT ![x.id] = new])
    BY <2>2, <2>3, UpdateIsOK
  <2>. QED  BY <1>0, <1>2, <2>4, <2>5 DEF EffectOK, Effect
<1>3. CASE x.kind \in {"collect", "withdraw"}
  <2>1. /\ Owned(x)
        /\ e = Effect(allowance, [nft EXCEPT ![x.id].owed = Zero], x.id, nft[x.id].owed)
    BY <1>3 DEF Effects, CollectEffects
  <2> DEFINE new == [nft[x.id] EXCEPT !.owed = Zero]
  <2>2. new \in PositionType /\ new.state = nft[x.id].state /\ new.owner = nft[x.id].owner /\ nft[x.id].owed \in Amounts
    BY <1>0 DEF PositionType
  <2>3. e = Effect(allowance, [nft EXCEPT ![x.id] = new], x.id, nft[x.id].owed)
    BY <1>0, <2>1
  <2>4. nft[x.id].owner # None => nft[x.id].state = "open"
    BY <1>0
  <2> HIDE DEF new
  <2>5. NftOK([nft EXCEPT ![x.id] = new])
    BY <2>2, <2>4, UpdateIsOK
  <2>. QED  BY <1>0, <1>3, <2>2, <2>3, <2>5 DEF EffectOK, Effect
<1>4. CASE x.kind = "burn"
  <2>1. e = Effect(allowance, [nft EXCEPT ![x.id] = Burned], x.id, Zero)
    BY <1>4 DEF Effects, BurnEffects
  <2>2. Burned \in PositionType
        /\ Burned.state = "burned" /\ Burned.owner = None
    BY DEF Burned, Unminted, Somebody, PositionType
  <2>3. NftOK([nft EXCEPT ![x.id] = Burned])
    BY <2>2, UpdateIsOK
  <2>. QED  BY <1>0, <1>4, <2>1, <2>2, <2>3 DEF EffectOK, Effect
<1>5. CASE x.kind \in {"mint", "remint"}
  <2>0. e \in MintEffects(x)
    BY <1>5 DEF Effects
  <2>1. PICK used \in Taken(x), i \in NextId : e = MintEffect(x, used, i)
    BY <2>0 DEF MintEffects
  <2>1a. /\ used \in [Token -> UNION {0..x.amounts[t] : t \in Token}]
         /\ Covers(allowance[x.who], used)
         /\ i \in Nft /\ nft[i].state = "unminted"
    BY DEF Taken, NextId
  <2>2. \A t \in Token : used[t] \in Nat
    BY <2>1a DEF Amounts
  <2> DEFINE new == Minus(allowance[x.who], used)
  <2>3. new \in Amounts /\ Covers(allowance[x.who], new)
    <3>1. \A t \in Token : allowance[x.who][t] \in Nat /\ allowance[x.who][t] >= used[t]
      BY <1>0, <2>1a DEF Amounts, Covers
    <3>. QED  BY <2>2, <3>1 DEF Amounts, Covers, Minus
  <2>4. e = Effect([allowance EXCEPT ![x.who] = new], [nft EXCEPT ![i] = Open(x.for)], i, Zero)
    BY <2>1, <1>0 DEF MintEffect
  <2>5. Open(x.for) \in PositionType /\ Open(x.for).state = "open"
    BY <1>5 DEF Open, Somebody, PositionType
  <2> HIDE DEF new
  <2>6. NftOK([nft EXCEPT ![i] = Open(x.for)])
    BY <2>1a, <2>5, UpdateIsOK
  <2>. QED  BY <1>0, <1>5, <2>1a, <2>3, <2>4, <2>6 DEF EffectOK, Effect
<1>. QED  BY <1>1, <1>2, <1>3, <1>4, <1>5

-----------------------------------------------------------------------------
(***************************************************************************)
(* What a mined transaction leaves of the invariant, whatever becomes of   *)
(* the flow that sent it.                                                  *)
(***************************************************************************)
Kept(x) ==
    /\ allowance' \in [Account -> Amounts]
    /\ nft' \in [Nft -> PositionType]
    /\ \A i \in Nft : nft'[i].owner # None => nft'[i].state = "open"
    /\ lowered' \in [Page -> BOOLEAN]
    /\ mined \subseteq mined'
    /\ \A i \in Nft : nft[i].state = "burned" => nft'[i].state = "burned"
    /\ \A a \in Account : Covers(asked[a], allowance'[a])
    /\ \A p \in Page :
        flow[Minting(p)].at = "mint" /\ x.hash # <<Minting(p), sent[Minting(p)] + 1>> =>
            Covers(allowance'[flow[Minting(p)].who], flow[Minting(p)].need) \/ lowered'[p]

LEMMA AppliesKeeps ==
    ASSUME IInv, NEW x \in TxType, x.kind \in {"mint", "remint"} => x.for \in Account,
           x.kind = "approve" => Covers(asked[x.who], x.amounts),
           NEW e \in Effects(x), Applies(x, e)
    PROVE  Kept(x)
<1>. DEFINE f(p) == Minting(p)
<1>a. TypeOK /\ ApprovalsAreExact /\ x.who \in Account
  BY DEF IInv, TxType
<1>b. EffectOK(x, e)
  BY <1>a, EffectsAreOK
<1>c. allowance' = e.allowance /\ nft' = e.nft
  BY DEF Applies
<1>0. /\ EffectOK(x, e)
      /\ allowance' = e.allowance
      /\ nft' = e.nft
      /\ x.who \in Account
      /\ \A a \in Account : allowance[a] \in Amounts /\ asked[a] \in Amounts /\ e.allowance[a] \in Amounts
      /\ \A a \in Account : Covers(asked[a], allowance[a])
  BY <1>a, <1>b, <1>c DEF TypeOK, ApprovalsAreExact, EffectOK
<1>1. \A a \in Account : Covers(asked[a], allowance'[a])
  <2> SUFFICES ASSUME NEW a \in Account PROVE Covers(asked[a], e.allowance[a])
    BY <1>0
  <2>1. CASE a # x.who
    BY <1>0, <2>1 DEF EffectOK
  <2>2. CASE a = x.who /\ x.kind # "approve"
    BY <1>0, <2>2, AmountFacts DEF EffectOK
  <2>3. CASE a = x.who /\ x.kind = "approve"
    <3>1. x.amounts \in Amounts /\ Covers(asked[a], x.amounts)
      BY <2>3 DEF TxType
    <3>2. \A t \in Token : e.allowance[a][t] <= allowance[a][t] \/ e.allowance[a][t] = x.amounts[t]
      BY <1>0, <2>3 DEF EffectOK
    <3>. QED  BY <1>0, <3>1, <3>2 DEF Covers, Amounts
  <2>. QED  BY <2>1, <2>2, <2>3
<1>2. lowered' \in [Page -> BOOLEAN]
  BY DEF Applies, IInv, TypeOK
<1>3. ASSUME NEW p \in Page, flow[f(p)].at = "mint", x.hash # <<f(p), sent[f(p)] + 1>>, ~lowered'[p]
      PROVE  Covers(allowance'[flow[f(p)].who], flow[f(p)].need)
  <2>1. /\ f(p) \in Flow
        /\ flow[f(p)].who \in Account
        /\ flow[f(p)].need \in Amounts
    BY <1>3, FlowFacts DEF IInv, TypeOK, FlowType, Transactions
  <2>2. ~lowered[p] /\ (flow[f(p)].who = x.who => Covers(e.allowance[x.who], allowance[x.who]))
    BY <1>3 DEF Applies, At
  <2>3. Covers(allowance[flow[f(p)].who], flow[f(p)].need)
    BY <1>3, <2>2 DEF IInv, ShortMintsAreRaces
  <2>4. Covers(e.allowance[flow[f(p)].who], allowance[flow[f(p)].who])
    BY <1>0, <2>1, <2>2, AmountFacts DEF EffectOK
  <2>. QED  BY <1>0, <2>1, <2>3, <2>4, AmountFacts
<1>4. mined \subseteq mined'
  BY DEF Applies
<1>. QED  BY <1>0, <1>1, <1>2, <1>3, <1>4 DEF Kept, EffectOK, NftOK

LEMMA RowsStay ==
    ASSUME IInv, mined \subseteq mined', rows' = rows,
           \A i \in Nft : nft[i].state = "burned" => nft'[i].state = "burned"
    PROVE  RecordsAreBacked'
BY DEF IInv, TypeOK, RecordsAreBacked

\* The transaction that a flow is at.
LEMMA TxOfFacts ==
    ASSUME IInv, NEW f \in Flow, flow[f].at \in Transactions
    PROVE  /\ TxOf(f) \in TxType
           /\ TxOf(f).kind = flow[f].at
           /\ TxOf(f).id = flow[f].id
           /\ TxOf(f).who = flow[f].who
           /\ TxOf(f).hash = <<f, sent[f] + 1>>
           /\ TxOf(f).kind \in {"mint", "remint"} => TxOf(f).for \in Account
           /\ TxOf(f).kind = "approve" => Covers(asked[TxOf(f).who], TxOf(f).amounts)
<1>1. flow[f] \in FlowType /\ sent[f] \in Nat /\ flow[f].who \in Account
  BY DEF IInv, TypeOK
<1>2. ASSUME flow[f].at = "approve"
      PROVE  ApprovedAmounts(f) \in Amounts /\ Covers(asked[flow[f].who], ApprovedAmounts(f))
  <2>1. Covers(asked[flow[f].who], flow[f].need) /\ asked[flow[f].who] \in Amounts /\ flow[f].need \in Amounts
    BY <1>1, <1>2 DEF IInv, Asked, TypeOK, FlowType
  <2> DEFINE n == flow[f].need[NextToken(f)]
  <2>2. NextToken(f) \in Token
    <3>1. flow[f].todo # {} /\ flow[f].todo \subseteq Token
      BY <1>1, <1>2 DEF IInv, TypeOK, FlowType
    <3>2. \E t \in flow[f].todo : \A u \in flow[f].todo : t <= u
      BY <3>1, FlowConstants, Smallest
    <3>. QED  BY <3>1, <3>2 DEF NextToken
  <2>3. n \in Nat
    BY <2>1, <2>2 DEF Amounts
  <2>. QED  BY <2>1, <2>2, <2>3 DEF ApprovedAmounts, Only, Amounts, Covers
<1>3. flow[f].at # "approve" => flow[f].for \in Account
  BY DEF IInv, TypeOK, Transactions
<1>4. (IF flow[f].at = "approve" THEN ApprovedAmounts(f) ELSE flow[f].need) \in Amounts
  BY <1>1, <1>2 DEF FlowType
<1>. QED  BY <1>1, <1>2, <1>3, <1>4 DEF TxOf, TxType, FlowType

-----------------------------------------------------------------------------
(***************************************************************************)
(* A step of one flow: what flow f has to know of its newest transaction   *)
(* when it goes on as g, and what the step must leave of the rest.         *)
(***************************************************************************)
Knows(g, hash, m, n, k) ==
    /\ g \in FlowType
    /\ g.at \in Transactions \cup {"check", "allowances"} => g.who \in Account
    /\ g.at \in (Transactions \ {"approve"}) \cup {"payer"} => g.for \in Account
    /\ g.at = "approve" => g.todo # {}
    /\ g.at \in {"save", "logCreated"} => [kind |-> "mint", id |-> g.id, hash |-> hash] \in m
    /\ g.at = "logCollect" => [kind |-> "collect", id |-> g.id, hash |-> hash] \in m
    /\ g.at \in {"remint", "logRebalance"} => n[g.id].state = "burned"
    /\ g.at = "logRebalance" => \E t \in m : t.kind = "remint" /\ t.hash = hash
    /\ g.at \in {"allowances", "approve"} => Covers(k[g.who], g.need)

\* Transaction x may be left pending.
Pending(x) ==
    /\ x \in TxType
    /\ x.kind \in {"mint", "remint"} => x.for \in Account
    /\ x.kind = "approve" => Covers(asked'[x.who], x.amounts)
    /\ x.hash[2] <= sent'[x.hash[1]]

Rest(f) ==
    /\ allowance' \in [Account -> Amounts]
    /\ nft' \in [Nft -> PositionType]
    /\ \A i \in Nft : nft'[i].owner # None => nft'[i].state = "open"
    /\ \A i \in Nft : nft[i].state = "burned" => nft'[i].state = "burned"
    /\ lowered' \in [Page -> BOOLEAN]
    /\ mined \subseteq mined'
    /\ asked' \in [Account -> Amounts]
    /\ \A a \in Account : Covers(asked'[a], asked[a]) /\ Covers(asked'[a], allowance'[a])
    /\ \A p \in Page :
        flow[Minting(p)].at = "mint" /\ Minting(p) # f =>
            Covers(allowance'[flow[Minting(p)].who], flow[Minting(p)].need) \/ lowered'[p]
    /\ sent' \in [Flow -> Nat]
    /\ \A h \in Flow : sent'[h] >= sent[h] /\ (h # f => sent'[h] = sent[h])
    /\ \A x \in late' : x \in late \/ Pending(x)

PagesOK ==
    /\ account' \in Account
    /\ moves' \in 0..MaxMoves
    /\ prepared' \in [Page -> {None} \cup Intent]
    /\ preparing' \in [Page -> {None} \cup Intent]
    /\ checked' \in [Page -> {"none", "missing", "covered"}]

LEMMA KnowsAll ==
    ASSUME IInv, NEW f \in Flow
    PROVE  Knows(flow[f], HashOf(f), mined, nft, asked)
BY DEF Knows, IInv, TypeOK, Backed, Asked

\* Knowledge lasts: what was mined stays mined, what was burned stays burned.
LEMMA KnowsLasts ==
    ASSUME IInv, NEW f \in Flow, NEW h \in Flow, h # f, Rest(f)
    PROVE  Knows(flow[h], <<h, sent'[h]>>, mined', nft', asked')
<1>1. Knows(flow[h], HashOf(h), mined, nft, asked) /\ <<h, sent'[h]>> = HashOf(h)
  BY KnowsAll DEF Rest, HashOf
<1>2. flow[h] \in FlowType /\ flow[h].id \in Nft
  BY <1>1 DEF Knows, FlowType
<1>3. ASSUME flow[h].at \in {"allowances", "approve"}
      PROVE  Covers(asked'[flow[h].who], flow[h].need)
  <2>1. flow[h].who \in Account /\ flow[h].need \in Amounts /\ Covers(asked[flow[h].who], flow[h].need)
    BY <1>1, <1>2, <1>3 DEF Knows, FlowType, Transactions
  <2>2. /\ asked[flow[h].who] \in Amounts /\ asked'[flow[h].who] \in Amounts
        /\ Covers(asked'[flow[h].who], asked[flow[h].who])
    BY <2>1 DEF Rest, IInv, TypeOK
  <2>. QED  BY <2>1, <2>2, AmountFacts
<1>. QED  BY <1>1, <1>2, <1>3 DEF Knows, Rest

LEMMA LateLasts ==
    ASSUME IInv, NEW f \in Flow, Rest(f)
    PROVE  \A x \in late' : Pending(x)
<1> SUFFICES ASSUME NEW x \in late PROVE Pending(x)
  BY DEF Rest
<1>1. x \in TxType /\ x.who \in Account /\ x.amounts \in Amounts /\ x.hash[1] \in Flow /\ x.hash[2] \in Nat
  BY DEF IInv, TypeOK, TxType
<1>2. x.kind \in {"mint", "remint"} => x.for \in Account
  BY DEF IInv, TypeOK
<1>3. ASSUME x.kind = "approve" PROVE Covers(asked'[x.who], x.amounts)
  <2>1. Covers(asked[x.who], x.amounts)
    BY <1>3 DEF IInv, Asked
  <2>2. asked[x.who] \in Amounts /\ asked'[x.who] \in Amounts /\ Covers(asked'[x.who], asked[x.who])
    BY <1>1 DEF Rest, IInv, TypeOK
  <2>. QED  BY <1>1, <2>1, <2>2, AmountFacts
<1>4. x.hash[2] <= sent'[x.hash[1]]
  <2>1. x.hash[2] <= sent[x.hash[1]]
    BY DEF IInv, Newest
  <2>2. sent[x.hash[1]] \in Nat /\ sent'[x.hash[1]] \in Nat /\ sent'[x.hash[1]] >= sent[x.hash[1]]
    BY <1>1 DEF Rest, IInv, TypeOK
  <2>. QED  BY <1>1, <2>1, <2>2
<1>. QED  BY <1>1, <1>2, <1>3, <1>4 DEF Pending

LEMMA FlowStep ==
    ASSUME IInv, NEW f \in Flow, NEW g, Rest(f), PagesOK,
           flow' = [flow EXCEPT ![f] = g],
           Knows(g, <<f, sent'[f]>>, mined', nft', asked'),
           RecordsAreBacked', \A r \in rows' : r.id \in Nft,
           \A p \in Page : Minting(p) = f /\ g.at = "mint" => Covers(allowance'[g.who], g.need) \/ lowered'[p]
    PROVE  IInv'
<1>1. \A h \in Flow : Knows(flow'[h], <<h, sent'[h]>>, mined', nft', asked')
  BY KnowsLasts DEF IInv, TypeOK
<1>2. \A x \in late' : Pending(x)
  BY LateLasts
<1>3. flow' \in [Flow -> FlowType]
  BY DEF IInv, TypeOK, Knows
<1>4. TypeOK'
  BY <1>1, <1>2, <1>3 DEF TypeOK, Knows, Pending, Rest, PagesOK, PositionType
<1>5. Backed'
  BY <1>1 DEF Backed, Knows, HashOf
<1>6. Asked' /\ Newest'
  BY <1>1, <1>2 DEF Asked, Newest, Knows, Pending
<1>7. ShortMintsAreRaces'
  <2> SUFFICES ASSUME NEW p \in Page, flow'[Minting(p)].at = "mint"
               PROVE  Covers(allowance'[flow'[Minting(p)].who], flow'[Minting(p)].need) \/ lowered'[p]
    BY DEF ShortMintsAreRaces
  <2>1. Minting(p) \in Flow
    BY FlowFacts
  <2>2. CASE Minting(p) = f
    BY <2>1, <2>2 DEF IInv, TypeOK
  <2>3. CASE Minting(p) # f
    <3>1. flow'[Minting(p)] = flow[Minting(p)]
      BY <2>1, <2>3 DEF IInv, TypeOK
    <3>. QED  BY <2>3, <3>1 DEF Rest
  <2>. QED  BY <2>2, <2>3
<1>8. ApprovalsAreExact'
  BY DEF ApprovalsAreExact, Rest
<1>. QED  BY <1>4, <1>5, <1>6, <1>7, <1>8 DEF IInv

-----------------------------------------------------------------------------
(***************************************************************************)
(* The rest of the state in a step of flow f: nothing happens on the chain,*)
(* or f's transaction is mined, or it fails.                               *)
(***************************************************************************)
LEMMA RestQuiet ==
    ASSUME IInv, NEW f \in Flow, UNCHANGED <<chainVars, sent, historyVars>>
    PROVE  Rest(f)
<1>1. UNCHANGED <<allowance, nft, mined, late, sent, lowered, asked>>
  BY DEF chainVars, historyVars
<1>2. \A a \in Account : Covers(asked[a], asked[a])
  BY AmountFacts DEF IInv, TypeOK
<1>3. \A h \in Flow : sent[h] >= sent[h]
  BY DEF IInv, TypeOK
<1>. QED  BY <1>1, <1>2, <1>3 DEF Rest, IInv, TypeOK, PositionType, ApprovalsAreExact, ShortMintsAreRaces

LEMMA CountsFacts ==
    ASSUME IInv, NEW f \in Flow, Counts(f)
    PROVE  /\ sent' \in [Flow -> Nat]
           /\ sent'[f] = sent[f] + 1
           /\ \A h \in Flow : sent'[h] >= sent[h] /\ (h # f => sent'[h] = sent[h])
BY DEF Counts, IInv, TypeOK

LEMMA RestLands ==
    ASSUME IInv, NEW f \in Flow, flow[f].at \in Transactions, asked' = asked,
           NEW e \in Effects(TxOf(f)), Lands(f, e)
    PROVE  /\ Rest(f)
           /\ <<f, sent'[f]>> = TxOf(f).hash
           /\ EffectOK(TxOf(f), e)
           /\ nft' = e.nft
           /\ flow[f].at \in {"mint", "collect", "remint"} =>
                    [kind |-> flow[f].at, id |-> e.id, hash |-> <<f, sent'[f]>>] \in mined'
<1>1. Kept(TxOf(f))
  BY TxOfFacts, AppliesKeeps DEF Lands
<1>2. /\ sent' \in [Flow -> Nat]
      /\ sent'[f] = sent[f] + 1
      /\ \A h \in Flow : sent'[h] >= sent[h] /\ (h # f => sent'[h] = sent[h])
  BY CountsFacts DEF Lands
<1>3. \A p \in Page : Minting(p) # f => TxOf(f).hash # <<Minting(p), sent[Minting(p)] + 1>>
  BY TxOfFacts
<1>4. asked' \in [Account -> Amounts] /\ \A a \in Account : Covers(asked'[a], asked[a])
  BY AmountFacts DEF IInv, TypeOK
<1>5. Rest(f)
  BY <1>1, <1>2, <1>3, <1>4 DEF Rest, Kept, Lands
<1>6. EffectOK(TxOf(f), e)
  BY TxOfFacts, EffectsAreOK DEF IInv
<1>7. <<f, sent'[f]>> = TxOf(f).hash
  BY <1>2, TxOfFacts
<1>8. TxOf(f).kind = flow[f].at
  BY TxOfFacts
<1>. QED  BY <1>5, <1>6, <1>7, <1>8 DEF Lands, Applies

LEMMA RestFails ==
    ASSUME IInv, NEW f \in Flow, flow[f].at \in Transactions, asked' = asked, Fails(f)
    PROVE  Rest(f)
<1>0. UNCHANGED <<allowance, nft, mined, lowered, asked>>
  BY DEF Fails
<1>1. \A a \in Account : Covers(asked[a], asked[a])
  BY AmountFacts DEF IInv, TypeOK
<1>2. /\ sent' \in [Flow -> Nat]
      /\ \A h \in Flow : sent'[h] >= sent[h] /\ (h # f => sent'[h] = sent[h])
      /\ \A x \in late' : x \in late \/ Pending(x)
  <2>1. CASE UNCHANGED <<late, sent>>
    BY <2>1 DEF IInv, TypeOK
  <2>2. CASE late' = late \cup {TxOf(f)} /\ Counts(f)
    <3>1. TxOf(f).hash[2] <= sent'[TxOf(f).hash[1]]
      BY <2>2, TxOfFacts, CountsFacts DEF IInv, TypeOK
    <3>2. Pending(TxOf(f))
      BY <1>0, <3>1, TxOfFacts DEF Pending
    <3>. QED  BY <2>2, <3>2, CountsFacts
  <2>. QED  BY <2>1, <2>2 DEF Fails
<1>. QED  BY <1>0, <1>1, <1>2 DEF Rest, IInv, TypeOK, PositionType, ApprovalsAreExact, ShortMintsAreRaces

LEMMA KnowsIdle ==
    ASSUME NEW hash, NEW m, NEW n, NEW k
    PROVE  Knows(Idle, hash, m, n, k)
BY IdleFacts DEF Knows, Transactions

\* A step in which nothing happens on the chain and no row is written.
LEMMA QuietStep ==
    ASSUME IInv, NEW f \in Flow, NEW g, PagesOK,
           UNCHANGED <<chainVars, sent, historyVars, rows>>,
           flow' = [flow EXCEPT ![f] = g],
           Knows(g, HashOf(f), mined, nft, asked), g.at = "mint" => flow[f].at = "mint" /\ g = flow[f]
    PROVE  IInv'
<1>1. Rest(f)
  BY RestQuiet
<1>2. UNCHANGED <<allowance, nft, mined, late, sent, lowered, asked, rows>>
  BY DEF chainVars, historyVars
<1>3. Knows(g, <<f, sent'[f]>>, mined', nft', asked')
  BY <1>2 DEF HashOf
<1>4. RecordsAreBacked' /\ \A r \in rows' : r.id \in Nft
  BY <1>2, RowsStay DEF IInv, TypeOK
<1>5. \A p \in Page : Minting(p) = f /\ g.at = "mint" => Covers(allowance'[g.who], g.need) \/ lowered'[p]
  BY <1>2 DEF IInv, ShortMintsAreRaces
<1>. QED  BY <1>1, <1>3, <1>4, <1>5, FlowStep

-----------------------------------------------------------------------------
LEMMA PrepareKeeps == ASSUME IInv, NEW p \in Page, Prepare(p) PROVE IInv'
<1> USE DEF Entered, MintFor
<1> DEFINE f == Approving(p)
<1>1. f \in Flow /\ Knows(flow[f], HashOf(f), mined, nft, asked)
  BY FlowFacts, KnowsAll
<1>2. PagesOK
  <2>1. moves' \in 0..MaxMoves
    BY FlowConstants DEF Prepare, IInv, TypeOK
  <2>. QED  BY <2>1 DEF Prepare, PagesOK, IInv, TypeOK, Intent
<1>3. flow' = [flow EXCEPT ![f] = flow[f]]
  BY DEF Prepare, IInv, TypeOK
<1>4. UNCHANGED <<chainVars, sent, historyVars, rows>>
  BY DEF Prepare
<1> HIDE DEF f
<1>. QED  BY <1>1, <1>2, <1>3, <1>4, QuietStep

LEMMA PrepareEndsKeeps == ASSUME IInv, NEW p \in Page, PrepareEnds(p) PROVE IInv'
<1> DEFINE f == Approving(p)
<1>1. f \in Flow /\ Knows(flow[f], HashOf(f), mined, nft, asked)
  BY FlowFacts, KnowsAll
<1>2. PagesOK
  BY DEF PrepareEnds, PagesOK, IInv, TypeOK, Intent
<1>3. flow' = [flow EXCEPT ![f] = flow[f]]
  BY DEF PrepareEnds, IInv, TypeOK
<1>4. UNCHANGED <<chainVars, sent, historyVars, rows>>
  BY DEF PrepareEnds
<1> HIDE DEF f
<1>. QED  BY <1>1, <1>2, <1>3, <1>4, QuietStep

LEMMA PrepareFailsKeeps == ASSUME IInv, NEW p \in Page, PrepareFails(p) PROVE IInv'
<1> DEFINE f == Approving(p)
<1>1. f \in Flow /\ Knows(flow[f], HashOf(f), mined, nft, asked)
  BY FlowFacts, KnowsAll
<1>2. PagesOK
  BY DEF PrepareFails, PagesOK, IInv, TypeOK, Intent
<1>3. flow' = [flow EXCEPT ![f] = flow[f]]
  BY DEF PrepareFails, IInv, TypeOK
<1>4. UNCHANGED <<chainVars, sent, historyVars, rows>>
  BY DEF PrepareFails
<1> HIDE DEF f
<1>. QED  BY <1>1, <1>2, <1>3, <1>4, QuietStep

\* What was prepared: an owner and amounts.
LEMMA NeedFacts ==
    ASSUME IInv, NEW p \in Page, prepared[p] # None
    PROVE  prepared[p].need \in Amounts /\ prepared[p].owner \in Account
BY FlowConstants DEF IInv, TypeOK, Intent, Amounts

\* A page and a card at a new await; everything else is as it was.
LEMMA SamePages ==
    ASSUME IInv, UNCHANGED <<account, moves, pageVars>>
    PROVE  PagesOK
BY DEF IInv, TypeOK, PagesOK, pageVars

LEMMA StartCheckKeeps == ASSUME IInv, NEW p \in Page, StartCheck(p) PROVE IInv'
<1> USE DEF ExactPlan
<1> DEFINE f == Approving(p)
           g == [Idle EXCEPT !.at = "check", !.who = account, !.need = prepared[p].need]
<1>1. f \in Flow /\ flow' = [flow EXCEPT ![f] = g]
  BY FlowFacts DEF StartCheck
<1>2. PagesOK /\ UNCHANGED <<chainVars, sent, historyVars, rows>>
  BY SamePages DEF StartCheck
<1>3. g \in FlowType
  BY NeedFacts, IdleFacts DEF StartCheck, FlowType, Location, Somebody, IInv, TypeOK
<1>4. g.at = "check" /\ g.who \in Account
  BY DEF Idle, IInv, TypeOK
<1> HIDE DEF f, g
<1>5. Knows(g, HashOf(f), mined, nft, asked)
  BY <1>3, <1>4 DEF Knows, Transactions
<1>. QED  BY <1>1, <1>2, <1>4, <1>5, QuietStep

LEMMA CheckEndsKeeps == ASSUME IInv, NEW p \in Page, CheckEnds(p) PROVE IInv'
<1> DEFINE f == Approving(p)
<1>1. f \in Flow /\ flow' = [flow EXCEPT ![f] = Idle] /\ UNCHANGED <<chainVars, sent, historyVars, rows>>
  BY FlowFacts DEF CheckEnds, Stop
<1>2. PagesOK
  BY DEF CheckEnds, IInv, TypeOK, PagesOK
<1> HIDE DEF f
<1>. QED  BY <1>1, <1>2, KnowsIdle, IdleFacts, QuietStep

LEMMA StartApproveKeeps == ASSUME IInv, NEW p \in Page, StartApprove(p) PROVE IInv'
<1> DEFINE f == Approving(p)
           n == prepared[p].need
           g == [Idle EXCEPT !.at = "allowances", !.who = account, !.need = n]
           larger(a) == [t \in Token |-> IF n[t] > a[t] THEN n[t] ELSE a[t]]
<1>1. /\ f \in Flow
      /\ flow' = [flow EXCEPT ![f] = g]
      /\ asked' = [asked EXCEPT ![account] = larger(asked[account])]
      /\ UNCHANGED <<chainVars, sent, lowered, rows>>
  BY FlowFacts DEF StartApprove, IInv, TypeOK
<1>2. PagesOK
  BY SamePages DEF StartApprove
<1>3. n \in Amounts /\ account \in Account /\ asked[account] \in Amounts
  BY NeedFacts DEF StartApprove, IInv, TypeOK
<1>4. /\ g \in FlowType
      /\ g.at = "allowances" /\ g.who = account /\ g.need = n
  BY <1>3, IdleFacts DEF FlowType, Location, Somebody
<1> HIDE DEF f, g
<1>5. /\ larger(asked[account]) \in Amounts
      /\ Covers(larger(asked[account]), asked[account])
      /\ Covers(larger(asked[account]), n)
  BY <1>3 DEF Amounts, Covers
<1> HIDE DEF larger, n
<1>6. /\ asked' \in [Account -> Amounts]
      /\ asked'[account] = larger(asked[account])
      /\ \A a \in Account : Covers(asked'[a], asked[a])
  BY <1>1, <1>3, <1>5, AmountFacts DEF IInv, TypeOK
<1>7. \A a \in Account : Covers(asked'[a], allowance[a])
  BY <1>6, AmountFacts DEF IInv, TypeOK, ApprovalsAreExact
<1>8. UNCHANGED <<allowance, nft, mined, late, sent, lowered, rows>>
  BY <1>1 DEF chainVars
<1>9. Rest(f)
  <2>1. \A h \in Flow : sent[h] >= sent[h]
    BY DEF IInv, TypeOK
  <2>2. \A q \in Page : flow[Minting(q)].at = "mint" =>
            Covers(allowance[flow[Minting(q)].who], flow[Minting(q)].need) \/ lowered[q]
    BY DEF IInv, ShortMintsAreRaces
  <2>. QED  BY <1>6, <1>7, <1>8, <2>1, <2>2 DEF Rest, IInv, TypeOK, PositionType
<1>10. Knows(g, <<f, sent'[f]>>, mined', nft', asked')
  BY <1>3, <1>4, <1>5, <1>6 DEF Knows, Transactions
<1>11. RecordsAreBacked' /\ \A r \in rows' : r.id \in Nft
  BY <1>8, RowsStay DEF IInv, TypeOK
<1>. QED  BY <1>1, <1>2, <1>4, <1>9, <1>10, <1>11, FlowStep

LEMMA ReadAllowancesKeeps == ASSUME IInv, NEW p \in Page, ReadAllowances(p) PROVE IInv'
<1> DEFINE f == Approving(p)
           low == Below(f)
           l == IF low = {} THEN "check" ELSE "approve"
           g == [flow[f] EXCEPT !.todo = low, !.at = l]
<1>1. f \in Flow /\ flow[f].at = "allowances" /\ UNCHANGED <<chainVars, sent, historyVars, rows>>
  BY FlowFacts DEF ReadAllowances, At
<1>2. PagesOK
  BY SamePages DEF ReadAllowances
<1>3. Knows(flow[f], HashOf(f), mined, nft, asked) /\ flow[f] \in FlowType
  BY <1>1, KnowsAll DEF Knows
<1>4. low \subseteq Token /\ (l = "check" \/ (l = "approve" /\ low # {}))
  <2>1. low \subseteq Token
    BY DEF Below
  <2> HIDE DEF low
  <2>2. CASE low = {}
    BY <2>1, <2>2
  <2>3. CASE low # {}
    BY <2>1, <2>3
  <2>. QED  BY <2>2, <2>3
<1>5. flow' = [flow EXCEPT ![f] = g]
  BY DEF ReadAllowances, IInv, TypeOK
<1> HIDE DEF f, low, l
<1>6. g \in FlowType /\ g.at = l /\ g.todo = low /\ g.who = flow[f].who /\ g.need = flow[f].need
  BY <1>3, <1>4 DEF FlowType, Location, Transactions
<1> HIDE DEF g
<1>7. Knows(g, HashOf(f), mined, nft, asked)
  BY <1>1, <1>3, <1>4, <1>6 DEF Knows, Transactions
<1>. QED  BY <1>1, <1>2, <1>4, <1>5, <1>6, <1>7, QuietStep

LEMMA RefuseApprovalKeeps == ASSUME IInv, NEW p \in Page, RefuseApproval(p) PROVE IInv'
<1> DEFINE f == Approving(p)
<1>1. f \in Flow /\ flow' = [flow EXCEPT ![f] = Idle] /\ UNCHANGED <<chainVars, sent, historyVars, rows>>
  BY FlowFacts DEF RefuseApproval, Stop
<1>2. PagesOK
  BY SamePages DEF RefuseApproval
<1> HIDE DEF f
<1>. QED  BY <1>1, <1>2, KnowsIdle, IdleFacts, QuietStep

\* After an approval, whatever became of it, the page knows what it knew.
LEMMA ApproveTokenKeeps == ASSUME IInv, NEW p \in Page, ApproveToken(p) PROVE IInv'
<1> DEFINE f == Approving(p)
           rest == flow[f].todo \ {NextToken(f)}
           l == IF rest = {} THEN "check" ELSE "approve"
           g == [flow[f] EXCEPT !.todo = rest, !.at = l]
<1>1. f \in Flow /\ flow[f].at = "approve" /\ asked' = asked /\ rows' = rows
  BY FlowFacts DEF ApproveToken, At
<1>2. PagesOK
  BY SamePages DEF ApproveToken
<1>3. Knows(flow[f], HashOf(f), mined, nft, asked) /\ flow[f] \in FlowType
  BY <1>1, KnowsAll DEF Knows
<1>4. rest \subseteq Token /\ (l = "check" \/ (l = "approve" /\ rest # {}))
  <2>1. rest \subseteq Token
    BY <1>3 DEF FlowType
  <2> HIDE DEF rest
  <2>2. CASE rest = {}
    BY <2>1, <2>2
  <2>3. CASE rest # {}
    BY <2>1, <2>3
  <2>. QED  BY <2>2, <2>3
<1>5. flow' = [flow EXCEPT ![f] = g]
  BY DEF ApproveToken, NextApproval, IInv, TypeOK
<1>6. (\E e \in Effects(TxOf(f)) : Lands(f, e)) \/ Fails(f)
  BY DEF ApproveToken
<1> HIDE DEF f, rest, l
<1>7. Rest(f)
  BY <1>1, <1>6, RestLands, RestFails DEF Transactions
<1>8. g \in FlowType /\ g.at = l /\ g.todo = rest /\ g.who = flow[f].who /\ g.need = flow[f].need
  BY <1>3, <1>4 DEF FlowType, Location, Transactions
<1> HIDE DEF g
<1>9. Knows(g, <<f, sent'[f]>>, mined', nft', asked')
  BY <1>1, <1>3, <1>4, <1>8 DEF Knows, Transactions
<1>10. RecordsAreBacked' /\ \A r \in rows' : r.id \in Nft
  BY <1>1, <1>7, RowsStay DEF IInv, TypeOK, Rest
<1>. QED  BY <1>1, <1>2, <1>4, <1>5, <1>7, <1>8, <1>9, <1>10, FlowStep

-----------------------------------------------------------------------------
LEMMA StartMintKeeps == ASSUME IInv, NEW p \in Page, StartMint(p) PROVE IInv'
<1> DEFINE f == Minting(p)
           g == [Idle EXCEPT !.at = "payer", !.wallet = account, !.for = prepared[p].owner, !.need = prepared[p].need]
<1>1. f \in Flow /\ flow' = [flow EXCEPT ![f] = g]
  BY FlowFacts DEF StartMint
<1>2. PagesOK /\ UNCHANGED <<chainVars, sent, historyVars, rows>>
  BY SamePages DEF StartMint
<1>3. g \in FlowType
  BY NeedFacts, IdleFacts DEF StartMint, FlowType, Location, Somebody, IInv, TypeOK
<1>4. g.at = "payer" /\ g.for \in Account
  BY NeedFacts DEF Idle, StartMint
<1> HIDE DEF f, g
<1>5. Knows(g, HashOf(f), mined, nft, asked)
  BY <1>3, <1>4 DEF Knows, Transactions
<1>. QED  BY <1>1, <1>2, <1>4, <1>5, QuietStep

LEMMA ReadPayerKeeps == ASSUME IInv, NEW p \in Page, ReadPayer(p) PROVE IInv'
<1> DEFINE f == Minting(p)
           g == [flow[f] EXCEPT !.who = account, !.at = "mint"]
<1>1. f \in Flow /\ flow[f].at = "payer" /\ UNCHANGED <<chainVars, sent, asked, rows>>
  BY FlowFacts DEF ReadPayer, At
<1>2. PagesOK
  BY SamePages DEF ReadPayer
<1>3. Knows(flow[f], HashOf(f), mined, nft, asked) /\ flow[f] \in FlowType
  BY <1>1, KnowsAll DEF Knows
<1>4. \/ flow' = [flow EXCEPT ![f] = g] /\ Covers(allowance[account], flow[f].need)
      \/ flow' = [flow EXCEPT ![f] = Idle]
  BY DEF ReadPayer, Stop, IInv, TypeOK
<1>5. lowered' = [lowered EXCEPT ![p] = FALSE]
  BY DEF ReadPayer
<1>6. \A q \in Page : Minting(q) = f => q = p
  BY FlowFacts
<1> HIDE DEF f
<1>7. UNCHANGED <<allowance, nft, mined, late, sent, asked, rows>>
  BY <1>1 DEF chainVars
<1>8. Rest(f)
  <2>1. \A a \in Account : Covers(asked[a], asked[a])
    BY AmountFacts DEF IInv, TypeOK
  <2>2. \A h \in Flow : sent[h] >= sent[h]
    BY DEF IInv, TypeOK
  <2>3. lowered' \in [Page -> BOOLEAN]
    BY <1>5 DEF IInv, TypeOK
  <2>4. ASSUME NEW q \in Page, flow[Minting(q)].at = "mint", Minting(q) # f
        PROVE  Covers(allowance[flow[Minting(q)].who], flow[Minting(q)].need) \/ lowered'[q]
    <3>1. q # p
      BY <2>4 DEF f
    <3>. QED  BY <1>5, <2>4, <3>1 DEF IInv, TypeOK, ShortMintsAreRaces
  <2>. QED  BY <1>7, <2>1, <2>2, <2>3, <2>4 DEF Rest, IInv, TypeOK, PositionType, ApprovalsAreExact
<1>9. g \in FlowType /\ g.at = "mint" /\ g.who = account /\ g.need = flow[f].need /\ account \in Account
  BY <1>3 DEF FlowType, Location, Transactions, Somebody, IInv, TypeOK
<1>10. RecordsAreBacked' /\ \A r \in rows' : r.id \in Nft
  BY <1>7, RowsStay DEF IInv, TypeOK
<1> HIDE DEF g
<1>a. g.for \in Account
  BY <1>1, <1>3 DEF g, Knows
<1>11. CASE flow' = [flow EXCEPT ![f] = g] /\ Covers(allowance[account], flow[f].need)
  <2>1. Knows(g, <<f, sent'[f]>>, mined', nft', asked')
    BY <1>9, <1>a DEF Knows
  <2>. QED  BY <1>1, <1>2, <1>7, <1>8, <1>9, <1>10, <1>11, <2>1, FlowStep
<1>12. CASE flow' = [flow EXCEPT ![f] = Idle]
  BY <1>1, <1>2, <1>8, <1>10, <1>12, KnowsIdle, IdleFacts, FlowStep
<1>. QED  BY <1>4, <1>11, <1>12

LEMMA MintKeeps == ASSUME IInv, NEW p \in Page, Mint(p) PROVE IInv'
<1> DEFINE f == Minting(p)
<1>1. f \in Flow /\ flow[f].at = "mint" /\ asked' = asked /\ rows' = rows
  BY FlowFacts DEF Mint, At
<1>2. PagesOK
  BY SamePages DEF Mint
<1>3. Knows(flow[f], HashOf(f), mined, nft, asked) /\ flow[f] \in FlowType
  BY <1>1, KnowsAll DEF Knows
<1>4. \/ \E e \in Effects(TxOf(f)) : Lands(f, e) /\ flow' = [flow EXCEPT ![f] = [flow[f] EXCEPT !.at = "save", !.id = e.id]]
      \/ Fails(f) /\ flow' = [flow EXCEPT ![f] = Idle]
  <2>1. /\ flow \in [Flow -> FlowType]
        /\ \/ \E e \in Effects(TxOf(f)) : Lands(f, e) /\ flow' = [flow EXCEPT ![f].at = "save", ![f].id = e.id]
           \/ Fails(f) /\ flow' = [flow EXCEPT ![f] = Idle]
    BY DEF Mint, Stop, IInv, TypeOK
  <2>2. ASSUME NEW e
        PROVE  [flow EXCEPT ![f].at = "save", ![f].id = e.id] = [flow EXCEPT ![f] = [flow[f] EXCEPT !.at = "save", !.id = e.id]]
    BY <1>1, <2>1
  <2> HIDE DEF f
  <2>. QED  BY <2>1, <2>2
<1> HIDE DEF f
<1>5. ASSUME Rest(f) PROVE RecordsAreBacked' /\ \A r \in rows' : r.id \in Nft
  BY <1>1, <1>5, RowsStay DEF IInv, TypeOK, Rest
<1>6. CASE Fails(f) /\ flow' = [flow EXCEPT ![f] = Idle]
  <2>1. Rest(f)
    BY <1>1, <1>6, RestFails DEF Transactions
  <2>. QED  BY <1>1, <1>2, <1>5, <1>6, <2>1, KnowsIdle, IdleFacts, FlowStep
<1>7. ASSUME NEW e \in Effects(TxOf(f)), Lands(f, e),
             flow' = [flow EXCEPT ![f] = [flow[f] EXCEPT !.at = "save", !.id = e.id]]
      PROVE  IInv'
  <2> DEFINE g == [flow[f] EXCEPT !.at = "save", !.id = e.id]
  <2>1. /\ Rest(f) /\ e.id \in Nft
        /\ [kind |-> "mint", id |-> e.id, hash |-> <<f, sent'[f]>>] \in mined'
    BY <1>1, <1>7, RestLands DEF Transactions, EffectOK
  <2>2. g \in FlowType /\ g.at = "save" /\ g.id = e.id
    BY <1>3, <2>1 DEF FlowType, Location
  <2>3. flow' = [flow EXCEPT ![f] = g]
    BY <1>7
  <2> HIDE DEF g
  <2>4. Knows(g, <<f, sent'[f]>>, mined', nft', asked')
    BY <2>1, <2>2 DEF Knows, Transactions
  <2>. QED  BY <1>1, <1>2, <1>5, <2>1, <2>2, <2>3, <2>4, FlowStep
<1>. QED  BY <1>4, <1>6, <1>7

\* A row that is posted is about the flow's newest transaction.
LEMMA PostsFacts ==
    ASSUME IInv, NEW f \in Flow, NEW type \in DOMAIN KindOf, Posts(f, type),
           nft' = nft, mined' = mined,
           \E m \in mined : m.kind = KindOf[type] /\ m.hash = HashOf(f) /\ (type # "Rebalance" => m.id = flow[f].id),
           type = "Rebalance" => nft[flow[f].id].state = "burned"
    PROVE  RecordsAreBacked' /\ \A r \in rows' : r.id \in Nft
<1> DEFINE new == Row(f, type)
<1>1. rows' = rows \cup {new}
  BY DEF Posts
<1>2. new.type = type /\ new.tx = HashOf(f) /\ new.id = flow[f].id /\ flow[f].id \in Nft
  BY DEF Row, HashOf, IInv, TypeOK, FlowType
<1> HIDE DEF new
<1>. QED  BY <1>1, <1>2 DEF IInv, TypeOK, RecordsAreBacked

LEMMA SaveKeeps == ASSUME IInv, NEW p \in Page, Save(p) PROVE IInv'
<1> DEFINE f == Minting(p)
           g == [flow[f] EXCEPT !.at = "logCreated"]
<1>1. f \in Flow /\ flow[f].at = "save" /\ UNCHANGED <<chainVars, sent, historyVars>>
  BY FlowFacts DEF Save, At
<1>2. PagesOK
  BY SamePages DEF Save
<1>3. Knows(flow[f], HashOf(f), mined, nft, asked) /\ flow[f] \in FlowType
  BY <1>1, KnowsAll DEF Knows
<1>4. \/ Posts(f, "Position") /\ flow' = [flow EXCEPT ![f] = g]
      \/ flow' = [flow EXCEPT ![f] = Idle] /\ rows' = rows
  BY DEF Save, Goto, Stop, IInv, TypeOK
<1> HIDE DEF f
<1>5. UNCHANGED <<allowance, nft, mined, late, sent, lowered, asked>> /\ Rest(f)
  BY <1>1, RestQuiet DEF chainVars, historyVars
<1>6. [kind |-> "mint", id |-> flow[f].id, hash |-> HashOf(f)] \in mined
  BY <1>1, <1>3 DEF Knows
<1>7. CASE Posts(f, "Position") /\ flow' = [flow EXCEPT ![f] = g]
  <2>1. RecordsAreBacked' /\ \A r \in rows' : r.id \in Nft
    BY <1>1, <1>5, <1>6, <1>7, PostsFacts DEF KindOf
  <2>2. g \in FlowType /\ g.at = "logCreated" /\ g.id = flow[f].id
    BY <1>3 DEF FlowType, Location, Logs
  <2> HIDE DEF g
  <2>3. Knows(g, <<f, sent'[f]>>, mined', nft', asked')
    BY <1>5, <1>6, <2>2 DEF Knows, Transactions, HashOf
  <2>. QED  BY <1>1, <1>2, <1>5, <1>7, <2>1, <2>2, <2>3, FlowStep
<1>8. CASE flow' = [flow EXCEPT ![f] = Idle] /\ rows' = rows
  <2>1. RecordsAreBacked' /\ \A r \in rows' : r.id \in Nft
    BY <1>5, <1>8, RowsStay DEF IInv, TypeOK
  <2>. QED  BY <1>1, <1>2, <1>5, <1>8, <2>1, KnowsIdle, IdleFacts, FlowStep
<1>. QED  BY <1>4, <1>7, <1>8

LEMMA LogKeeps == ASSUME IInv, NEW f \in Flow, Log(f) PROVE IInv'
<1>1. /\ flow[f].at \in {"logCreated", "logCollect", "logRebalance"}
      /\ flow' = [flow EXCEPT ![f] = Idle]
      /\ UNCHANGED <<chainVars, sent, historyVars>>
      /\ Posts(f, Logs[flow[f].at]) \/ rows' = rows
  BY DEF Log, Stop, Logs
<1>2. PagesOK
  BY SamePages DEF Log
<1>3. Knows(flow[f], HashOf(f), mined, nft, asked)
  BY KnowsAll
<1>4. UNCHANGED <<allowance, nft, mined, late, sent, lowered, asked>> /\ Rest(f)
  BY <1>1, RestQuiet DEF chainVars, historyVars
<1>5. RecordsAreBacked' /\ \A r \in rows' : r.id \in Nft
  <2>1. CASE rows' = rows
    BY <1>4, <2>1, RowsStay DEF IInv, TypeOK
  <2>2. CASE Posts(f, Logs[flow[f].at])
    <3>1. CASE flow[f].at = "logCreated"
      BY <1>3, <1>4, <2>2, <3>1, PostsFacts DEF Knows, KindOf, Logs
    <3>2. CASE flow[f].at = "logCollect"
      BY <1>3, <1>4, <2>2, <3>2, PostsFacts DEF Knows, KindOf, Logs
    <3>3. CASE flow[f].at = "logRebalance"
      BY <1>3, <1>4, <2>2, <3>3, PostsFacts DEF Knows, KindOf, Logs
    <3>. QED  BY <1>1, <3>1, <3>2, <3>3
  <2>. QED  BY <1>1, <2>1, <2>2
<1>. QED  BY <1>1, <1>2, <1>4, <1>5, KnowsIdle, IdleFacts, FlowStep

-----------------------------------------------------------------------------
LEMMA StartCardKeeps ==
    ASSUME IInv, NEW c \in Card, NEW l \in {"owed", "liquidity"}, StartCard(c, l)
    PROVE  IInv'
<1> DEFINE f == Carding(c)
<1>1. PICK i \in Nft : flow' = [flow EXCEPT ![f] = [Idle EXCEPT !.at = l, !.wallet = account, !.id = i]]
  BY DEF StartCard
<1> DEFINE g == [Idle EXCEPT !.at = l, !.wallet = account, !.id = i]
<1>2. f \in Flow /\ flow' = [flow EXCEPT ![f] = g] /\ UNCHANGED <<chainVars, sent, historyVars, rows>>
  BY <1>1, FlowFacts DEF StartCard
<1>3. PagesOK
  <2>1. moves' \in 0..MaxMoves
    BY FlowConstants DEF StartCard, IInv, TypeOK
  <2>. QED  BY <2>1 DEF StartCard, PagesOK, pageVars, IInv, TypeOK, Intent
<1>4. g \in FlowType /\ g.at = l
  BY IdleFacts DEF FlowType, Location, Somebody, IInv, TypeOK
<1> HIDE DEF f, g
<1>5. Knows(g, HashOf(f), mined, nft, asked)
  BY <1>4 DEF Knows, Transactions
<1>. QED  BY <1>2, <1>3, <1>4, <1>5, QuietStep

LEMMA ReadPositionKeeps == ASSUME IInv, NEW c \in Card, ReadPosition(c) PROVE IInv'
<1> DEFINE f == Carding(c)
           next == IF flow[f].at = "owed" THEN "collect" ELSE "decrease"
           g == [flow[f] EXCEPT !.who = account, !.for = account, !.at = next]
<1>1. f \in Flow /\ flow \in [Flow -> FlowType] /\ UNCHANGED <<chainVars, sent, historyVars, rows>>
  BY FlowFacts DEF ReadPosition, IInv, TypeOK
<1>2. PagesOK
  BY SamePages DEF ReadPosition
<1>3. flow' = [flow EXCEPT ![f] = g] \/ flow' = [flow EXCEPT ![f] = Idle]
  BY <1>1 DEF ReadPosition, Stop, At
<1>4. next \in {"collect", "decrease"}
  OBVIOUS
<1> HIDE DEF f, next
<1>5. account \in Account
  BY DEF IInv, TypeOK
<1>6. g \in FlowType /\ g.at = next /\ g.who \in Account /\ g.for \in Account
  <2>1. next \in Location
    BY <1>4 DEF Location, Transactions
  <2>2. flow[f] \in FlowType
    BY <1>1
  <2>. QED  BY <1>5, <2>1, <2>2 DEF FlowType, Somebody
<1> HIDE DEF g
<1>7. Knows(g, HashOf(f), mined, nft, asked)
  BY <1>4, <1>6 DEF Knows, Transactions
<1>. QED  BY <1>1, <1>2, <1>3, <1>4, <1>6, <1>7, KnowsIdle, IdleFacts, QuietStep

\* The next await of a card, and what it knows there of the transaction before it.
LEMMA CardTransactionKeeps ==
    ASSUME IInv, NEW c \in Card, CardTransaction(c),
           flow[Carding(c)].at \in {"collect", "decrease", "withdraw", "burn", "remint"}
    PROVE  IInv'
<1> DEFINE f == Carding(c)
           need(e) == IF flow[f].at = "withdraw" THEN e.paid ELSE flow[f].need
           g(e, l) == [flow[f] EXCEPT !.at = l, !.need = need(e)]
<1>1. /\ f \in Flow /\ flow[f].at \in {"collect", "decrease", "withdraw", "burn", "remint"}
      /\ flow \in [Flow -> FlowType]
      /\ asked' = asked /\ rows' = rows
  BY FlowFacts DEF CardTransaction, IInv, TypeOK
<1>2. PagesOK
  BY SamePages DEF CardTransaction
<1>3. Knows(flow[f], HashOf(f), mined, nft, asked) /\ flow[f] \in FlowType
  BY <1>1, KnowsAll DEF Knows
<1>4. ASSUME Rest(f) PROVE RecordsAreBacked' /\ \A r \in rows' : r.id \in Nft
  BY <1>1, <1>4, RowsStay DEF IInv, TypeOK, Rest
<1>5. ASSUME Rest(f), flow' = [flow EXCEPT ![f] = Idle] PROVE IInv'
  <2> HIDE DEF f
  <2>. QED  BY <1>1, <1>2, <1>4, <1>5, KnowsIdle, IdleFacts, FlowStep
<1>6. CASE Fails(f) /\ Stop(f)
  <2>1. flow' = [flow EXCEPT ![f] = Idle]
    BY <1>6 DEF Stop
  <2> HIDE DEF f
  <2>2. Rest(f)
    BY <1>1, <1>6, RestFails DEF Transactions
  <2>. QED  BY <1>5, <2>1, <2>2
<1>7. ASSUME NEW e \in Effects(TxOf(f)), Lands(f, e), NEW l \in After(flow[f].at, e), flow' = [flow EXCEPT ![f] = g(e, l)]
      PROVE  IInv'
  <2> DEFINE h == g(e, l)
  <2>1. flow' = [flow EXCEPT ![f] = h]
    BY <1>7
  <2> HIDE DEF f
  <2>2. /\ Rest(f) /\ e.paid \in Amounts /\ EffectOK(TxOf(f), e) /\ nft' = e.nft
        /\ flow[f].at \in {"mint", "collect", "remint"} =>
                    [kind |-> flow[f].at, id |-> e.id, hash |-> <<f, sent'[f]>>] \in mined'
    BY <1>1, <1>7, RestLands DEF Transactions, EffectOK
  <2>3. /\ l \in {"logCollect", "withdraw", "burn", "remint", "logRebalance"}
        /\ l = "logCollect" => flow[f].at = "collect"
        /\ l = "remint" => flow[f].at = "burn"
        /\ l = "logRebalance" => flow[f].at = "remint"
    BY <1>1, <1>7 DEF After
  <2>4. need(e) \in Amounts
    BY <1>3, <2>2 DEF FlowType
  <2> HIDE DEF need
  <2>5. h \in FlowType /\ h.at = l /\ h.id = flow[f].id /\ h.who = flow[f].who /\ h.for = flow[f].for
    BY <1>3, <2>3, <2>4 DEF FlowType, Location, Transactions, Logs
  <2> HIDE DEF h
  <2>6. l = "logCollect" => e.id = flow[f].id
    BY <1>1, <2>2, <2>3, TxOfFacts DEF EffectOK, Transactions
  <2>7. l = "remint" => nft'[flow[f].id].state = "burned"
    BY <1>1, <2>2, <2>3, TxOfFacts DEF EffectOK, Transactions
  <2>8. l = "logRebalance" =>
            /\ nft'[flow[f].id].state = "burned"
            /\ \E t \in mined' : t.kind = "remint" /\ t.hash = <<f, sent'[f]>>
    <3>1. ASSUME l = "logRebalance" PROVE nft'[flow[f].id].state = "burned"
      BY <1>3, <2>2, <2>3, <3>1 DEF Knows, Rest, FlowType
    <3>. QED  BY <2>2, <2>3, <3>1
  <2>9. flow[f].for \in Account
    BY <1>1, <1>3 DEF Knows, Transactions
  <2>10. Knows(h, <<f, sent'[f]>>, mined', nft', asked')
    BY <1>1, <1>3, <2>2, <2>3, <2>5, <2>6, <2>7, <2>8, <2>9 DEF Knows, Transactions
  <2>. QED  BY <1>1, <1>2, <1>4, <2>1, <2>2, <2>3, <2>5, <2>10, FlowStep
<1>8. ASSUME NEW e \in Effects(TxOf(f)), Lands(f, e), Stop(f) PROVE IInv'
  <2>1. flow' = [flow EXCEPT ![f] = Idle]
    BY <1>8 DEF Stop
  <2> HIDE DEF f
  <2>2. Rest(f)
    BY <1>1, <1>8, RestLands DEF Transactions
  <2>. QED  BY <1>5, <2>1, <2>2
<1>9. CASE \E e \in Effects(TxOf(f)) :
              /\ Lands(f, e)
              /\ IF After(flow[f].at, e) = {} THEN Stop(f)
                 ELSE \E l \in After(flow[f].at, e) : flow' = [flow EXCEPT ![f].at = l,
                          ![f].need = IF flow[f].at = "withdraw" THEN e.paid ELSE @]
  <2>1. PICK e \in Effects(TxOf(f)) :
              /\ Lands(f, e)
              /\ IF After(flow[f].at, e) = {} THEN Stop(f)
                 ELSE \E l \in After(flow[f].at, e) : flow' = [flow EXCEPT ![f].at = l,
                          ![f].need = IF flow[f].at = "withdraw" THEN e.paid ELSE @]
    BY <1>9
  <2>2. CASE Stop(f)
    BY <1>8, <2>1, <2>2
  <2>3. CASE \E l \in After(flow[f].at, e) : flow' = [flow EXCEPT ![f].at = l,
                          ![f].need = IF flow[f].at = "withdraw" THEN e.paid ELSE @]
    <3>1. PICK l \in After(flow[f].at, e) : flow' = [flow EXCEPT ![f].at = l,
                          ![f].need = IF flow[f].at = "withdraw" THEN e.paid ELSE @]
      BY <2>3
    <3>2. flow' = [flow EXCEPT ![f] = g(e, l)]
      BY <1>1, <3>1
    <3>. QED  BY <1>7, <2>1, <3>2
  <2>. QED  BY <2>1, <2>2, <2>3
<1>. QED  BY <1>6, <1>9 DEF CardTransaction, At

-----------------------------------------------------------------------------
LEMMA MineLateKeeps == ASSUME IInv, MineLate PROVE IInv'
<1>1. PICK x \in late :
        /\ late' = late \ {x}
        /\ \/ \E e \in Effects(x) : Applies(x, e)
           \/ UNCHANGED <<allowance, nft, mined, lowered>>
        /\ UNCHANGED <<account, moves, pageVars, flow, sent, rows, asked>>
  BY DEF MineLate
<1>2. /\ x \in TxType
      /\ x.kind \in {"mint", "remint"} => x.for \in Account
      /\ x.kind = "approve" => Covers(asked[x.who], x.amounts)
      /\ x.hash[1] \in Flow /\ x.hash[2] \in Nat /\ x.hash[2] <= sent[x.hash[1]]
  BY DEF IInv, TypeOK, Asked, Newest, TxType
<1> DEFINE f == x.hash[1]
<1>3. \A p \in Page : x.hash # <<Minting(p), sent[Minting(p)] + 1>>
  <2> SUFFICES ASSUME NEW p \in Page, x.hash = <<Minting(p), sent[Minting(p)] + 1>> PROVE FALSE
    OBVIOUS
  <2>1. x.hash[1] = Minting(p) /\ x.hash[2] = sent[Minting(p)] + 1 /\ sent[Minting(p)] \in Nat
    BY FlowFacts DEF IInv, TypeOK
  <2>. QED  BY <1>2, <2>1
<1>4. /\ Rest(f)
      /\ \A p \in Page : flow[Minting(p)].at = "mint" =>
            Covers(allowance'[flow[Minting(p)].who], flow[Minting(p)].need) \/ lowered'[p]
  <2>0. /\ \A a \in Account : Covers(asked[a], asked[a])
        /\ \A h \in Flow : sent[h] >= sent[h]
        /\ \A y \in late' : y \in late
    BY <1>1, AmountFacts DEF IInv, TypeOK
  <2>1. CASE \E e \in Effects(x) : Applies(x, e)
    <3>1. Kept(x)
      BY <1>2, <2>1, AppliesKeeps
    <3>. QED  BY <1>1, <1>3, <2>0, <3>1 DEF Kept, Rest, IInv, TypeOK
  <2>2. CASE UNCHANGED <<allowance, nft, mined, lowered>>
    BY <1>1, <2>0, <2>2 DEF Rest, IInv, TypeOK, PositionType, ApprovalsAreExact, ShortMintsAreRaces
  <2>. QED  BY <1>1, <2>1, <2>2
<1>5. PagesOK
  BY <1>1, SamePages
<1>6. RecordsAreBacked' /\ \A r \in rows' : r.id \in Nft
  BY <1>1, <1>4, RowsStay DEF IInv, TypeOK, Rest
<1>7. flow' = [flow EXCEPT ![f] = flow[f]] /\ sent' = sent
  BY <1>1, <1>2 DEF IInv, TypeOK
<1> HIDE DEF f
<1>8. Knows(flow[f], <<f, sent'[f]>>, mined', nft', asked')
  <2>1. Knows(flow[f], HashOf(f), mined, nft, asked) /\ f \in Flow /\ asked' = asked
    BY <1>1, <1>2, KnowsAll DEF f
  <2>2. <<f, sent'[f]>> = HashOf(f)
    BY <1>7 DEF HashOf
  <2>3. flow[f].id \in Nft
    BY <2>1 DEF Knows, FlowType
  <2>. QED  BY <1>4, <2>1, <2>2, <2>3 DEF Knows, Rest
<1>9. f \in Flow
  BY <1>2 DEF f
<1>. QED  BY <1>4, <1>5, <1>6, <1>7, <1>8, <1>9, FlowStep

LEMMA SwitchAccountKeeps == ASSUME IInv, SwitchAccount PROVE IInv'
<1>1. account' \in Account /\ moves' \in 0..MaxMoves
  BY FlowConstants DEF SwitchAccount, IInv, TypeOK
<1>2. UNCHANGED <<allowance, nft, mined, late, prepared, preparing, checked, flow, sent, rows, lowered, asked>>
  BY DEF SwitchAccount, chainVars, pageVars, historyVars
<1>3. TypeOK'
  BY <1>1, <1>2 DEF IInv, TypeOK
<1>4. Backed' /\ Asked' /\ Newest'
  BY <1>2 DEF IInv, Backed, Asked, Newest, HashOf
<1>5. RecordsAreBacked' /\ ShortMintsAreRaces' /\ ApprovalsAreExact'
  BY <1>2 DEF IInv, RecordsAreBacked, ShortMintsAreRaces, ApprovalsAreExact
<1>. QED  BY <1>3, <1>4, <1>5 DEF IInv

LEMMA NextIInv == IInv /\ [Next]_vars => IInv'
<1> SUFFICES ASSUME IInv, [Next]_vars PROVE IInv'
  OBVIOUS
<1>1. ASSUME NEW p \in Page, PageNext(p) PROVE IInv'
  BY <1>1, PrepareKeeps, PrepareEndsKeeps, PrepareFailsKeeps, StartCheckKeeps, CheckEndsKeeps, StartApproveKeeps,
     ReadAllowancesKeeps, RefuseApprovalKeeps, ApproveTokenKeeps, StartMintKeeps, ReadPayerKeeps, MintKeeps, SaveKeeps
  DEF PageNext
<1>2. ASSUME NEW c \in Card, CardNext(c) PROVE IInv'
  BY <1>2, StartCardKeeps, ReadPositionKeeps, CardTransactionKeeps
  DEF CardNext, StartCollect, StartRebalance, Collect, Rebalance, At
<1>3. CASE UNCHANGED vars
  <2>1. TypeOK'
    BY <1>3 DEF vars, IInv, TypeOK
  <2>2. Backed' /\ Asked' /\ Newest'
    BY <1>3 DEF vars, IInv, Backed, Asked, Newest, HashOf
  <2>3. RecordsAreBacked' /\ ShortMintsAreRaces' /\ ApprovalsAreExact'
    BY <1>3 DEF vars, IInv, RecordsAreBacked, ShortMintsAreRaces, ApprovalsAreExact
  <2>. QED  BY <2>1, <2>2, <2>3 DEF IInv
<1>. QED  BY <1>1, <1>2, <1>3, LogKeeps, SwitchAccountKeeps, MineLateKeeps DEF Next

-----------------------------------------------------------------------------
(***************************************************************************)
(* The theorems.                                                           *)
(***************************************************************************)
LEMMA FlowInvariant == Spec => []IInv
BY InitIInv, NextIInv, PTL DEF Spec

\* Type correctness.
THEOREM FlowTypeCorrect == Spec => []TypeOK
<1>1. IInv => TypeOK
  BY DEF IInv
<1>. QED  BY FlowInvariant, <1>1, PTL

\* Every row of the database is about a transaction that succeeded: the page posts a
\* position only for the token id of its own mint, the card a rebalance only after the
\* burn and the second mint.
THEOREM RecordsAlwaysBacked == Spec => []RecordsAreBacked
<1>1. IInv => RecordsAreBacked
  BY DEF IInv
<1>. QED  BY FlowInvariant, <1>1, PTL

\* A mint that can no longer take what it names is one whose payer's allowance another
\* transaction took since executeCreatePosition read it.
THEOREM ShortMintsAlwaysRaces == Spec => []ShortMintsAreRaces
<1>1. IInv => ShortMintsAreRaces
  BY DEF IInv
<1>. QED  BY FlowInvariant, <1>1, PTL

\* No sequence of approvals, retries and pending transactions of any number of tabs gives
\* the position manager more than was asked for.
THEOREM ApprovalsAlwaysExact == Spec => []ApprovalsAreExact
<1>1. IInv => ApprovalsAreExact
  BY DEF IInv
<1>. QED  BY FlowInvariant, <1>1, PTL
=============================================================================
