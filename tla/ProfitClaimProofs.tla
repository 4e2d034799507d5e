-------------------------- MODULE ProfitClaimProofs --------------------------
(***************************************************************************)
(* Proofs about ProfitClaim, for any items, keys, requests and bodies.     *)
(*                                                                         *)
(* The inductive invariant adds to the checked ones what a request knows   *)
(* at each await: while it is between the lock and the end of the payment  *)
(* the item is EXECUTING and its own (Owns), the hash it is about to write *)
(* is that of the payment it came with (Pays), the key row is about its    *)
(* item (KeyIsOurs), and a relayer payment not rolled back still has its   *)
(* item (StandingOwns).                                                    *)
(***************************************************************************)
EXTENDS ProfitClaim, TLAPS, FiniteSetTheorems

Owns ==
    \A r \in Request : pc[r] \in Holding =>
        status[body[r].item] = "EXECUTING" /\ taker[body[r].item] = r

Pays ==
    \A r \in Request :
        /\ pc[r] \in {"confirm", "pay"} => hash[r] = PaymentOf(r)
        /\ pc[r] = "confirm" => tx[r] \notin {"none", "inflight"} /\ body[r].means = "txRequestWait"
        /\ pc[r] = "pay" => Backs(r)

PaidByUs ==
    \A r \in Request : pc[r] = "succeedKey" =>
        status[body[r].item] = "PAID" /\ paidTxHash[body[r].item] = hash[r]

KeyIsOurs ==
    \A r \in Request :
        /\ pc[r] \in {"lookup", "insert", "failKey", "succeedKey"} => body[r].key \in Key
        /\ pc[r] \in Holding \cup {"start", "failKey", "succeedKey"} /\ body[r].key \in Key =>
                keyStatus[body[r].key] # "ABSENT" /\ keyItem[body[r].key] = body[r].item

StandingOwns ==
    \A r \in Request : tx[r] # "none" /\ r \notin rolledBack =>
        taker[body[r].item] = r /\ status[body[r].item] \in {"EXECUTING", "PAID"}

IInv ==
    /\ TypeOK /\ Owns /\ Pays /\ PaidByUs /\ KeyIsOurs /\ StandingOwns
    /\ PaidIsBacked /\ AnswerMatchesItem /\ KeyMatchesItem

\* What the bodies of requests are.
LEMMA BodyFacts ==
    ASSUME TypeOK, NEW r \in Request
    PROVE  /\ body[r].item \in Item
           /\ body[r].key \in Key \cup {NoKey}
           /\ body[r].means \in Means
           /\ body[r].given \in Hash
           /\ body[r].means = "paidTxHash" <=> body[r].given # Nobody
           /\ r # Nobody
BY ClaimConstants DEF TypeOK, BodyType, Payment

LEMMA InitIInv == Init => IInv
<1> SUFFICES ASSUME Init PROVE IInv
  OBVIOUS
<1>1. TypeOK
  BY DEF Init, TypeOK, ItemStatus, Hash, Payment, Location, TxState
<1>2. Owns /\ Pays /\ PaidByUs /\ KeyIsOurs /\ StandingOwns
  BY DEF Init, Owns, Pays, PaidByUs, KeyIsOurs, StandingOwns, Holding
<1>3. PaidIsBacked /\ AnswerMatchesItem /\ KeyMatchesItem
  BY DEF Init, PaidIsBacked, AnswerMatchesItem, KeyMatchesItem
<1>. QED  BY <1>1, <1>2, <1>3 DEF IInv

-----------------------------------------------------------------------------
(***************************************************************************)
(* One lemma per action.                                                   *)
(***************************************************************************)
LEMMA ArriveKeeps == ASSUME IInv, NEW r \in Request, Arrive(r) PROVE IInv'
<1> USE BodyFacts, ClaimConstants DEF IInv
<1> USE DEF Arrive, Goto, itemVars, keyVars
<1>1. TypeOK'
  BY DEF TypeOK, ItemStatus, Hash, Payment, Location, TxState
<1>2. Owns'
  BY DEF TypeOK, Owns, Holding
<1>3. Pays'
  BY DEF TypeOK, Pays, PaymentOf, Backs, Holding
<1>4. PaidByUs'
  BY DEF TypeOK, PaidByUs, Owns, Holding
<1>5. KeyIsOurs'
  BY DEF TypeOK, KeyIsOurs, Holding
<1>6. StandingOwns'
  BY DEF TypeOK, StandingOwns, Owns, Holding
<1>7. PaidIsBacked'
  BY DEF TypeOK, PaidIsBacked, PaymentOf, Backs, Owns, Pays, Holding
<1>8. AnswerMatchesItem'
  BY DEF TypeOK, AnswerMatchesItem, KeyMatchesItem, KeyIsOurs, PaidByUs, Owns, Pays, Holding
<1>9. KeyMatchesItem'
  BY DEF TypeOK, KeyMatchesItem, KeyIsOurs, PaidByUs, Owns, Holding
<1>. QED  BY <1>1, <1>2, <1>3, <1>4, <1>5, <1>6, <1>7, <1>8, <1>9

LEMMA LookupKeyKeeps == ASSUME IInv, NEW r \in Request, LookupKey(r) PROVE IInv'
<1> USE BodyFacts, ClaimConstants DEF IInv
<1> USE DEF LookupKey, Goto, Answer, AnswerPaid, itemVars, keyVars
<1>1. TypeOK'
  <2>1. body[r].key \in Key
    BY DEF KeyIsOurs
  <2>2. /\ \E l \in {"done", "start", "insert"} : pc' = [pc EXCEPT ![r] = l]
        /\ answer' = answer \/ \E a \in {"paid", "conflict", "rejected"} : answer' = [answer EXCEPT ![r] = a]
        /\ hash' = hash \/ hash' = [hash EXCEPT ![r] = keyHash[body[r].key]]
    OBVIOUS
  <2>3. /\ pc' \in [Request -> Location]
        /\ answer' \in [Request -> {"none", "paid", "conflict", "rejected", "failed"}]
        /\ hash' \in [Request -> Hash]
    BY <2>1, <2>2 DEF TypeOK, Location
  <2>. QED  BY <2>3 DEF TypeOK
<1>2. Owns'
  BY DEF TypeOK, Owns, Holding
<1>3. Pays'
  BY DEF TypeOK, Pays, PaymentOf, Backs, Holding
<1>4. PaidByUs'
  BY DEF TypeOK, PaidByUs, Owns, Holding
<1>5. KeyIsOurs'
  BY DEF TypeOK, KeyIsOurs, Holding
<1>6. StandingOwns'
  BY DEF TypeOK, StandingOwns, Owns, Holding
<1>7. PaidIsBacked'
  BY DEF TypeOK, PaidIsBacked, PaymentOf, Backs, Owns, Pays, Holding
<1>8. AnswerMatchesItem'
  BY DEF TypeOK, AnswerMatchesItem, KeyMatchesItem, KeyIsOurs, PaidByUs, Owns, Pays, Holding
<1>9. KeyMatchesItem'
  BY DEF TypeOK, KeyMatchesItem, KeyIsOurs, PaidByUs, Owns, Holding
<1>. QED  BY <1>1, <1>2, <1>3, <1>4, <1>5, <1>6, <1>7, <1>8, <1>9

LEMMA InsertKeyKeeps == ASSUME IInv, NEW r \in Request, InsertKey(r) PROVE IInv'
<1> USE BodyFacts, ClaimConstants DEF IInv
<1> USE DEF InsertKey, Goto, itemVars, keyVars
<1>1. TypeOK'
  BY DEF TypeOK, ItemStatus, Hash, Payment, Location, TxState
<1>2. Owns'
  BY DEF TypeOK, Owns, Holding
<1>3. Pays'
  BY DEF TypeOK, Pays, PaymentOf, Backs, Holding
<1>4. PaidByUs'
  BY DEF TypeOK, PaidByUs, Owns, Holding
<1>5. KeyIsOurs'
  BY DEF TypeOK, KeyIsOurs, Holding
<1>6. StandingOwns'
  BY DEF TypeOK, StandingOwns, Owns, Holding
<1>7. PaidIsBacked'
  BY DEF TypeOK, PaidIsBacked, PaymentOf, Backs, Owns, Pays, Holding
<1>8. AnswerMatchesItem'
  BY DEF TypeOK, AnswerMatchesItem, KeyMatchesItem, KeyIsOurs, PaidByUs, Owns, Pays, Holding
<1>9. KeyMatchesItem'
  BY DEF TypeOK, KeyMatchesItem, KeyIsOurs, PaidByUs, Owns, Holding
<1>. QED  BY <1>1, <1>2, <1>3, <1>4, <1>5, <1>6, <1>7, <1>8, <1>9

LEMMA StartClaimKeeps == ASSUME IInv, NEW r \in Request, StartClaim(r) PROVE IInv'
<1> USE BodyFacts, ClaimConstants DEF IInv
<1> USE DEF StartClaim, Goto, Answer, AnswerPaid, itemVars, keyVars
<1>1. TypeOK'
  <2>1. /\ \E l \in {"done", "holding"} : pc' = [pc EXCEPT ![r] = l]
        /\ answer' = answer \/ \E a \in {"paid", "conflict", "rejected"} : answer' = [answer EXCEPT ![r] = a]
        /\ hash' = hash \/ hash' = [hash EXCEPT ![r] = paidTxHash[body[r].item]]
        /\ status' = status \/ status' = [status EXCEPT ![body[r].item] = "EXECUTING"]
        /\ taker' = taker \/ taker' = [taker EXCEPT ![body[r].item] = r]
    OBVIOUS
  <2>2. /\ pc' \in [Request -> Location]
        /\ answer' \in [Request -> {"none", "paid", "conflict", "rejected", "failed"}]
        /\ hash' \in [Request -> Hash]
        /\ status' \in [Item -> ItemStatus] /\ taker' \in [Item -> Hash]
    BY <2>1, SMTT(30) DEF TypeOK, Location, Hash, Payment, ItemStatus
  <2>. QED  BY <2>2 DEF TypeOK
<1>2. Owns'
  BY DEF TypeOK, Owns, Holding
<1>3. Pays'
  BY DEF TypeOK, Pays, PaymentOf, Backs, Holding
<1>4. PaidByUs'
  BY DEF TypeOK, PaidByUs, Owns, Holding
<1>5. KeyIsOurs'
  BY DEF TypeOK, KeyIsOurs, Holding
<1>6. StandingOwns'
  BY DEF TypeOK, StandingOwns, Owns, Holding
<1>7. PaidIsBacked'
  BY DEF TypeOK, PaidIsBacked, PaymentOf, Backs, Owns, Pays, Holding
<1>8. AnswerMatchesItem'
  BY DEF TypeOK, AnswerMatchesItem, KeyMatchesItem, KeyIsOurs, PaidByUs, Owns, Pays, Holding
<1>9. KeyMatchesItem'
  BY DEF TypeOK, KeyMatchesItem, KeyIsOurs, PaidByUs, Owns, Holding
<1>. QED  BY <1>1, <1>2, <1>3, <1>4, <1>5, <1>6, <1>7, <1>8, <1>9

LEMMA PayWithGivenHashKeeps == ASSUME IInv, NEW r \in Request, PayWithGivenHash(r) PROVE IInv'
<1> USE BodyFacts, ClaimConstants DEF IInv
<1> USE DEF PayWithGivenHash, Goto, itemVars, keyVars
<1>1. TypeOK'
  BY DEF TypeOK, ItemStatus, Hash, Payment, Location, TxState
<1>2. Owns'
  BY DEF TypeOK, Owns, Holding
<1>3. Pays'
  BY DEF TypeOK, Pays, PaymentOf, Backs, Holding
<1>4. PaidByUs'
  BY DEF TypeOK, PaidByUs, Owns, Holding
<1>5. KeyIsOurs'
  BY DEF TypeOK, KeyIsOurs, Holding
<1>6. StandingOwns'
  BY DEF TypeOK, StandingOwns, Owns, Holding
<1>7. PaidIsBacked'
  BY DEF TypeOK, PaidIsBacked, PaymentOf, Backs, Owns, Pays, Holding
<1>8. AnswerMatchesItem'
  BY DEF TypeOK, AnswerMatchesItem, KeyMatchesItem, KeyIsOurs, PaidByUs, Owns, Pays, Holding
<1>9. KeyMatchesItem'
  BY DEF TypeOK, KeyMatchesItem, KeyIsOurs, PaidByUs, Owns, Holding
<1>. QED  BY <1>1, <1>2, <1>3, <1>4, <1>5, <1>6, <1>7, <1>8, <1>9

LEMMA RefuseIncompleteKeeps == ASSUME IInv, NEW r \in Request, RefuseIncomplete(r) PROVE IInv'
<1> USE BodyFacts, ClaimConstants DEF IInv
<1> USE DEF RefuseIncomplete, Goto, Answer, itemVars, keyVars
<1>1. TypeOK'
  BY DEF TypeOK, ItemStatus, Hash, Payment, Location, TxState
<1>2. Owns'
  BY DEF TypeOK, Owns, Holding
<1>3. Pays'
  BY DEF TypeOK, Pays, PaymentOf, Backs, Holding
<1>4. PaidByUs'
  BY DEF TypeOK, PaidByUs, Owns, Holding
<1>5. KeyIsOurs'
  BY DEF TypeOK, KeyIsOurs, Holding
<1>6. StandingOwns'
  BY DEF TypeOK, StandingOwns, Owns, Holding
<1>7. PaidIsBacked'
  BY DEF TypeOK, PaidIsBacked, PaymentOf, Backs, Owns, Pays, Holding
<1>8. AnswerMatchesItem'
  BY DEF TypeOK, AnswerMatchesItem, KeyMatchesItem, KeyIsOurs, PaidByUs, Owns, Pays, Holding
<1>9. KeyMatchesItem'
  BY DEF TypeOK, KeyMatchesItem, KeyIsOurs, PaidByUs, Owns, Holding
<1>. QED  BY <1>1, <1>2, <1>3, <1>4, <1>5, <1>6, <1>7, <1>8, <1>9

LEMMA SubmitAcceptedKeeps == ASSUME IInv, NEW r \in Request, SubmitAccepted(r) PROVE IInv'
<1> USE BodyFacts, ClaimConstants DEF IInv
<1> USE DEF SubmitAccepted, Goto, itemVars, keyVars
<1>1. TypeOK'
  BY DEF TypeOK, ItemStatus, Hash, Payment, Location, TxState
<1>2. Owns'
  BY DEF TypeOK, Owns, Holding
<1>3. Pays'
  BY DEF TypeOK, Pays, PaymentOf, Backs, Holding
<1>4. PaidByUs'
  BY DEF TypeOK, PaidByUs, Owns, Holding
<1>5. KeyIsOurs'
  BY DEF TypeOK, KeyIsOurs, Holding
<1>6. StandingOwns'
  BY DEF TypeOK, StandingOwns, Owns, Holding
<1>7. PaidIsBacked'
  BY DEF TypeOK, PaidIsBacked, PaymentOf, Backs, Owns, Pays, Holding
<1>8. AnswerMatchesItem'
  BY DEF TypeOK, AnswerMatchesItem, KeyMatchesItem, KeyIsOurs, PaidByUs, Owns, Pays, Holding
<1>9. KeyMatchesItem'
  BY DEF TypeOK, KeyMatchesItem, KeyIsOurs, PaidByUs, Owns, Holding
<1>. QED  BY <1>1, <1>2, <1>3, <1>4, <1>5, <1>6, <1>7, <1>8, <1>9

LEMMA SubmitFailedKeeps == ASSUME IInv, NEW r \in Request, SubmitFailed(r) PROVE IInv'
<1> USE BodyFacts, ClaimConstants DEF IInv
<1> USE DEF SubmitFailed, Goto, itemVars, keyVars
<1>1. TypeOK'
  BY DEF TypeOK, ItemStatus, Hash, Payment, Location, TxState
<1>2. Owns'
  BY DEF TypeOK, Owns, Holding
<1>3. Pays'
  BY DEF TypeOK, Pays, PaymentOf, Backs, Holding
<1>4. PaidByUs'
  BY DEF TypeOK, PaidByUs, Owns, Holding
<1>5. KeyIsOurs'
  BY DEF TypeOK, KeyIsOurs, Holding
<1>6. StandingOwns'
  BY DEF TypeOK, StandingOwns, Owns, Holding
<1>7. PaidIsBacked'
  BY DEF TypeOK, PaidIsBacked, PaymentOf, Backs, Owns, Pays, Holding
<1>8. AnswerMatchesItem'
  BY DEF TypeOK, AnswerMatchesItem, KeyMatchesItem, KeyIsOurs, PaidByUs, Owns, Pays, Holding
<1>9. KeyMatchesItem'
  BY DEF TypeOK, KeyMatchesItem, KeyIsOurs, PaidByUs, Owns, Holding
<1>. QED  BY <1>1, <1>2, <1>3, <1>4, <1>5, <1>6, <1>7, <1>8, <1>9

LEMMA ConfirmKeeps == ASSUME IInv, NEW r \in Request, Confirm(r) PROVE IInv'
<1> USE BodyFacts, ClaimConstants DEF IInv
<1> USE DEF Confirm, Goto, itemVars, keyVars
<1>1. TypeOK'
  BY DEF TypeOK, ItemStatus, Hash, Payment, Location, TxState
<1>2. Owns'
  BY DEF TypeOK, Owns, Holding
<1>3. Pays'
  BY DEF TypeOK, Pays, PaymentOf, Backs, Holding
<1>4. PaidByUs'
  BY DEF TypeOK, PaidByUs, Owns, Holding
<1>5. KeyIsOurs'
  BY DEF TypeOK, KeyIsOurs, Holding
<1>6. StandingOwns'
  BY DEF TypeOK, StandingOwns, Owns, Holding
<1>7. PaidIsBacked'
  BY DEF TypeOK, PaidIsBacked, PaymentOf, Backs, Owns, Pays, Holding
<1>8. AnswerMatchesItem'
  BY DEF TypeOK, AnswerMatchesItem, KeyMatchesItem, KeyIsOurs, PaidByUs, Owns, Pays, Holding
<1>9. KeyMatchesItem'
  BY DEF TypeOK, KeyMatchesItem, KeyIsOurs, PaidByUs, Owns, Holding
<1>. QED  BY <1>1, <1>2, <1>3, <1>4, <1>5, <1>6, <1>7, <1>8, <1>9

LEMMA ReleaseKeeps == ASSUME IInv, NEW r \in Request, Release(r) PROVE IInv'
<1> USE BodyFacts, ClaimConstants DEF IInv
<1> USE DEF Release, Goto, Answer, itemVars, keyVars
<1>1. TypeOK'
  BY DEF TypeOK, ItemStatus, Hash, Payment, Location, TxState
<1>2. Owns'
  BY DEF TypeOK, Owns, Holding
<1>3. Pays'
  BY DEF TypeOK, Pays, PaymentOf, Backs, Holding
<1>4. PaidByUs'
  BY DEF TypeOK, PaidByUs, Owns, Holding
<1>5. KeyIsOurs'
  BY DEF TypeOK, KeyIsOurs, Holding
<1>6. StandingOwns'
  BY DEF TypeOK, StandingOwns, Owns, Holding
<1>7. PaidIsBacked'
  BY DEF TypeOK, PaidIsBacked, PaymentOf, Backs, Owns, Pays, Holding
<1>8. AnswerMatchesItem'
  BY DEF TypeOK, AnswerMatchesItem, KeyMatchesItem, KeyIsOurs, PaidByUs, Owns, Pays, Holding
<1>9. KeyMatchesItem'
  BY DEF TypeOK, KeyMatchesItem, KeyIsOurs, PaidByUs, Owns, Holding
<1>. QED  BY <1>1, <1>2, <1>3, <1>4, <1>5, <1>6, <1>7, <1>8, <1>9

LEMMA FailKeyKeeps == ASSUME IInv, NEW r \in Request, FailKey(r) PROVE IInv'
<1> USE BodyFacts, ClaimConstants DEF IInv
<1> USE DEF FailKey, Goto, Answer, itemVars, keyVars
<1>1. TypeOK'
  <2>1. body[r].key \in Key /\ keyItem[body[r].key] \in Item
    BY DEF KeyIsOurs
  <2>2. /\ pc' \in [Request -> Location]
        /\ answer' \in [Request -> {"none", "paid", "conflict", "rejected", "failed"}]
    BY DEF TypeOK, Location
  <2>3. /\ keyStatus' \in [Key -> {"ABSENT", "STARTED", "SUCCEEDED", "FAILED"}]
        /\ keyHash' \in [Key -> Hash]
    BY <2>1 DEF TypeOK
  <2>4. \A k \in Key : keyStatus'[k] # "ABSENT" => keyItem'[k] \in Item
    BY <2>1 DEF TypeOK
  <2>. QED  BY <2>2, <2>3, <2>4 DEF TypeOK
<1>2. Owns'
  BY DEF TypeOK, Owns, Holding
<1>3. Pays'
  BY DEF TypeOK, Pays, PaymentOf, Backs, Holding
<1>4. PaidByUs'
  BY DEF TypeOK, PaidByUs, Owns, Holding
<1>5. KeyIsOurs'
  BY DEF TypeOK, KeyIsOurs, Holding
<1>6. StandingOwns'
  BY DEF TypeOK, StandingOwns, Owns, Holding
<1>7. PaidIsBacked'
  BY DEF TypeOK, PaidIsBacked, PaymentOf, Backs, Owns, Pays, Holding
<1>8. AnswerMatchesItem'
  BY DEF TypeOK, AnswerMatchesItem, KeyMatchesItem, KeyIsOurs, PaidByUs, Owns, Pays, Holding
<1>9. KeyMatchesItem'
  BY DEF TypeOK, KeyMatchesItem, KeyIsOurs, PaidByUs, Owns, Holding
<1>. QED  BY <1>1, <1>2, <1>3, <1>4, <1>5, <1>6, <1>7, <1>8, <1>9

LEMMA PayKeeps == ASSUME IInv, NEW r \in Request, Pay(r) PROVE IInv'
<1> USE BodyFacts, ClaimConstants DEF IInv
<1> USE DEF Pay, Goto, Answer, itemVars, keyVars
<1>1. TypeOK'
  BY DEF TypeOK, ItemStatus, Hash, Payment, Location, TxState
<1>2. Owns'
  BY DEF TypeOK, Owns, Holding
<1>3. Pays'
  BY DEF TypeOK, Pays, PaymentOf, Backs, Holding
<1>4. PaidByUs'
  BY DEF TypeOK, PaidByUs, Owns, Holding
<1>5. KeyIsOurs'
  BY DEF TypeOK, KeyIsOurs, Holding
<1>6. StandingOwns'
  BY DEF TypeOK, StandingOwns, Owns, Holding
<1>7. PaidIsBacked'
  BY DEF TypeOK, PaidIsBacked, PaymentOf, Backs, Owns, Pays, Holding
<1>8. AnswerMatchesItem'
  BY DEF TypeOK, AnswerMatchesItem, KeyMatchesItem, KeyIsOurs, PaidByUs, Owns, Pays, Holding
<1>9. KeyMatchesItem'
  BY DEF TypeOK, KeyMatchesItem, KeyIsOurs, PaidByUs, Owns, Holding
<1>. QED  BY <1>1, <1>2, <1>3, <1>4, <1>5, <1>6, <1>7, <1>8, <1>9

LEMMA SucceedKeyKeeps == ASSUME IInv, NEW r \in Request, SucceedKey(r) PROVE IInv'
<1> USE BodyFacts, ClaimConstants DEF IInv
<1> USE DEF SucceedKey, Goto, Answer, itemVars, keyVars
<1>1. TypeOK'
  <2>1. body[r].key \in Key /\ keyItem[body[r].key] \in Item
    BY DEF KeyIsOurs
  <2>2. /\ pc' \in [Request -> Location]
        /\ answer' \in [Request -> {"none", "paid", "conflict", "rejected", "failed"}]
    BY DEF TypeOK, Location
  <2>3. /\ keyStatus' \in [Key -> {"ABSENT", "STARTED", "SUCCEEDED", "FAILED"}]
        /\ keyHash' \in [Key -> Hash]
    BY <2>1 DEF TypeOK
  <2>4. \A k \in Key : keyStatus'[k] # "ABSENT" => keyItem'[k] \in Item
    BY <2>1 DEF TypeOK
  <2>. QED  BY <2>2, <2>3, <2>4 DEF TypeOK
<1>2. Owns'
  BY DEF TypeOK, Owns, Holding
<1>3. Pays'
  BY DEF TypeOK, Pays, PaymentOf, Backs, Holding
<1>4. PaidByUs'
  BY DEF TypeOK, PaidByUs, Owns, Holding
<1>5. KeyIsOurs'
  BY DEF TypeOK, KeyIsOurs, Holding
<1>6. StandingOwns'
  BY DEF TypeOK, StandingOwns, Owns, Holding
<1>7. PaidIsBacked'
  BY DEF TypeOK, PaidIsBacked, PaymentOf, Backs, Owns, Pays, Holding
<1>8. AnswerMatchesItem'
  BY DEF TypeOK, AnswerMatchesItem, KeyMatchesItem, KeyIsOurs, PaidByUs, Owns, Pays, Holding
<1>9. KeyMatchesItem'
  BY DEF TypeOK, KeyMatchesItem, KeyIsOurs, PaidByUs, Owns, Holding
<1>. QED  BY <1>1, <1>2, <1>3, <1>4, <1>5, <1>6, <1>7, <1>8, <1>9

LEMMA DieKeeps == ASSUME IInv, NEW r \in Request, Die(r) PROVE IInv'
<1> USE BodyFacts, ClaimConstants DEF IInv
<1> USE DEF Die, Goto, itemVars, keyVars
<1>1. TypeOK'
  BY DEF TypeOK, ItemStatus, Hash, Payment, Location, TxState
<1>2. Owns'
  BY DEF TypeOK, Owns, Holding
<1>3. Pays'
  BY DEF TypeOK, Pays, PaymentOf, Backs, Holding
<1>4. PaidByUs'
  BY DEF TypeOK, PaidByUs, Owns, Holding
<1>5. KeyIsOurs'
  BY DEF TypeOK, KeyIsOurs, Holding
<1>6. StandingOwns'
  BY DEF TypeOK, StandingOwns, Owns, Holding
<1>7. PaidIsBacked'
  BY DEF TypeOK, PaidIsBacked, PaymentOf, Backs, Owns, Pays, Holding
<1>8. AnswerMatchesItem'
  BY DEF TypeOK, AnswerMatchesItem, KeyMatchesItem, KeyIsOurs, PaidByUs, Owns, Pays, Holding
<1>9. KeyMatchesItem'
  BY DEF TypeOK, KeyMatchesItem, KeyIsOurs, PaidByUs, Owns, Holding
<1>. QED  BY <1>1, <1>2, <1>3, <1>4, <1>5, <1>6, <1>7, <1>8, <1>9

LEMMA RelayerTakesUpKeeps == ASSUME IInv, NEW r \in Request, RelayerTakesUp(r) PROVE IInv'
<1> USE BodyFacts, ClaimConstants DEF IInv
<1> USE DEF RelayerTakesUp, itemVars, keyVars
<1>1. TypeOK'
  BY DEF TypeOK, ItemStatus, Hash, Payment, Location, TxState
<1>2. Owns'
  BY DEF TypeOK, Owns, Holding
<1>3. Pays'
  BY DEF TypeOK, Pays, PaymentOf, Backs, Holding
<1>4. PaidByUs'
  BY DEF TypeOK, PaidByUs, Owns, Holding
<1>5. KeyIsOurs'
  BY DEF TypeOK, KeyIsOurs, Holding
<1>6. StandingOwns'
  BY DEF TypeOK, StandingOwns, Owns, Holding
<1>7. PaidIsBacked'
  BY DEF TypeOK, PaidIsBacked, PaymentOf, Backs, Owns, Pays, Holding
<1>8. AnswerMatchesItem'
  BY DEF TypeOK, AnswerMatchesItem, KeyMatchesItem, KeyIsOurs, PaidByUs, Owns, Pays, Holding
<1>9. KeyMatchesItem'
  BY DEF TypeOK, KeyMatchesItem, KeyIsOurs, PaidByUs, Owns, Holding
<1>. QED  BY <1>1, <1>2, <1>3, <1>4, <1>5, <1>6, <1>7, <1>8, <1>9

LEMMA SettleKeeps == ASSUME IInv, NEW r \in Request, Settle(r) PROVE IInv'
<1> USE BodyFacts, ClaimConstants DEF IInv
<1> USE DEF Settle, itemVars, keyVars
<1>1. TypeOK'
  BY DEF TypeOK, ItemStatus, Hash, Payment, Location, TxState
<1>2. Owns'
  BY DEF TypeOK, Owns, Holding
<1>3. Pays'
  BY DEF TypeOK, Pays, PaymentOf, Backs, Holding
<1>4. PaidByUs'
  BY DEF TypeOK, PaidByUs, Owns, Holding
<1>5. KeyIsOurs'
  BY DEF TypeOK, KeyIsOurs, Holding
<1>6. StandingOwns'
  BY DEF TypeOK, StandingOwns, Owns, Holding
<1>7. PaidIsBacked'
  BY DEF TypeOK, PaidIsBacked, PaymentOf, Backs, Owns, Pays, Holding
<1>8. AnswerMatchesItem'
  BY DEF TypeOK, AnswerMatchesItem, KeyMatchesItem, KeyIsOurs, PaidByUs, Owns, Pays, Holding
<1>9. KeyMatchesItem'
  BY DEF TypeOK, KeyMatchesItem, KeyIsOurs, PaidByUs, Owns, Holding
<1>. QED  BY <1>1, <1>2, <1>3, <1>4, <1>5, <1>6, <1>7, <1>8, <1>9

LEMMA NextKeeps == ASSUME IInv, [Next]_vars PROVE IInv'
<1>1. CASE UNCHANGED vars
  BY <1>1 DEF vars, IInv, TypeOK, Owns, Pays, PaymentOf, Backs, PaidByUs, KeyIsOurs, StandingOwns, PaidIsBacked,
     AnswerMatchesItem, KeyMatchesItem, Holding
<1>2. ASSUME NEW r \in Request, Arrive(r) \/ Handle(r) \/ Die(r) \/ RelayerTakesUp(r) \/ Settle(r)
      PROVE  IInv'
  BY <1>2, ArriveKeeps, LookupKeyKeeps, InsertKeyKeeps, StartClaimKeeps, PayWithGivenHashKeeps,
     RefuseIncompleteKeeps, SubmitAcceptedKeeps, SubmitFailedKeeps, ConfirmKeeps, ReleaseKeeps, FailKeyKeeps,
     PayKeeps, SucceedKeyKeeps, DieKeeps, RelayerTakesUpKeeps, SettleKeeps DEF Handle
<1>. QED  BY <1>1, <1>2 DEF Next

-----------------------------------------------------------------------------
\* The inductive invariant holds in every reachable state.
THEOREM ClaimInvariance == Spec => []IInv
BY InitIInv, NextKeeps, PTL DEF Spec

\* Every row, local variable and history variable has its type.
THEOREM ClaimTypeCorrect == Spec => []TypeOK
BY ClaimInvariance, PTL DEF IInv

\* No two requests are paying the same item: each owns it through the EXECUTING
\* status that it set under the row lock.
THEOREM ClaimOneHolder == Spec => []OneHolder
<1>1. IInv => OneHolder
  BY DEF IInv, Owns, OneHolder
<1>. QED  BY <1>1, ClaimInvariance, PTL

\* A PAID item names the payment of its last taker, a request about this item: a
\* relayer payment mined when confirmation was asked for, or the hash its body gave.
THEOREM ClaimPaidIsBacked == Spec => []PaidIsBacked
BY ClaimInvariance, PTL DEF IInv

\* Every "PAID" answer, from the item, the key or the payment, agrees with the item.
THEOREM ClaimAnswers == Spec => []AnswerMatchesItem
BY ClaimInvariance, PTL DEF IInv

\* The key row and the item row name the same payment, though two statements write them.
THEOREM ClaimKeys == Spec => []KeyMatchesItem
BY ClaimInvariance, PTL DEF IInv

\* Relayer payments of one item stand side by side in no reachable state: a standing one
\* still has its item, EXECUTING or PAID, and an item has one taker.
THEOREM ClaimStanding == Spec => []OneStandingPayment
<1>1. ASSUME IInv, NEW i \in Item PROVE Cardinality(Standing(i)) <= 1
  <2>1. Standing(i) \subseteq {taker[i]}
    BY <1>1 DEF IInv, StandingOwns, Standing, Live
  <2>2. IsFiniteSet({taker[i]}) /\ Cardinality({taker[i]}) = 1
    BY FS_Singleton
  <2>. QED  BY <2>1, <2>2, FS_Subset, FS_CardinalityType
<1>2. IInv => OneStandingPayment
  BY <1>1 DEF OneStandingPayment
<1>. QED  BY <1>2, ClaimInvariance, PTL

-----------------------------------------------------------------------------
(***************************************************************************)
(* The refinement.  StartClaim takes, Release gives back and Pay settles;  *)
(* every other step leaves the ledger alone.                               *)
(***************************************************************************)
LEMMA LedgerInit == ASSUME IInv, Init PROVE Ledger!Init
<1>1. ASSUME NEW r \in Request PROVE PaymentOf(r) \in Payment
  BY BodyFacts DEF IInv, PaymentOf, Payment, Hash
<1>. QED  BY <1>1 DEF Init, Ledger!Init

\* The body of a request stays what it was, and so does its payment.
Offers == [r \in Request |-> PaymentOf(r)]

LEMMA OfferStays == ASSUME UNCHANGED body PROVE UNCHANGED Offers
BY DEF Offers, PaymentOf

LEMMA LedgerStart ==
    ASSUME IInv, NEW r \in Request, StartClaim(r), status' # status
    PROVE  Ledger!Take(body[r].item, r)
<1>1. /\ body[r].item \in Item /\ status[body[r].item] = "CLAIMABLE"
      /\ status' = [status EXCEPT ![body[r].item] = "EXECUTING"]
      /\ taker' = [taker EXCEPT ![body[r].item] = r]
      /\ paidTxHash' = paidTxHash
  BY BodyFacts DEF IInv, StartClaim, Goto, Answer, AnswerPaid
<1>2. status \in [Item -> ItemStatus] /\ taker \in [Item -> Hash]
  BY DEF IInv, TypeOK
<1>3. UNCHANGED Offers
  BY OfferStays DEF StartClaim
<1>. QED  BY <1>1, <1>2, <1>3 DEF Ledger!Take, Offers

LEMMA LedgerRelease ==
    ASSUME IInv, NEW r \in Request, Release(r)
    PROVE  Ledger!GiveBack(body[r].item)
<1>1. /\ body[r].item \in Item /\ status[body[r].item] = "EXECUTING" /\ taker[body[r].item] = r
      /\ status' = [status EXCEPT ![body[r].item] = "CLAIMABLE"]
      /\ UNCHANGED <<taker, paidTxHash>>
  BY BodyFacts DEF IInv, Owns, Holding, Release
<1>2. status \in [Item -> ItemStatus] /\ taker \in [Item -> Hash] /\ r # Nobody
  BY BodyFacts DEF IInv, TypeOK
<1>3. UNCHANGED Offers
  BY OfferStays DEF Release
<1>. QED  BY <1>1, <1>2, <1>3 DEF Ledger!GiveBack, Offers

LEMMA LedgerPay ==
    ASSUME IInv, NEW r \in Request, Pay(r)
    PROVE  Ledger!Settle(body[r].item)
<1>1. /\ body[r].item \in Item /\ status[body[r].item] = "EXECUTING" /\ taker[body[r].item] = r
      /\ status' = [status EXCEPT ![body[r].item] = "PAID"]
      /\ paidTxHash' = [paidTxHash EXCEPT ![body[r].item] = PaymentOf(r)]
      /\ UNCHANGED taker
  BY BodyFacts DEF IInv, Owns, Pays, Holding, Pay
<1>2. /\ status \in [Item -> ItemStatus] /\ taker \in [Item -> Hash]
      /\ paidTxHash \in [Item -> Hash] /\ r # Nobody
  BY BodyFacts DEF IInv, TypeOK
<1>3. UNCHANGED Offers /\ PaymentOf(r) # Nobody
  BY OfferStays, BodyFacts DEF Pay, IInv, PaymentOf
<1>. QED  BY <1>1, <1>2, <1>3 DEF Ledger!Settle, Offers

LEMMA LedgerStep == ASSUME IInv, [Next]_vars PROVE [Ledger!Next]_(Ledger!ledgerVars)
<1>0. UNCHANGED Offers
  <2>1. UNCHANGED body
    BY DEF Next, Handle, vars, Arrive, LookupKey, InsertKey, StartClaim, PayWithGivenHash, RefuseIncomplete,
       SubmitAccepted, SubmitFailed, Confirm, Release, FailKey, Pay, SucceedKey, Die, RelayerTakesUp, Settle
  <2>. QED  BY <2>1, OfferStays
<1>1. CASE UNCHANGED <<status, paidTxHash, taker>>
  BY <1>0, <1>1 DEF Ledger!ledgerVars, Offers
<1>2. ASSUME NEW r \in Request, StartClaim(r), status' # status PROVE Ledger!Next
  BY <1>2, LedgerStart, BodyFacts DEF IInv, Ledger!Next
<1>3. ASSUME NEW r \in Request, StartClaim(r), status' = status PROVE UNCHANGED <<status, paidTxHash, taker>>
  <2>1. body[r].item \in Item /\ status \in [Item -> ItemStatus]
    BY BodyFacts DEF IInv, TypeOK
  <2>. QED  BY <1>3, <2>1 DEF StartClaim, Goto, Answer, AnswerPaid
<1>4. ASSUME NEW r \in Request, Release(r) PROVE Ledger!Next
  <2>1. body[r].item \in Item /\ Ledger!GiveBack(body[r].item)
    BY <1>4, LedgerRelease, BodyFacts DEF IInv
  <2>. QED  BY <2>1 DEF Ledger!Next, Ledger!GiveBack
<1>5. ASSUME NEW r \in Request, Pay(r) PROVE Ledger!Next
  <2>1. body[r].item \in Item /\ Ledger!Settle(body[r].item)
    BY <1>5, LedgerPay, BodyFacts DEF IInv
  <2>. QED  BY <2>1 DEF Ledger!Next, Ledger!Settle
<1>6. \/ UNCHANGED <<status, paidTxHash, taker>>
      \/ \E r \in Request : StartClaim(r) \/ Release(r) \/ Pay(r)
  BY DEF Next, Handle, vars, itemVars, Arrive, LookupKey, InsertKey, PayWithGivenHash, RefuseIncomplete,
     SubmitAccepted, SubmitFailed, Confirm, FailKey, SucceedKey, Die, RelayerTakesUp, Settle
<1>. QED  BY <1>1, <1>2, <1>3, <1>4, <1>5, <1>6

\* The claim route implements the ledger: an item has one holder at a time, is
\* settled by its holder with its holder's payment, and stays settled.
THEOREM ClaimImplementsLedger == Spec => ImplementsLedger
BY InitIInv, LedgerInit, LedgerStep, ClaimInvariance, PTL DEF Spec, ImplementsLedger, Ledger!Spec

-----------------------------------------------------------------------------
(***************************************************************************)
(* Who leaves an item EXECUTING.  The property is inductive given IInv.    *)
(***************************************************************************)
LEMMA StrandsStep ==
    ASSUME IInv, OnlyDeathStrandsAnItem, [Next]_vars
    PROVE  OnlyDeathStrandsAnItem'
<1> USE BodyFacts, ClaimConstants DEF IInv
<1> USE DEF Goto, Answer, AnswerPaid, itemVars, keyVars, OnlyDeathStrandsAnItem, Holding
<1>1. ASSUME NEW r \in Request, Arrive(r) PROVE OnlyDeathStrandsAnItem'
  BY <1>1 DEF Arrive, TypeOK
<1>2. ASSUME NEW r \in Request, LookupKey(r) PROVE OnlyDeathStrandsAnItem'
  BY <1>2 DEF LookupKey, TypeOK
<1>3. ASSUME NEW r \in Request, InsertKey(r) PROVE OnlyDeathStrandsAnItem'
  BY <1>3 DEF InsertKey, TypeOK
<1>4. ASSUME NEW r \in Request, StartClaim(r) PROVE OnlyDeathStrandsAnItem'
  BY <1>4 DEF StartClaim, TypeOK
<1>5. ASSUME NEW r \in Request, PayWithGivenHash(r) \/ RefuseIncomplete(r) PROVE OnlyDeathStrandsAnItem'
  BY <1>5 DEF PayWithGivenHash, RefuseIncomplete, TypeOK
<1>6. ASSUME NEW r \in Request, SubmitAccepted(r) \/ SubmitFailed(r) PROVE OnlyDeathStrandsAnItem'
  BY <1>6 DEF SubmitAccepted, SubmitFailed, TypeOK
<1>7. ASSUME NEW r \in Request, Confirm(r) PROVE OnlyDeathStrandsAnItem'
  BY <1>7 DEF Confirm, TypeOK
<1>8. ASSUME NEW r \in Request, Release(r) \/ Pay(r) PROVE OnlyDeathStrandsAnItem'
  <2> SUFFICES ASSUME NEW i \in Item, status'[i] = "EXECUTING"
               PROVE  /\ taker'[i] \in Request
                      /\ body'[taker'[i]].item = i
                      /\ \/ pc'[taker'[i]] \in Holding \cup {"dead"}
                         \/ pc'[taker'[i]] = "done" /\ body'[taker'[i]].means = "nothing"
    OBVIOUS
  <2>1. i # body[r].item /\ status[i] = "EXECUTING" /\ taker' = taker /\ body' = body
    BY <1>8 DEF Release, Pay, TypeOK
  <2>2. taker[i] # r
    BY <2>1
  <2>3. pc'[taker[i]] = pc[taker[i]]
    BY <1>8, <2>1, <2>2 DEF Release, Pay, TypeOK
  <2>. QED  BY <2>1, <2>3
<1>9. ASSUME NEW r \in Request, FailKey(r) \/ SucceedKey(r) PROVE OnlyDeathStrandsAnItem'
  BY <1>9 DEF FailKey, SucceedKey, TypeOK
<1>10. ASSUME NEW r \in Request, Die(r) PROVE OnlyDeathStrandsAnItem'
  BY <1>10 DEF Die, TypeOK
<1>11. ASSUME NEW r \in Request, RelayerTakesUp(r) \/ Settle(r) PROVE OnlyDeathStrandsAnItem'
  BY <1>11 DEF RelayerTakesUp, Settle
<1>12. ASSUME UNCHANGED vars PROVE OnlyDeathStrandsAnItem'
  BY <1>12 DEF vars
<1>. QED  BY <1>1, <1>2, <1>3, <1>4, <1>5, <1>6, <1>7, <1>8, <1>9, <1>10, <1>11, <1>12 DEF Next, Handle

\* Every error path but one gives the item back: for any number of requests, only a
\* request that died, or named no means of payment, leaves its item EXECUTING.
THEOREM ClaimStrands == Spec => []OnlyDeathStrandsAnItem
<1>1. Init => OnlyDeathStrandsAnItem
  BY DEF Init, OnlyDeathStrandsAnItem
<1>. QED  BY <1>1, ClaimInvariance, StrandsStep, PTL DEF Spec
-----------------------------------------------------------------------------
(***************************************************************************)
(* A settled item is settled for good.                                     *)
(***************************************************************************)
PaidStays ==
    \A i \in Item : status[i] = "PAID" => status'[i] = "PAID" /\ paidTxHash'[i] = paidTxHash[i]

LEMMA PaidStep == ASSUME IInv, [Next]_vars PROVE PaidStays
<1>1. ASSUME NEW r \in Request, StartClaim(r) PROVE PaidStays
  <2>1. paidTxHash' = paidTxHash /\ body[r].item \in Item /\ status \in [Item -> ItemStatus]
    BY <1>1, BodyFacts DEF IInv, TypeOK, StartClaim
  <2>2. \/ status' = status
        \/ status[body[r].item] = "CLAIMABLE" /\ status' = [status EXCEPT ![body[r].item] = "EXECUTING"]
    BY <1>1 DEF StartClaim
  <2>. QED  BY <2>1, <2>2 DEF PaidStays
<1>2. ASSUME NEW r \in Request, Release(r) \/ Pay(r) PROVE PaidStays
  <2>1. body[r].item \in Item /\ status[body[r].item] = "EXECUTING"
    BY <1>2, BodyFacts DEF IInv, Owns, Holding, Release, Pay
  <2>2. ASSUME NEW i \in Item, i # body[r].item PROVE status'[i] = status[i] /\ paidTxHash'[i] = paidTxHash[i]
    BY <1>2, <2>2 DEF IInv, TypeOK, Release, Pay
  <2>. QED  BY <2>1, <2>2 DEF PaidStays
<1>3. \/ UNCHANGED <<status, paidTxHash>>
      \/ \E r \in Request : StartClaim(r) \/ Release(r) \/ Pay(r)
  BY DEF Next, Handle, vars, itemVars, Arrive, LookupKey, InsertKey, PayWithGivenHash, RefuseIncomplete,
     SubmitAccepted, SubmitFailed, Confirm, FailKey, SucceedKey, Die, RelayerTakesUp, Settle
<1>. QED  BY <1>1, <1>2, <1>3 DEF PaidStays

\* A PAID item keeps its status and its payment, whichever requests still work on it: no
\* rollback of a late failure reopens it and no second payment replaces the first.
THEOREM ClaimPaidFinal ==
    Spec => [][\A i \in Item : status[i] = "PAID" => status'[i] = "PAID" /\ paidTxHash'[i] = paidTxHash[i]]_vars
<1>1. IInv /\ [Next]_vars =>
        [\A i \in Item : status[i] = "PAID" => status'[i] = "PAID" /\ paidTxHash'[i] = paidTxHash[i]]_vars
  BY PaidStep DEF PaidStays
<1>. QED  BY <1>1, ClaimInvariance, PTL DEF Spec
=============================================================================
