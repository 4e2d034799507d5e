----------------------------- MODULE ProfitClaim -----------------------------
(***************************************************************************)
(* POST /profit/claim of routes/profit.ts: how one wallet's distribution   *)
(* items are paid, with the idempotency keys of its requests.              *)
(*                                                                         *)
(* Every statement the handler awaits is one action; requests interleave   *)
(* at those points, and a request may die at any of them: the database     *)
(* call throws, which Express 4 does not catch, or the process is gone.    *)
(* The relayer and the chain are the environment.                          *)
(***************************************************************************)
EXTENDS Integers, FiniteSets

CONSTANTS
    Item,       \* distribution items
    NoItem,     \* "no item", outside Item
    Mine,       \* the items that belong to the authenticated wallet
    Worthless,  \* the items of amount zero or less, which the engine writes as FAILED
    Key,        \* idempotency keys of that wallet
    NoKey,      \* "no idempotencyKey in the body", outside Key
    Request,    \* the requests that may arrive; also the names of their payments
    Nobody,     \* "no request, no hash", outside Request
    Elsewhere,  \* hashes that a body may name and no request's payment has
    Body,       \* the bodies that requests may carry
    MayDie      \* a request may be cut off between two awaits

\* paidTxHash given; txRequest with or without waitForConfirmation; neither.
Means == {"paidTxHash", "txRequest", "txRequestWait", "nothing"}
Payment == Request \cup Elsewhere
Hash == Payment \cup {Nobody}

\* "given" is the body's paidTxHash: any hash at all, also another request's.
BodyType == [item : Item, key : Key \cup {NoKey}, means : Means, given : Hash]

ASSUME ClaimConstants ==
    /\ NoItem \notin Item
    /\ NoKey \notin Key
    /\ Nobody \notin Payment
    /\ Mine \subseteq Item
    /\ Worthless \subseteq Item
    /\ Body \subseteq BodyType
    /\ \A b \in Body : b.means = "paidTxHash" <=> b.given # Nobody
    /\ MayDie \in BOOLEAN

\* The statement a request is at.  "holding" is the branch after the lock was
\* taken; "dead" requests stopped without an answer.
Location == {"new", "lookup", "insert", "start", "holding", "confirm", "release", "failKey",
             "pay", "succeedKey", "done", "dead"}

\* A lost relayer request stays inflight and may still be taken up later.
TxState == {"none", "inflight", "accepted", "mined", "reverted"}

VARIABLES
    status, paidTxHash,         \* two columns of the ProfitDistributionItem rows
    keyStatus, keyItem, keyHash,  \* the ProfitClaimIdempotency rows
    pc, body, hash, answer,     \* per request: location, body, paidTxHash variable, answer
    tx,                         \* the transaction that each request submitted
    taker,                      \* history: the request that last took each item
    rolledBack                  \* history: the requests that gave their item back

itemVars == <<status, paidTxHash, taker, rolledBack>>
keyVars == <<keyStatus, keyItem, keyHash>>
vars == <<status, paidTxHash, keyStatus, keyItem, keyHash, pc, body, hash, answer, tx, taker, rolledBack>>

-----------------------------------------------------------------------------
Init ==
    /\ status = [i \in Item |-> IF i \in Worthless THEN "FAILED" ELSE "CLAIMABLE"]
    /\ paidTxHash = [i \in Item |-> Nobody]
    /\ keyStatus = [k \in Key |-> "ABSENT"]
    /\ keyItem = [k \in Key |-> NoItem]
    /\ keyHash = [k \in Key |-> Nobody]
    /\ pc = [r \in Request |-> "new"]
    /\ body \in [Request -> Body]
    /\ hash = [r \in Request |-> Nobody]
    /\ answer = [r \in Request |-> "none"]
    /\ tx = [r \in Request |-> "none"]
    /\ taker = [i \in Item |-> Nobody]
    /\ rolledBack = {}

-----------------------------------------------------------------------------
Goto(r, l) == pc' = [pc EXCEPT ![r] = l]

\* The answers: 200 with a hash; 409; 400, 403 and 404; 502.
Answer(r, a) == Goto(r, "done") /\ answer' = [answer EXCEPT ![r] = a]

AnswerPaid(r, h) == Answer(r, "paid") /\ hash' = [hash EXCEPT ![r] = h]

Arrive(r) ==
    /\ pc[r] = "new"
    /\ Goto(r, IF body[r].key = NoKey THEN "start" ELSE "lookup")
    /\ UNCHANGED <<itemVars, keyVars, body, hash, answer, tx>>

(***************************************************************************)
(* The reads of the item's owner and of the key row.  A FAILED key is let  *)
(* through and keeps its status.                                           *)
(***************************************************************************)
\* Mutant: a cached answer is given before the key's item is compared.
LookupKeyOfAnyItem(r) ==
    /\ pc[r] = "lookup"
    /\ body[r].item \in Mine
    /\ LET k == body[r].key
       IN  \/ keyStatus[k] = "SUCCEEDED" /\ AnswerPaid(r, keyHash[k])
           \/ keyStatus[k] = "STARTED" /\ Answer(r, "conflict") /\ UNCHANGED hash
           \/ keyStatus[k] = "FAILED" /\ Goto(r, "start") /\ UNCHANGED <<hash, answer>>
           \/ keyStatus[k] = "ABSENT" /\ Goto(r, "insert") /\ UNCHANGED <<hash, answer>>
    /\ UNCHANGED <<itemVars, keyVars, body, tx>>

LookupKey(r) ==
    /\ pc[r] = "lookup"
    /\ LET i == body[r].item
           k == body[r].key
           mismatch == keyStatus[k] # "ABSENT" /\ keyItem[k] # i
       IN  \/ i \notin Mine /\ Answer(r, "rejected") /\ UNCHANGED hash
           \/ i \in Mine /\ mismatch /\ Answer(r, "conflict") /\ UNCHANGED hash
           \/ /\ i \in Mine /\ ~mismatch
              /\ \/ keyStatus[k] = "SUCCEEDED" /\ AnswerPaid(r, keyHash[k])
                 \/ keyStatus[k] = "STARTED" /\ Answer(r, "conflict") /\ UNCHANGED hash
                 \/ keyStatus[k] = "FAILED" /\ Goto(r, "start") /\ UNCHANGED <<hash, answer>>
                 \/ keyStatus[k] = "ABSENT" /\ Goto(r, "insert") /\ UNCHANGED <<hash, answer>>
    /\ UNCHANGED <<itemVars, keyVars, body, tx>>

\* Mutant: the new key row does not say which item it is for.
InsertKeyWithoutItem(r) ==
    /\ pc[r] = "insert"
    /\ keyStatus' = [keyStatus EXCEPT ![body[r].key] = "STARTED"]
    /\ Goto(r, "start")
    /\ UNCHANGED <<itemVars, keyItem, keyHash, body, hash, answer, tx>>

\* The INSERT; when another request has inserted the key since the lookup the
\* unique index makes it throw.
InsertKey(r) ==
    /\ pc[r] = "insert"
    /\ LET k == body[r].key
       IN  IF keyStatus[k] = "ABSENT"
           THEN /\ keyStatus' = [keyStatus EXCEPT ![k] = "STARTED"]
                /\ keyItem' = [keyItem EXCEPT ![k] = body[r].item]
                /\ Goto(r, "start")
           ELSE /\ Goto(r, "dead")
                /\ UNCHANGED <<keyStatus, keyItem>>
    /\ UNCHANGED <<itemVars, keyHash, body, hash, answer, tx>>

(***************************************************************************)
(* The transaction that locks the item row, and its early returns.  They   *)
(* leave a key row that this request inserted STARTED.                     *)
(***************************************************************************)
\* Mutant: an item that another request is paying is taken as well.
StartIgnoresExecuting(r) ==
    /\ pc[r] = "start"
    /\ status[body[r].item] \in {"CLAIMABLE", "EXECUTING"}
    /\ status' = [status EXCEPT ![body[r].item] = "EXECUTING"]
    /\ taker' = [taker EXCEPT ![body[r].item] = r]
    /\ Goto(r, "holding")
    /\ UNCHANGED <<paidTxHash, rolledBack, keyVars, body, hash, answer, tx>>

StartClaim(r) ==
    /\ pc[r] = "start"
    /\ LET i == body[r].item
       IN  \/ i \notin Mine /\ Answer(r, "rejected") /\ UNCHANGED <<hash, status, taker>>
           \/ /\ i \in Mine
              /\ \/ status[i] = "PAID" /\ AnswerPaid(r, paidTxHash[i]) /\ UNCHANGED <<status, taker>>
                 \/ status[i] = "EXECUTING" /\ Answer(r, "conflict") /\ UNCHANGED <<hash, status, taker>>
                 \/ status[i] = "FAILED" /\ Answer(r, "rejected") /\ UNCHANGED <<hash, status, taker>>
                 \/ /\ status[i] = "CLAIMABLE"
                    /\ status' = [status EXCEPT ![i] = "EXECUTING"]
                    /\ taker' = [taker EXCEPT ![i] = r]
                    /\ Goto(r, "holding")
                    /\ UNCHANGED <<hash, answer>>
    /\ UNCHANGED <<paidTxHash, rolledBack, keyVars, body, tx>>

(***************************************************************************)
(* The holder of the item pays: with the hash that the body names, or      *)
(* through the relayer.  A body with neither is refused only here, and the *)
(* item keeps the status EXECUTING.                                        *)
(***************************************************************************)

\* Nothing asks the chain about the given hash, nor whether it has settled
\* another item: no index of the table is unique on it.
PayWithGivenHash(r) ==
    /\ pc[r] = "holding"
    /\ body[r].means = "paidTxHash"
    /\ hash' = [hash EXCEPT ![r] = body[r].given]
    /\ Goto(r, "pay")
    /\ UNCHANGED <<itemVars, keyVars, body, answer, tx>>

RefuseIncomplete(r) ==
    /\ pc[r] = "holding"
    /\ body[r].means = "nothing"
    /\ Answer(r, "rejected")
    /\ UNCHANGED <<itemVars, keyVars, body, hash, tx>>

\* The relayer answers with a hash; the status it reports is not looked at.
SubmitAccepted(r) ==
    /\ pc[r] = "holding"
    /\ body[r].means \in {"txRequest", "txRequestWait"}
    /\ \E t \in {"accepted", "mined"} : tx' = [tx EXCEPT ![r] = t]
    /\ hash' = [hash EXCEPT ![r] = r]
    /\ Goto(r, IF body[r].means = "txRequestWait" THEN "confirm" ELSE "pay")
    /\ UNCHANGED <<itemVars, keyVars, body, answer>>

\* No relayer, an HTTP error, a malformed answer or the abort timer.
SubmitFailed(r) ==
    /\ pc[r] = "holding"
    /\ body[r].means \in {"txRequest", "txRequestWait"}
    /\ \E t \in {"none", "inflight"} : tx' = [tx EXCEPT ![r] = t]
    /\ Goto(r, "release")
    /\ UNCHANGED <<itemVars, keyVars, body, hash, answer>>

\* Mutant: the receipt's status is not looked at.
ConfirmAnyReceipt(r) ==
    /\ pc[r] = "confirm"
    /\ \/ tx[r] \in {"mined", "reverted"} /\ Goto(r, "pay")
       \/ Goto(r, "release")
    /\ UNCHANGED <<itemVars, keyVars, body, hash, answer, tx>>

\* A receipt, or a timeout, an RPC error or a missing chainId at any moment.
Confirm(r) ==
    /\ pc[r] = "confirm"
    /\ \/ tx[r] = "mined" /\ Goto(r, "pay")
       \/ Goto(r, "release")
    /\ UNCHANGED <<itemVars, keyVars, body, hash, answer, tx>>

\* Mutant: the item's rollback is forgotten.
ReleaseNothing(r) ==
    /\ pc[r] = "release"
    /\ Goto(r, "failKey")
    /\ UNCHANGED <<itemVars, keyVars, body, hash, answer, tx>>

\* The item goes back to CLAIMABLE; without a key that ends the request.
Release(r) ==
    /\ pc[r] = "release"
    /\ status' = [status EXCEPT ![body[r].item] = "CLAIMABLE"]
    /\ rolledBack' = rolledBack \cup {r}
    /\ IF body[r].key = NoKey THEN Answer(r, "failed") ELSE Goto(r, "failKey") /\ UNCHANGED answer
    /\ UNCHANGED <<paidTxHash, taker, keyVars, body, hash, tx>>

\* Mutant: the key of a failed claim is marked like that of a good one.
FailKeyAsSucceeded(r) ==
    /\ pc[r] = "failKey"
    /\ keyStatus' = [keyStatus EXCEPT ![body[r].key] = "SUCCEEDED"]
    /\ Answer(r, "failed")
    /\ UNCHANGED <<itemVars, keyItem, keyHash, body, hash, tx>>

FailKey(r) ==
    /\ pc[r] = "failKey"
    /\ keyStatus' = [keyStatus EXCEPT ![body[r].key] = "FAILED"]
    /\ Answer(r, "failed")
    /\ UNCHANGED <<itemVars, keyItem, keyHash, body, hash, tx>>

\* Mutant: after the payment the item is put back like a failed one.
PayAndReopen(r) ==
    /\ pc[r] = "pay"
    /\ status' = [status EXCEPT ![body[r].item] = "CLAIMABLE"]
    /\ paidTxHash' = [paidTxHash EXCEPT ![body[r].item] = hash[r]]
    /\ IF body[r].key = NoKey THEN Answer(r, "paid") ELSE Goto(r, "succeedKey") /\ UNCHANGED answer
    /\ UNCHANGED <<taker, rolledBack, keyVars, body, hash, tx>>

\* The item becomes PAID; without a key that ends the request.
Pay(r) ==
    /\ pc[r] = "pay"
    /\ status' = [status EXCEPT ![body[r].item] = "PAID"]
    /\ paidTxHash' = [paidTxHash EXCEPT ![body[r].item] = hash[r]]
    /\ IF body[r].key = NoKey THEN Answer(r, "paid") ELSE Goto(r, "succeedKey") /\ UNCHANGED answer
    /\ UNCHANGED <<taker, rolledBack, keyVars, body, hash, tx>>

SucceedKey(r) ==
    /\ pc[r] = "succeedKey"
    /\ keyStatus' = [keyStatus EXCEPT ![body[r].key] = "SUCCEEDED"]
    /\ keyHash' = [keyHash EXCEPT ![body[r].key] = hash[r]]
    /\ Answer(r, "paid")
    /\ UNCHANGED <<itemVars, keyItem, body, hash, tx>>

\* The request stops where it is: a statement throws or the process dies.
Die(r) ==
    /\ MayDie
    /\ pc[r] \notin {"new", "done", "dead"}
    /\ Goto(r, "dead")
    /\ UNCHANGED <<itemVars, keyVars, body, hash, answer, tx>>

\* The relayer takes up a request whose answer was lost; the chain executes it.
RelayerTakesUp(r) ==
    /\ tx[r] = "inflight"
    /\ tx' = [tx EXCEPT ![r] = "accepted"]
    /\ UNCHANGED <<itemVars, keyVars, pc, body, hash, answer>>

Settle(r) ==
    /\ tx[r] = "accepted"
    /\ \E t \in {"mined", "reverted"} : tx' = [tx EXCEPT ![r] = t]
    /\ UNCHANGED <<itemVars, keyVars, pc, body, hash, answer>>

-----------------------------------------------------------------------------
Handle(r) ==
    \/ LookupKey(r) \/ InsertKey(r) \/ StartClaim(r)
    \/ PayWithGivenHash(r) \/ RefuseIncomplete(r) \/ SubmitAccepted(r) \/ SubmitFailed(r) \/ Confirm(r)
    \/ Release(r) \/ FailKey(r) \/ Pay(r) \/ SucceedKey(r)

Next == \E r \in Request : Arrive(r) \/ Handle(r) \/ Die(r) \/ RelayerTakesUp(r) \/ Settle(r)

Spec == Init /\ [][Next]_vars

-----------------------------------------------------------------------------
(***************************************************************************)
(* Properties.                                                             *)
(***************************************************************************)
ItemStatus == {"CLAIMABLE", "EXECUTING", "PAID", "FAILED"}

TypeOK ==
    /\ status \in [Item -> ItemStatus]
    /\ paidTxHash \in [Item -> Hash]
    /\ keyStatus \in [Key -> {"ABSENT", "STARTED", "SUCCEEDED", "FAILED"}]
    /\ keyItem \in [Key -> Item \cup {NoItem}]
    /\ \A k \in Key : keyStatus[k] # "ABSENT" => keyItem[k] \in Item
    /\ keyHash \in [Key -> Hash]
    /\ pc \in [Request -> Location]
    /\ body \in [Request -> Body]
    /\ hash \in [Request -> Hash]
    /\ answer \in [Request -> {"none", "paid", "conflict", "rejected", "failed"}]
    /\ tx \in [Request -> TxState]
    /\ taker \in [Item -> Hash]
    /\ rolledBack \subseteq Request

\* The awaits at which a request relies on the item being its own.
Holding == {"holding", "confirm", "release", "pay"}

\* At most one request is paying an item: FOR UPDATE and the EXECUTING status
\* keep every other request out until the first has paid or given it back.
OneHolder ==
    \A r, s \in Request :
        pc[r] \in Holding /\ pc[s] \in Holding /\ body[r].item = body[s].item => r = s

\* What request r pays with.
PaymentOf(r) == IF body[r].means = "paidTxHash" THEN body[r].given ELSE r

\* A relayer payment of r that an item may be settled with: the relayer took it
\* up, and it is mined when confirmation was asked for.
Backs(r) ==
    /\ body[r].means = "txRequest" => tx[r] \notin {"none", "inflight"}
    /\ body[r].means = "txRequestWait" => tx[r] = "mined"

\* A PAID item names the payment of the request that took it last, which was a
\* request about this item: a relayer payment that the relayer took up and that is
\* mined when confirmation was asked for, or the hash that the request's body
\* gave.  Of such a hash nothing more holds: it may be nobody's transaction, or
\* settle a second item (profit.ts:694).
PaidIsBacked ==
    \A i \in Item : status[i] = "PAID" =>
        /\ taker[i] \in Request
        /\ body[taker[i]].item = i
        /\ paidTxHash[i] = PaymentOf(taker[i])
        /\ Backs(taker[i])

\* A client that was told "PAID" with a hash was told what the item says, whether
\* the answer came from the payment, from the item row or from the key row.
AnswerMatchesItem ==
    \A r \in Request : answer[r] = "paid" =>
        status[body[r].item] = "PAID" /\ paidTxHash[body[r].item] = hash[r]

\* A SUCCEEDED key and its item, written by two statements, name one payment.
KeyMatchesItem ==
    \A k \in Key : keyStatus[k] = "SUCCEEDED" =>
        /\ status[keyItem[k]] = "PAID"
        /\ paidTxHash[keyItem[k]] = keyHash[k]

\* Transactions that moved money, or still may.
Live == {"inflight", "accepted", "mined"}

\* The payments for item i whose claim has not been rolled back; a request that
\* died with its payment under way is among them.
Standing(i) == {r \in Request : body[r].item = i /\ tx[r] \in Live /\ r \notin rolledBack}

\* Two relayer payments for one item never stand side by side: before a second one can
\* start, the claim of the first has been rolled back to CLAIMABLE.
OneStandingPayment == \A i \in Item : Cardinality(Standing(i)) <= 1

\* The claim route implements the ledger.
Ledger == INSTANCE PaymentLedger WITH
    offer <- [r \in Request |-> PaymentOf(r)],
    holder <- [i \in Item |-> IF status[i] = "EXECUTING" THEN taker[i] ELSE Nobody],
    settled <- [i \in Item |-> IF status[i] = "PAID" THEN paidTxHash[i] ELSE Nobody]

\* An item is taken by one request at a time, is settled only by its holder and
\* with the payment its holder came with, and never again after that.
ImplementsLedger == Ledger!Spec

\* Only a crash leaves an item EXECUTING for good: while it is EXECUTING the request
\* that took it is still paying it, or that request died between two awaits, or it
\* was refused for naming no means of payment, the one error path without a rollback.
OnlyDeathStrandsAnItem ==
    \A i \in Item : status[i] = "EXECUTING" =>
        LET r == taker[i]
        IN  /\ r \in Request
            /\ body[r].item = i
            /\ pc[r] \in Holding \cup {"dead"} \/ (pc[r] = "done" /\ body[r].means = "nothing")
=============================================================================
