---------------------------- MODULE PaymentLedger ----------------------------
(***************************************************************************)
(* What the claim route promises about a distribution item: one request at *)
(* a time holds it, a holder either gives it back or settles it with the   *)
(* payment that it came with, and a settled item stays settled with that   *)
(* payment.  Whether the payment is the holder's own is not promised: two  *)
(* requests may come with the same one.                                    *)
(***************************************************************************)
CONSTANTS Item, Request, Nobody, Payment

VARIABLES
    offer,     \* the payment that each request comes with
    holder,    \* the request that holds each item
    settled    \* the payment that settled each item

ledgerVars == <<offer, holder, settled>>

Init ==
    /\ offer \in [Request -> Payment]
    /\ holder = [i \in Item |-> Nobody]
    /\ settled = [i \in Item |-> Nobody]

Take(i, r) ==
    /\ holder[i] = Nobody
    /\ settled[i] = Nobody
    /\ holder' = [holder EXCEPT ![i] = r]
    /\ UNCHANGED <<offer, settled>>

GiveBack(i) ==
    /\ holder[i] # Nobody
    /\ holder' = [holder EXCEPT ![i] = Nobody]
    /\ UNCHANGED <<offer, settled>>

Settle(i) ==
    /\ holder[i] # Nobody
    /\ settled' = [settled EXCEPT ![i] = offer[holder[i]]]
    /\ holder' = [holder EXCEPT ![i] = Nobody]
    /\ UNCHANGED offer

Next == \E i \in Item : (\E r \in Request : Take(i, r)) \/ GiveBack(i) \/ Settle(i)

Spec == Init /\ [][Next]_ledgerVars
=============================================================================
