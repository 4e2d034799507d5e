---------------------------- MODULE MCProfitClaim ----------------------------
(***************************************************************************)
(* Small instances of ProfitClaim: two payable items and a worthless one   *)
(* of the authenticated wallet, one of somebody else, and the bodies worth *)
(* telling apart.                                                          *)
(***************************************************************************)
EXTENDS ProfitClaim
TLC == INSTANCE TLC

CONSTANTS mine, second, worthless, foreign, key, elsewhere

MCItem == {mine, second, worthless, foreign}
MCMine == {mine, second, worthless}
MCWorthless == {worthless}

\* For one item, with and without the key: through the relayer, or with a given hash that
\* is nobody's here; the second item with a given hash that is any request's, so one
\* payment may settle both items; the key sent with no means of payment, with the
\* worthless item, and with an item that is not the wallet's.
AllBodies ==
    [item : {mine}, key : {key, NoKey}, means : {"txRequest", "txRequestWait"}, given : {Nobody}]
        \cup [item : {mine}, key : {key, NoKey}, means : {"paidTxHash"}, given : Elsewhere]
        \cup [item : {second}, key : {NoKey}, means : {"paidTxHash"}, given : Request]
        \cup {[item |-> worthless, key |-> key, means |-> "paidTxHash", given |-> elsewhere],
              [item |-> mine, key |-> key, means |-> "nothing", given |-> Nobody],
              [item |-> foreign, key |-> key, means |-> "txRequest", given |-> Nobody]}

RequestSymmetry == TLC!Permutations(Request)
=============================================================================
