--------------------------- MODULE MCWalletAccess ---------------------------
(***************************************************************************)
(* Small instances of WalletAccess: what the requests ask for.             *)
(***************************************************************************)
EXTENDS WalletAccess
TLC == INSTANCE TLC

CONSTANTS o1, o2, r1, r2, r3, n1, n2, n3

MCRequest == {r1, r2, r3}
MCNonce == {n1, n2, n3}
Granted == [active |-> TRUE, grants |-> {"evaluate", "execute", "pause", "strategy"}]
Revoked == [active |-> TRUE, grants |-> {"evaluate"}]

\* The owner changes what o1 may do; both operators use what they have.
Upsert(n) == [route |-> UpsertOperatorRoute, by |-> Owner, about |-> o1, row |-> Revoked, nonce |-> n]
Use(route, o, n) == [route |-> route, by |-> o, about |-> o1, row |-> NoRow, nonce |-> n]
MCAsk == {Upsert(n1), Use(SettingsRoute, o1, n2), Use(OperatorsRoute, o2, n3)}

MCSaved == {Granted}
Symmetry == TLC!Permutations(MCRequest)
=============================================================================
