--------------------------- MODULE MCPositionFlow ---------------------------
(***************************************************************************)
(* Small instances of PositionFlow: WETH and USDC, two accounts, amounts   *)
(* of one or two.                                                          *)
(***************************************************************************)
EXTENDS PositionFlow
TLC == INSTANCE TLC

\* WETH is 1, USDC is 2.
MCToken == {1, 2}
MCNeed == {[t \in Token |-> 1], [t \in Token |-> t]}
MCYield == {[t \in Token |-> t - 1]}
MCMaxSent == [approve |-> 2, mint |-> 1, card |-> 4]

AccountSymmetry == TLC!Permutations(Account)
=============================================================================
