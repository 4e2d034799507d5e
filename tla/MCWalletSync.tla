---------------------------- MODULE MCWalletSync ----------------------------
(* The instance of WalletSync that TLC checks. *)
EXTENDS WalletSync
=============================================================================
