---------------------------- MODULE MCWalletLedger ----------------------------
(* Instances of WalletLedger for TLC. *)
EXTENDS WalletLedger

CONSTANTS u1, u2

SeededFirst == [u \in Users |-> IF u = u1 THEN 3 ELSE 0]
=============================================================================
