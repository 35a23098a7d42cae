----------------------------- MODULE MCStatusSync -----------------------------
(* Instances of StatusSync for TLC. *)
EXTENDS StatusSync
=============================================================================
