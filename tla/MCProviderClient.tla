---------------------------- MODULE MCProviderClient ----------------------------
(* Instances of ProviderClient for TLC. *)
EXTENDS ProviderClient

CONSTANTS read1, create1, create2

TwoCreates == {create1, create2}
OneReadTwoCreates == {read1, create1, create2}
=============================================================================
