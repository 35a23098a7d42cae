-------------------------- MODULE MCShipmentWallet --------------------------
(* Instances of ShipmentWallet for TLC. *)
EXTENDS ShipmentWallet

CONSTANTS Funds, Dear   \* the opening balance; the orders that cost 4, not 2

OneUser == {User}
ChargeOf == [o \in Orders |-> IF o \in Dear THEN 4 ELSE 2]
OpeningFunds == [u \in Users |-> Funds]
=============================================================================
