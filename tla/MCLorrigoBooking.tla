-------------------------- MODULE MCLorrigoBooking --------------------------
(* Instances of LorrigoBooking for TLC. *)
EXTENDS LorrigoBooking, TLC

Symmetry == Permutations(Workers) \cup Permutations(Awbs)

AnyUnbooked == {"ready_to_ship", "booking_failed"}
=============================================================================
