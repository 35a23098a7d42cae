--------------------------- MODULE MCBookingClaim ---------------------------
(* Instances of BookingClaim for TLC. *)
EXTENDS BookingClaim

\* Bookings of orders that are ready and of orders that failed before.
AnyUnbooked == {"ready_to_ship", "reship", "booking_failed"}
=============================================================================
