------------------------------- MODULE Exclusive -------------------------------
(***************************************************************************)
(* The promise of every lock of this code base: something is held by at    *)
(* most one holder at a time, unless the promise was broken, which is never *)
(* undone.  Holders come one by one and only when nobody else is there;     *)
(* any of them may leave at any time, several at once when a process dies   *)
(* or a lease runs out.                                                     *)
(*                                                                          *)
(* BookingClaim (bookingClaim.ts:2), JobLock (distributedLock.ts) and       *)
(* PartnerCreate (bookPartnerShipment) implement it, each with its own      *)
(* reading of "held" and "broken"; so do LorrigoBooking, twice, for claims  *)
(* and for shipments, and PriorityBooking for claims.                       *)
(***************************************************************************)
CONSTANT Holders

VARIABLES held, broken

exclusiveVars == <<held, broken>>

Init == held = {} /\ broken = FALSE

Lasting == broken => broken'

Enter(h) ==
  /\ h \notin held
  /\ held = {} \/ broken'
  /\ held' = held \cup {h}
  /\ Lasting

Leave == held' \subseteq held /\ Lasting

Next == (\E h \in Holders : Enter(h)) \/ Leave

Spec == Init /\ [][Next]_exclusiveVars
=============================================================================
