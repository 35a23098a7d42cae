-------------------------- MODULE MCPriorityBooking --------------------------
(* Instances of PriorityBooking for TLC. *)
EXTENDS PriorityBooking, TLC

Symmetry == Permutations(Workers) \cup Permutations(Awbs)

AnyUnbooked == {"ready_to_ship", "booking_failed", "reship"}

FirstTime == {"ready_to_ship"}

ShortLists == {<<"velocity", "claimed">>, <<"claimed", "velocity">>}

VelocityOnly == {<<"velocity">>}

\* Requests one after the other, and every order_id is stored when it is made.
Undisturbed ==
  /\ \A u, w \in Workers :
       u = w \/ {stage[u], stage[w]} \cap (Final \cup {"idle"}) # {}
  /\ \A w \in Workers : mem[w].vid = mem[w].loadedVid
=============================================================================
