------------------------------- MODULE MCJobLock -------------------------------
(* Instances of JobLock for TLC. *)
EXTENDS JobLock, TLC

CONSTANTS r1, r2, r3, p1, p2

\* The interval and the start-up timer of one instance, the interval of a
\* second one.
TwoTimersAndOne == r1 :> p1 @@ r2 :> p1 @@ r3 :> p2

\* Swapping the two timers of p1 changes nothing.
Symmetry == Permutations({r1, r2})
=============================================================================
