--------------------------- MODULE MCPartnerCreate ---------------------------
(* Instances of PartnerCreate for TLC. *)
EXTENDS PartnerCreate, TLC

Symmetry ==
  Permutations(Requests) \cup Permutations(Keys) \cup Permutations(Bodies)
    \cup Permutations(Ids)
=============================================================================
