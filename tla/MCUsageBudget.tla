--------------------------- MODULE MCUsageBudget ---------------------------
(* Small instances of UsageBudget. *)
EXTENDS UsageBudget, TLC

Symmetry == Permutations(Refs)

\* Bound: three calls, or two beside one billed without a reservation.
ThreeCalls ==
  Cardinality({r \in Refs : reservation[r].status # "none"}) + Cardinality(Unreserved) <= 3
=============================================================================
