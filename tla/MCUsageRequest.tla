--------------------------- MODULE MCUsageRequest ---------------------------
(* Small instances of UsageRequest. *)
EXTENDS UsageRequest, TLC

Symmetry == Permutations(Refs)
=============================================================================
