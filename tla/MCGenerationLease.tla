------------------------- MODULE MCGenerationLease --------------------------
(* Two processes and two requests: one per process, or both at one process. *)
EXTENDS GenerationLease, TLC
CONSTANTS p1, p2, r1, r2
Apart    == r1 :> p1 @@ r2 :> p2
Together == r1 :> p1 @@ r2 :> p1
Either   == {Apart, Together}
=============================================================================
