------------------------ MODULE MCModerationBarrier -------------------------
(* A check of the input and one of the output of one run. *)
EXTENDS ModerationBarrier
CONSTANTS i1, o1
=============================================================================
