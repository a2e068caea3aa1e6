------------------------- MODULE MCGenerationStream -------------------------
(* A small instance of GenerationStream. *)
EXTENDS GenerationStream
=============================================================================
