--------------------------- MODULE MCIndexPipeline ---------------------------
(* IndexPipeline on small instances. *)
EXTENDS IndexPipeline, TLC

Symmetry == Permutations(Worker)
=============================================================================
