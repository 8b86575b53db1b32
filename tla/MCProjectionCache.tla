-------------------------- MODULE MCProjectionCache --------------------------
(* ProjectionCache on small instances: two contents, one twice as large.   *)
EXTENDS ProjectionCache, TLC

CONSTANTS small, large

Contents == {small, large}

Sizes == small :> 1 @@ large :> 2 @@ Nothing :> 0

Symmetry == Permutations(Reader) \cup Permutations(Writer)
=============================================================================
