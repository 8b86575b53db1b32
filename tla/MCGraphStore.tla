---------------------------- MODULE MCGraphStore ----------------------------
(* GraphStore on small instances. *)
EXTENDS GraphStore, TLC

NoDependencies == {{}}

Symmetry == Permutations(Path) \cup Permutations(Facts)
=============================================================================
