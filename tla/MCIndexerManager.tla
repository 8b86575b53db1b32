-------------------------- MODULE MCIndexerManager --------------------------
(* IndexerManager on small instances. *)
EXTENDS IndexerManager

SmallEventLists == {<<p>> : p \in Path}
=============================================================================
