--------------------------- MODULE MCIndexerServer ---------------------------
(* IndexerServer on small instances. *)
EXTENDS IndexerServer, TLC
=============================================================================
