------------------------- MODULE MCIncrementalIndex -------------------------
(* IncrementalIndex on small instances: b imports a, and c imports b and   *)
(* itself; what a and b export may change.                                 *)
EXTENDS IncrementalIndex, TLC

CONSTANTS a, b, c, readme, s1, s2

(* Three sources and a file that no extractor supports. *)
SomePaths == {a, b, c, readme}
Sources == {a, b, c}
Surfaces == {s1, s2}

Versions(imports) == {[imports |-> imports, exports |-> {s}] : s \in Surfaces}

SomeContents == a :> Versions({}) @@ b :> Versions({a})
                  @@ c :> {[imports |-> {b, c}, exports |-> {}]}
SomeFiles == UNION {SomeContents[p] : p \in Sources}
=============================================================================
