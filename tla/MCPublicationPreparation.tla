---------------------- MODULE MCPublicationPreparation ----------------------
(* PublicationPreparation on small instances. *)
EXTENDS PublicationPreparation

CONSTANTS p1, p2, p3, p4, p5, f1, f2, n1

SomePaths == {p1, p2, p3, p4, p5}

NoDependencies == {{}}

Value(f) == [facts |-> f, dependencies |-> {}]

Contributions(paths, f) ==
  [i \in DOMAIN paths |-> [path |-> paths[i], contribution |-> Value(f)]]

(* One more contribution than the window of two workers holds, an update   *)
(* of a path that is stored, and an update without contributions.          *)
SomeRequests ==
  {[contributions |-> Contributions(<<p1, p2, p3, p4, p5>>, f1), nodes |-> {n1},
    edges |-> {[owner |-> p1, target |-> n1], [owner |-> p2, target |-> n1]}, owners |-> {p1}],
   [contributions |-> Contributions(<<p2, p1>>, f2), nodes |-> {},
    edges |-> {[owner |-> p1, target |-> n1]}, owners |-> {p1}],
   [contributions |-> <<>>, nodes |-> {n1}, edges |-> {}, owners |-> {}]}
=============================================================================
