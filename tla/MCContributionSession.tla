------------------------ MODULE MCContributionSession ------------------------
(* ContributionSession on small instances. *)
EXTENDS ContributionSession, TLC

FileDependencies == {{}, Path}

Symmetry == Permutations(Path) \cup Permutations(Facts)
=============================================================================
