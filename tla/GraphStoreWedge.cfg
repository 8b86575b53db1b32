SPECIFICATION Spec
CONSTANTS
  Path = {p1}
  Facts = {f1}
  DependencySets <- NoDependencies
  Node = {}
  Retained = 3
  MaxVersion = 6
  NULL = NULL
INVARIANT NextPublicationAccepted
