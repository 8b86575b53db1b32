SPECIFICATION SessionSpec
CONSTANTS
  Path = {p1, p2}
  Facts = {f1, f2}
  DependencySets <- FileDependencies
  Node = {}
  Retained = 2
  MaxVersion = 3
  NULL = NULL
SYMMETRY Symmetry
INVARIANTS
  SessionInv
  StoreInv
PROPERTIES
  ImplementsHistory
  SnapshotsImmutable
  PrunedVersionsStayPruned
  ResolversReadWhatIsPublished

