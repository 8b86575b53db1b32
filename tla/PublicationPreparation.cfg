SPECIFICATION PreparationSpec
CONSTANTS
  p1 = p1
  p2 = p2
  p3 = p3
  p4 = p4
  p5 = p5
  f1 = f1
  f2 = f2
  n1 = n1
  Path <- SomePaths
  Facts = {f1, f2}
  DependencySets <- NoDependencies
  Node = {n1}
  Retained = 2
  MaxVersion = 2
  NULL = NULL
  Requests <- SomeRequests
  MaxWorkers = 2
  QueueDepth = 1
INVARIANTS
  PreparationInv
  WindowHolds
  CollectionIsComplete
PROPERTIES
  PublishesExactlyTheRequest
  PublicationReturns
CHECK_DEADLOCK FALSE
