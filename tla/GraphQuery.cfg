SPECIFICATION Spec
CONSTANTS
  Node = {1, 2, 3, 4}
  Edges <- MCEdges
  Snapshots <- MCSnapshots
  Requests <- MCRequests
  Unstable <- MCUnstable
  Exact <- MCExact
  Broad <- MCBroad
  MaxSeeds = 2
  MaxChanges = 1
INVARIANTS
  QueryInv
  WalkIsExact
  PathIsShortest
  ExplanationIsExact
PROPERTIES
  RequestEnds
CHECK_DEADLOCK FALSE
