CONSTANTS
  NoBase = NoBase
  NoTarget = NoTarget
  Absent = Absent
  PageSize = 2
  DirectoryOrder <- Directories
  DirectoryLength <- LengthOf
  PathOrder <- Paths
  Contents <- ContentsFor
  Modules <- ModulesFor
  Workspaces <- AllWorkspaces
  GroupOrder <- GroupsInOrder

SPECIFICATION Spec

INVARIANTS
  EachSourceResolvedOnce
  BatchMatchesFresh
  PagesAgreeWithWhole
  SourcesFollowIgnoreRules

PROPERTY ResolutionEnds

\* A workspace without sources that nobody edits has nothing to do.
CHECK_DEADLOCK FALSE
