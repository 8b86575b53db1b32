SPECIFICATION Spec
CONSTANTS
  a = a
  b = b
  c = c
  readme = readme
  s1 = s1
  s2 = s2
  Path <- SomePaths
  Supported <- Sources
  Surface <- Surfaces
  File <- SomeFiles
  Contents <- SomeContents
  Absent = Absent
  MaxEdits = 3
  MaxVersion = 4
INVARIANTS
  IncrementalInv
  QuietPathsAreCurrent
  RecordedDependenciesAreFresh
CHECK_DEADLOCK FALSE
