SPECIFICATION Spec
CONSTANTS
  a = a
  b = b
  c = c
  readme = readme
  s1 = s1
  s2 = s2
  Path <- SomePaths
  Supported <- Sources
  Surface <- Surfaces
  File <- SomeFiles
  Contents <- SomeContents
  Absent = Absent
  MaxEdits = 2
  MaxVersion = 4
INVARIANT
  NoImportOfRemovedSurface
CHECK_DEADLOCK FALSE
