CONSTANTS
  p1 = p1
  p2 = p2
  a = a
  b = b
  c = c
  Procs <- MCProcs
  Names <- ManyNames
  MaxBlocks = 2
  MaxRequests = 3
  Failures = {"nc", "crash"}
SPECIFICATION Spec
SYMMETRY Symmetry
INVARIANTS
  TypeOK
  NameIsOwn
  OwnData
  WholeFile
  FilesPrivate
  IdleIsClean
