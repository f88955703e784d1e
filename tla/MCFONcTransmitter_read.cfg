CONSTANTS
  p1 = p1
  p2 = p2
  a = a
  b = b
  c = c
  Procs <- MCProcs
  Names <- MCNames
  MaxBlocks = 2
  MaxRequests = 1
  Failures = {"read"}
SPECIFICATION Spec
INVARIANT
  WholeFile
