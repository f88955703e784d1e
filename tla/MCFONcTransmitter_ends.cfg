CONSTANTS
  p1 = p1
  p2 = p2
  a = a
  b = b
  c = c
  Procs <- MCProcs
  Names <- MCNames
  MaxBlocks = 2
  MaxRequests = 2
  Failures = {"mkstemp", "nc", "libdap", "read", "stream"}
SPECIFICATION Spec
INVARIANT
  NoLeftovers
PROPERTIES
  Served
  Removed
  FileUse
