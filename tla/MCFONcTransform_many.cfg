CONSTANTS
  Token <- MCToken
  Clean <- MCClean
  Prefixed <- MCPrefixed
  Val <- MCVal
  NaNVals <- MCNaNVals
  Requests <- MCFew
  Failures = {"nc", "libdap"}
  Standalone = FALSE
SPECIFICATION Spec
INVARIANTS
  Freed
  RegistryLive
  DimRefs
