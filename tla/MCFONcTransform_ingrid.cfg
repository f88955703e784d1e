CONSTANTS
  Token <- MCToken
  Clean <- MCClean
  Prefixed <- MCPrefixed
  Val <- MCVal
  NaNVals <- MCNaNVals
  Requests <- MCFew
  Failures = {}
  Standalone = FALSE
SPECIFICATION Spec
INVARIANT
  InGridMeansGrid
