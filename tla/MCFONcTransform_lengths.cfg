CONSTANTS
  Token <- MCToken
  Clean <- MCClean
  Prefixed <- MCPrefixed
  Val <- MCVal
  NaNVals <- MCNaNVals
  Requests <- MCLengths
  Failures = {}
  Standalone = TRUE
SPECIFICATION Spec
INVARIANT
  ShapesKept
