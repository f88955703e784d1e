CONSTANTS
  Token <- MCToken
  Clean <- MCClean
  Prefixed <- MCPrefixed
  Val <- MCVal
  NaNVals <- MCNaNVals
  Requests <- MCMembers
  Failures = {}
  Standalone = TRUE
SPECIFICATION Spec
INVARIANT
  MembersNamed
