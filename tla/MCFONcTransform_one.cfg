CONSTANTS
  Token <- MCToken
  Clean <- MCClean
  Prefixed <- MCPrefixed
  Val <- MCVal
  NaNVals <- MCNaNVals
  Requests <- MCRequests
  Failures = {"nc"}
  Standalone = TRUE
SPECIFICATION Spec
INVARIANTS
  TypeOK
  DimRefs
  MapRefs
  DimNamesDistinct
  MapsDistinct
  SharedMapsAgree
  InGridMeansGrid
  GridsAligned
  NcClosed
  Freed
  BaselineMatch
PROPERTIES
  Promise
  Answered
  FileUse
