CONSTANTS
  Token <- MCToken
  Clean <- MCClean
  Prefixed <- MCPrefixed
  Val <- MCVal
  NaNVals = {}
  Datasets <- MCDatasets
  GlobalNames <- MCGlobalNames
  Entry <- MCEntry
  ByteMax = 1
  ShortMax = 3
  IntMax = 7
  NaN = NaN
SPECIFICATION Spec
INVARIANTS
  TypeOK
  Flattened
  FillMatches
  HistoryKept
  AttrBaseline
