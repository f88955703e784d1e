CONSTANTS
  Token <- MCToken
  Clean <- MCIdentity
  Prefixed <- MCIdentity
  Val <- MCVal
  NaNVals = {}
  KeyFiles <- MCKeyFiles
  Variables <- MCVariables
  MAX_CHUNK_SIZE = 2
  FONC_CHUNK_SIZE = 4096
  FONC_TEMP_DIR = "/tmp"
  ByteMax = 1
  ShortMax = 3
  IntMax = 7
SPECIFICATION Spec
INVARIANT
  UInt16Kept
