SPECIFICATION Spec
CONSTANTS
  MaxLen = 6
  Keys = {1, 2, 3}
  MaxNodes = 5
  LNodes <- MCNodes
  Datas = {0, 1}
  NULL = NULL
  hash_size = 2
  hash_block_size = 4
  block_size = 8
  hash_set_l3_blk_sz = 32
  CipherBlock = 4
  MaxImage = 34
  MaxDrift = 4
  PadSizes = {0, 2, 3, 4, 6, 8}
CHECK_DEADLOCK FALSE
INVARIANTS
  ResultsRight
  DemosEndWell
  
PROPERTY ProgramsEnd
