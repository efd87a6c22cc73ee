SPECIFICATION FairSpec
CONSTANTS
  NumFiles = 3
  Chunks <- MCChunks
  LastBytes <- MCLastBytes
  ChunkSz = 2
  NumMod = 4
  errB = 2
  CAN_LEN = 2
  ErrCap = 4
CHECK_DEADLOCK FALSE
INVARIANTS
  SenderInv
  TypeOK
  DescriptorMatchesState
  ErrorsBounded
PROPERTIES
  BlocksInOrder
  EotAfterLastBlock
  ResultTruthful
  CanResumes
  NoBlockAfterCancel
  CancelTakesEffect
