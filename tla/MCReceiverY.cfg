SPECIFICATION FairSpec
CONSTANTS
  NumFiles = 2
  Chunks <- MCChunks
  LastBytes <- MCLastBytes
  ChunkSz = 2
  NumMod = 4
  errB = 2
  CAN_LEN = 2
  ZeroFirst <- MCZeroFirst
  GarbageSizes <- MCGarbageSizes
  MaxDone = 2
CHECK_DEADLOCK FALSE
INVARIANTS
  TypeOK
  DiskHoldsPrefix
  SizeExact
  DescriptorMatchesState
  ErrorsBounded
PROPERTIES
  AckedIsStoredUnlessAstray
  NoWriteAfterCancel
  CancelTakesEffect
  SilenceStops
