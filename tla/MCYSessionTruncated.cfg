SPECIFICATION FairSession
CONSTANTS
  NumFiles = 2
  Chunks <- MCChunks
  LastBytes <- MCLastBytes
  ChunkSz = 2
  NumMod = 6
  errB = 3
  CAN_LEN = 2
  ErrCap = 9
  ZeroFirst = {}
  GarbageSizes = {3}
  MaxDone = 2
  NumByte <- MCOnlySOH
  RestBytes = {}
  RestLen = 0
  FaultKinds = {"naked"}
  Glitches <- MCGlitches
  MaxFaults = 1
  Keyboards = {}
CHECK_DEADLOCK FALSE
INVARIANT
  SenderClaimsTrue
