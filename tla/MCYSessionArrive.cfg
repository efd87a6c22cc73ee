SPECIFICATION FairSession
CONSTANTS
  NumFiles = 2
  Chunks <- MCChunks
  LastBytes <- MCLastBytes
  ChunkSz = 2
  NumMod = 6
  errB = 4
  CAN_LEN = 2
  ErrCap = 9
  ZeroFirst = {}
  GarbageSizes = {3}
  MaxDone = 2
  NumByte <- MCOnlySOH
  RestBytes = {"SOH"}
  RestLen = 2
  FaultKinds = {"damaged", "beheaded", "garbled", "glitch"}
  Glitches <- MCNoise
  MaxFaults = 3
  Keyboards = {}
CHECK_DEADLOCK FALSE
PROPERTY
  AllArrive
