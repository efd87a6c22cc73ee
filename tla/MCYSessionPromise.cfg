SPECIFICATION FairSession
CONSTANTS
  NumFiles = 2
  Chunks <- MCChunks
  LastBytes <- MCLastBytes
  ChunkSz = 2
  NumMod = 6
  errB = 3
  CAN_LEN = 2
  ErrCap = 9
  ZeroFirst = {}
  GarbageSizes = {3}
  MaxDone = 2
  NumByte <- MCOnlySOH
  RestBytes = {"SOH"}
  RestLen = 2
  FaultKinds = {"damaged", "beheaded", "garbled", "stray", "burst", "lost", "glitch", "extraAck"}
  Glitches <- MCUnanswered
  MaxFaults = 3
  Keyboards = {"sender", "receiver"}
CHECK_DEADLOCK FALSE
INVARIANTS
  LineTypeOK
  SenderClaimsTrue
PROPERTIES
  EnvironmentKept
  Promise
