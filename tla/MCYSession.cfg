SPECIFICATION FairSession
CONSTANTS
  NumFiles = 2
  Chunks <- MCFewChunks
  LastBytes <- MCLastBytes
  ChunkSz = 2
  NumMod = 6
  errB = 3
  CAN_LEN = 2
  ErrCap = 9
  ZeroFirst = {}
  GarbageSizes = {3}
  MaxDone = 2
  NumByte <- MCNumByte
  RestBytes = {"SOH", "EOT", "CAN"}
  RestLen = 1
  FaultKinds = {"damaged", "beheaded", "garbled", "stray", "burst", "lost", "naked", "glitch", "extraAck"}
  Glitches <- MCGlitches
  MaxFaults = 1
  Keyboards = {"sender", "receiver"}
CHECK_DEADLOCK FALSE
PROPERTY
  BothStop
