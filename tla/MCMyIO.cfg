SPECIFICATION FairSpec
CONSTANTS
  Threads <- MCThreads
  End <- MCEnd
  Readers <- MCReaders
  Drainers <- MCDrainers
  MaxBytes = 2
  Budget = 4
  Timed = TRUE
INVARIANTS
  TypeOK
  CountersExact
  NobodyForgotten
PROPERTIES
  WokenOnlyWhenDrained
  CallsReturn
CHECK_DEADLOCK FALSE
