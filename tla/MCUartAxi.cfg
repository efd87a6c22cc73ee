SPECIFICATION FairSpec
CONSTANTS
  Users = {p, q}
  FIFO_SIZE = 2
  RxDepth = 2
  MaxIn = 3
  MaxOut = 3
  MaxCopies = 2
INVARIANTS
  TypeOK
  ReceivedInOrder
  SentInOrder
  SleepersHaveReason
PROPERTIES
  BytesMove
CHECK_DEADLOCK FALSE
