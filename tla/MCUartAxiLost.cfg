SPECIFICATION FairSpec
CONSTANTS
  Users = {p}
  FIFO_SIZE = 2
  RxDepth = 2
  MaxIn = 1
  MaxOut = 2
  MaxCopies = 1
PROPERTIES
  QueueIsSent
CHECK_DEADLOCK FALSE
