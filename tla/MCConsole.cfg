SPECIFICATION FairSpec
CONSTANTS
  MaxLines = 3
  MaxMsgs = 1
INVARIANTS
  TypeOK
  NoBrokenPipe
PROPERTIES
  TimeoutIsPostedWhileOpen
  QuitSpreads
CHECK_DEADLOCK FALSE
