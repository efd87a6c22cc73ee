SPECIFICATION FairSpec
CONSTANTS
  MaxLines = 1
  MaxMsgs = 0
PROPERTIES
  TimeoutIsPosted
CHECK_DEADLOCK FALSE
