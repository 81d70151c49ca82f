SPECIFICATION FairSpec
CONSTANTS
  Chunks = 4
  InMax = 1
  OutMax = 2
  ErrMax = 1
  WaitEOF = TRUE
  Faults = {"leave"}
PROPERTIES
  LeaverFreed
CHECK_DEADLOCK FALSE
