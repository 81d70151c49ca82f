SPECIFICATION FairSpec
CONSTANTS
  QMax = 1
  MaxSegs = 1
  MaxMsgs = 1
  MaxTasks = 2
  Events = {"timeout"}
  None = None
  Sentinel = Sentinel
PROPERTIES
  TimerEndsSession
CHECK_DEADLOCK FALSE
