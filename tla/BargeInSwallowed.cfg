SPECIFICATION System
CONSTANTS
  Calls = {0, 1}
  Hung = {}
  TimeLimit = TRUE
  None = None
  QMax = 1
  MaxSegs = 1
  MaxMsgs = 1
  MaxTasks = 2
  Events = {}
  Sentinel = Sentinel
  WaitForKeeps = TRUE
PROPERTIES
  BargeInCompletes
CHECK_DEADLOCK FALSE
