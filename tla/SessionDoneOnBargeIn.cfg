SPECIFICATION Spec
CONSTANTS
  QMax = 1
  MaxSegs = 1
  MaxMsgs = 1
  MaxTasks = 2
  Events = {}
  None = None
  Sentinel = Sentinel
PROPERTIES
  DoneAnswersEnd
