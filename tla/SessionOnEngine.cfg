SPECIFICATION System
CONSTANTS
  Calls = {0, 1, h}
  Hung = {h, 1}
  TimeLimit = TRUE
  None = None
  QMax = 1
  MaxSegs = 1
  MaxMsgs = 1
  MaxTasks = 2
  Events = {"crash", "timeout"}
  Sentinel = Sentinel
  WaitForKeeps = TRUE
INVARIANTS
  TypeOK
  LockFollowsCall
  OneInference
PROPERTIES
  NoLateInference
  ClosedIsQuiet
  CallEnds
  BargeInWaitsForNobody
  SessionOutlastsEngine
  NoStaleInference
CHECK_DEADLOCK FALSE
