SPECIFICATION FairSpec
CONSTANTS
  QMax = 2
  MaxSegs = 2
  MaxMsgs = 2
  MaxTasks = 3
  Events = {"close", "crash", "timeout"}
  None = None
  Sentinel = Sentinel
INVARIANTS
  TypeOK
  OneWorker
  ChunkCountedOnce
  DoneMeansSpoken
  SessionInv
PROPERTIES
  NoStaleAudio
  StreamProtocol
  InterruptCompletes
  SessionEnds
CHECK_DEADLOCK FALSE
