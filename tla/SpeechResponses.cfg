SPECIFICATION System
CONSTANTS
  Chunks = 6
  InMax = 1
  OutMax = 2
  ErrMax = 1
  WaitEOF = FALSE
  Faults = {"spawn", "source", "crash", "noise", "leave"}
INVARIANTS
  OutputFaithful
  NothingLeft
  AudioNeedsToken
  HeaderExact
  CleanMeansComplete
PROPERTIES
  ServiceKept
  ResponseEnds
  LeaverFreed
