SPECIFICATION Spec
CONSTANTS
  Letters = {"a"}
  MinFlush = 3
  MaxToken = 4
  MaxChars = 4
  MaxText = 6
  None = None
INVARIANTS
  NothingLost
  SegmentsSpeakable
  NoSentenceWaits
  CutAtBoundaries
  LongBehindBlanks
