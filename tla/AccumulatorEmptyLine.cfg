SPECIFICATION Spec
CONSTANTS
  Letters = {"a"}
  MinFlush = 4
  MaxToken = 3
  MaxChars = 5
  MaxText = 6
  None = None
PROPERTIES
  OnlyAtBoundaries
