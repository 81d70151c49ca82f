SPECIFICATION Spec
CONSTANTS
  Texts <- MCTexts
  Exclusions <- MCExclusions
  HourFormats = {"24h", "12h"}
INVARIANTS
  FormsRead
  NumbersKept
CHECK_DEADLOCK FALSE
