CONSTANTS
  CHAR = 4
  SHORT = 6
  INT = 8
  LONG = 16
  WORD = 16
  BUF = 20
  Characters <- MCCharacters
  Texts <- MCTexts
  Calls <- LongCalls
SPECIFICATION Spec
INVARIANT ShiftEnds
CHECK_DEADLOCK FALSE
