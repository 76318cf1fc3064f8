CONSTANTS
  CHAR = 4
  SHORT = 6
  INT = 8
  LONG = 16
  WORD = 8
  BUF = 20
  Characters <- MCCharacters
  Texts <- MCTexts
  Calls <- MCCalls
SPECIFICATION Spec
INVARIANTS PrintsAsMeant FieldsFit NeverHangs
CHECK_DEADLOCK FALSE
