CONSTANTS
  Alphabet = {9, 32, 45, 48, 49, 57, 97, 120}
  MaxLen = 5
  Bases = {0, 16}
  MaxULong = 15
SPECIFICATION TokensSpec
INVARIANTS TokensAreWords CutsOnlyDelimiters StrtoulSaturates
CHECK_DEADLOCK FALSE
