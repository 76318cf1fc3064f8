CONSTANTS
  SLACK = 2
  Growth = {0, 2, 3}
  MaxDesc = 1
  Configs <- MCConfigs
  Models = {0, 3}
SPECIFICATION Spec
INVARIANTS HandOver ReturnsForCause NewestUartUsed
CHECK_DEADLOCK FALSE
