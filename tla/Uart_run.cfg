CONSTANTS
  RXCAP = 2
  TXCAP = 2
  TRIGGER = 1
  ECHO = 2
  MaxKeys = 3
  Text <- MCText
SPECIFICATION UartSpec
INVARIANTS HandlerNeverSpins LossBounded
PROPERTY KeysEndPrompt
CHECK_DEADLOCK FALSE
