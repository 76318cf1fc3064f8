CONSTANTS
  N = 6
  H = 2
  PeekWord <- MCPeek
  PokeWord <- MCPoke
  ULONG_MAX = 15
  BYTE = 4
  Addr = {0, 1}
  Char <- CommandChars
  Strokes <- CommandStrokes
  Env <- MCEnv
  MaxCalls = 7
SPECIFICATION Spec
CHECK_DEADLOCK FALSE
INVARIANTS TypeOK BuffersMatchLengths LinesTerminated HistoryRecallsLine
PROPERTY ImplementsLineEditor
