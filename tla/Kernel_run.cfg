CONSTANTS
  WIDTH = 4
  HEIGHT = 6
  WINDOW = 32
  CRTCBASE = 4
  N = 4
  H = 2
  PeekWord <- MCPeek
  PokeWord <- MCPoke
  ULONG_MAX = 15
  BYTE = 4
  Addr = {0}
  Char <- MCChar
  Env <- MCEnv
  Beyond <- MCBeyond
  Banner <- MCBanner
  Hello <- MCHello
  ReplyText <- MCReplyText
  Codes = {14, 28, 30, 142}
  MaxIrqs = 3
SPECIFICATION Spec
INVARIANTS LineIntact EchoIsLine StrayStoresBounded IdlePositionOnPage
PROPERTY ReachesIdle
CHECK_DEADLOCK FALSE
