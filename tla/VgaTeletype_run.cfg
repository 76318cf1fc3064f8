CONSTANTS
  WIDTH = 3
  HEIGHT = 2
  WINDOW = 7
  CRTCBASE = 4
  Char = {0, 10, 97}
  MaxGone = 2
SPECIFICATION HSpec
INVARIANTS OnPage
PROPERTIES StoresOnPage ImplementsTeletype CursorAfterPutc
CHECK_DEADLOCK FALSE
