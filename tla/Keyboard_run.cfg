CONSTANTS
  Keys <- MCKeys
  Beyond <- MCBeyond
  WireMax = 4
  MaxEvents = 5
SPECIFICATION Spec
INVARIANTS ShiftNeverStuck FlagsFollowKeys KeystrokesDelivered
CHECK_DEADLOCK FALSE
