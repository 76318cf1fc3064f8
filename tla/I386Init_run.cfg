CONSTANTS
  MasterLines = {0, 1, 7}
  SlaveLines = {0, 6}
  MaxRaises = 4
SPECIFICATION StartSpec
INVARIANTS DeliveredHasGate
PROPERTY KeyboardServed
CHECK_DEADLOCK FALSE
