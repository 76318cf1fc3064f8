CONSTANTS
  TOP = 18
  PAGE = 2
  Taken = {1, 16}
  Files <- MCFiles
SPECIFICATION Spec
INVARIANTS PoolsFreed WritesOwned ImageLoaded
CHECK_DEADLOCK FALSE
