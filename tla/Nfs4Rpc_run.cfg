SPECIFICATION Spec

CONSTANTS
  NFS4_FHSIZE = 4
  NFS4_OPAQUE_LIMIT = 8
  NOLIMIT = 99999
  Scopes <- MCScopes
  Garbage = {0, 1, 2, 5}
  MaxRuns = 2
  MaxWalk = 12

INVARIANTS
  ArgumentsArrive
  ResultIsAnswer
  ArgsFreed
  NeverDiesServing
  StartsAgain
  ArgumentsUsable

CHECK_DEADLOCK FALSE
