CONSTANTS
  LongNames <- LongOnes
  Names <- OneName
  MaxId = 4
  MaxPending = 1
  MaxFaults = 0
  Workers = {w1, w2}
  Kinds = {"create", "mkdir", "unlink", "rmdir", "rename"}
  Elsewhere = {}
  Worlds <- NewOnly
  MoveBusy = TRUE
SYMMETRY AnyWorker
SPECIFICATION Spec
INVARIANT UnsavedHasFolder
CHECK_DEADLOCK FALSE
