CONSTANTS
  LongNames <- LongOnes
  Names <- OneName
  MaxId = 4
  MaxPending = 1
  MaxFaults = 1
  Workers = {w1, w2}
  Kinds = {"create", "mkdir", "unlink", "rmdir", "rename"}
  Elsewhere = {"create", "rename", "upgrade"}
  Worlds <- SmallWorlds
  MoveBusy = FALSE
SYMMETRY AnyWorker
SPECIFICATION Spec
INVARIANTS TypeOK ShownIsFound BaseIsHeld PlacedIsResolved EverythingReachable UnsavedHasFolder
PROPERTIES SyncReportsChanges
CHECK_DEADLOCK FALSE
