CONSTANTS
  Ids = {1, 2, 3}
  Worlds <- OneFile
  Jobs = {j1}
  JobKinds = {"create", "save", "rename", "delete"}
  Healers = {"round"}
  Elsewhere = {"delete"}
  PageSize = 4
  Attempts = 2
  HashBudget = 0
  Contents = {"x"}
  MaxJobs = 2
  MaxMoves = 1
  MaxFaults = 1
SPECIFICATION Spec
INVARIANTS TypeOK ReplacedIsDeleted
PROPERTIES OldCopyNeverReappears
CHECK_DEADLOCK FALSE
