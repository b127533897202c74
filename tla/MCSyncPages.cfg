CONSTANTS
  Ids = {1, 2, 3}
  Worlds <- CleanWorlds
  Jobs = {}
  JobKinds = {}
  Healers = {"round"}
  Elsewhere = {"create", "save", "rename", "copy"}
  PageSize = 1
  Attempts = 1
  HashBudget = 2
  Contents = {"x"}
  MaxJobs = 0
  MaxMoves = 1
  MaxFaults = 1
SPECIFICATION FairSpec
PROPERTIES OnlyGoneLeaves CleaningKeepsAVersion IndexSettles
CHECK_DEADLOCK FALSE
