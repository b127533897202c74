CONSTANTS
  Scratches = {s1, s2}
  NBlocks = 3
  BlockSize = 1
  Values = {0}
  Zero = 0
  MaxGen = 1
  Faults = TRUE
  MaxCached = 2
  PoolBlocks = 2
  MaxFails = 1
SPECIFICATION FairSpec
INVARIANTS OrderIsCache PoolAccounting PoolBounds
PROPERTIES OperationsEnd
