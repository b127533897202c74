CONSTANTS
  Scratches = {s1}
  NBlocks = 2
  BlockSize = 2
  Values = {0, 1}
  Zero = 0
  MaxGen = 3
  Faults = TRUE
  MaxCached = 1
  PoolBlocks = 2
  MaxFails = 1
SPECIFICATION Spec
INVARIANTS TypeOK NoIdleReservation ZeroPastEnd CleanIsUploaded
PROPERTIES FileSpec
