CONSTANTS
  a = a
  b = b
  Uploads = {a, b}
  Attempts = 2
  ParallelParts = 2
  MaxSessions = 2
  Worlds <- AllWorlds
SPECIFICATION Spec
INVARIANTS LandsOnce BlobsHaveRows QuotaHolds
CHECK_DEADLOCK FALSE
