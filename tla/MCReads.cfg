CONSTANTS
  h1 = h1
  h2 = h2
  Handles = {h1, h2}
  Reqs = {r1, r2}
  IoWorkers = 1
  ChunkSlots = 1
  Attempts = 2
  ReadAhead = 1
  MaxBytes = 2
  MaxEntryBytes = 2
  MaxLarge = 2
  Worlds <- AllWorlds
SPECIFICATION Spec
INVARIANTS TypeOK OneLoader NothingLeaks ReadyIsThere CachesAreRight
PROPERTIES EveryReadEnds
CHECK_DEADLOCK FALSE
