CONSTANTS
  Long = 4
  Short = 3
  Vaults <- MCVaults
SPECIFICATION Spec
INVARIANTS EveryVersionHasAnHeir SuccessorsEnd OnePassSettles
CHECK_DEADLOCK FALSE
