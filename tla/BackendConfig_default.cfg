CONSTANTS
  MaxConfig = 1
  MaxCrashes = 0
SPECIFICATION Spec
INVARIANT DefaultIsPersisted
CHECK_DEADLOCK FALSE
