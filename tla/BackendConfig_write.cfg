CONSTANTS
  MaxConfig = 1
  MaxCrashes = 0
SPECIFICATION Spec
PROPERTY WriteResultIsTrue
CHECK_DEADLOCK FALSE
