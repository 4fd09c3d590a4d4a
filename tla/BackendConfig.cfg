CONSTANTS
  MaxConfig = 3
  MaxCrashes = 2
SPECIFICATION Spec
INVARIANTS TypeOK FileFollowsMemory ReportSurvivesRestart
CHECK_DEADLOCK FALSE
