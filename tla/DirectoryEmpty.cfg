SPECIFICATION MCSpec
CONSTANTS
  MaxScenarios = 2
  MaxSteps = 0
  Location <- Locations
  Text <- Texts
  MaxFileSteps = 3
  MaxFileScenarios = 2
INVARIANTS
  EmptyMeansEmpty
CHECK_DEADLOCK FALSE
