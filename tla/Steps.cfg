SPECIFICATION MCSpec
CONSTANTS
  MaxScenarios = 2
  MaxSteps = 3
  Location <- Locations
  Text <- Texts
  MaxFileSteps = 3
  MaxFileScenarios = 2
INVARIANTS
  ChecksSeeTheLast
  LeaksOnlyThroughProcess
PROPERTIES
  HostOnlyWhenAsked
  StepsDoWhatTheySay
CHECK_DEADLOCK FALSE
