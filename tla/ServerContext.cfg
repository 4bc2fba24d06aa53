SPECIFICATION FairSpec
CONSTANTS
  Path = {"repo", "other"}
  Port = {1, 2}
  MaxAttempts = 2
  MaxStarts = 2
  MaxForeign = 1
INVARIANTS
  NoOrphan
PROPERTIES
  AnsweredByNewServer
  FailsForItsOwnScenario
  StartEnds
  ServersGo
CHECK_DEADLOCK FALSE
