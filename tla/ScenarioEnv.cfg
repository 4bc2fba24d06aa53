SPECIFICATION Spec
CONSTANTS
  Scenario <- MCScenario
  Tags <- MCTags
  OwnTags <- MCOwnTags
  Excluded = {}
  Plans <- MCPlans
  MaxContexts = 2
INVARIANTS
  OriginalsKept
  HostUntouched
  StartsClean
  TempDirsCleaned
CHECK_DEADLOCK FALSE
