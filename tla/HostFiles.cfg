SPECIFICATION HostSpec
CONSTANTS
  MaxUses = 3
  MaxScenarios = 3
INVARIANTS
  RestoredAfterOneUse
PROPERTIES
  LostBySecondUseOnly
CHECK_DEADLOCK FALSE
