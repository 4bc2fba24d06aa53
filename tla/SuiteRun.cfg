SPECIFICATION FairSuiteSpec
CONSTANTS
  Scenario <- MCScenario
  Tags <- MCTags
  OwnTags <- MCOwnTags
  NameOf <- MCNameOf
  Feature <- MCFeature
  ScenariosOf <- MCScenariosOf
  Options <- MCOptions
  Images <- MCImages
  NoFeature = NoFeature
  Bulk = Bulk
  NoBox = NoBox
  Excluded = {}
INVARIANTS
  ExactlyOnce
  NeverUnclean
  SuccessMeansPassed
PROPERTIES
  PristineStart
  RunEnds
CHECK_DEADLOCK FALSE
