SPECIFICATION Spec
CONSTANTS
  Repo = {"base", "f$releasever"}
  Release = {"29", "30"}
  DefaultRelease = "29"
  WithRelease = {"f$releasever"}
  Found <- MCFound
  MaxScenarios = 2
INVARIANTS
  CacheIsTrue
  UsedIsGenerated
  ExplicitMatchesPackages
PROPERTIES
  SharedUnchanged
CHECK_DEADLOCK FALSE
