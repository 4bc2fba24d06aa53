SPECIFICATION Spec
CONSTANTS
  Package <- MCPackage
  na <- MCna
  Rank <- MCRank
  Tables <- MCTables
  Outputs <- MCOutputs
INVARIANTS
  UnchangedStays
