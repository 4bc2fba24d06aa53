SPECIFICATION Spec
INVARIANTS
  TableIsRead
  LinesMatchInOrder
  StdoutIsTheText
  TagsChooseMachines
  StateIsAsListed
  RepodataAreConsistent
  RepodataAreListed
CHECK_DEADLOCK FALSE
