SPECIFICATION Spec
INVARIANTS
  NotWithExcludesAll
CHECK_DEADLOCK FALSE
