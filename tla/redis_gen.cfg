\* Three batches of two rows, two threads, two faults; every configuration.
CONSTANTS
  NB = 3
  Size = 2
  First = 3
  MaxWorkers = 2
  FailPct = 50
  MaxFaults = 2
SPECIFICATION Spec
CHECK_DEADLOCK FALSE
INVARIANTS
  NumbersFollowOn
  RowsKept
  LeftoversExplained
