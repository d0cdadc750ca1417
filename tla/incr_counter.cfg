\* An execution and two retries of two batches, which may overlap.
CONSTANTS
  b1 = b1
  b2 = b2
  exec = exec
  r1 = r1
  r2 = r2
  Runs <- MCRuns
  Exec = exec
  Batches <- MCBatches
  Size <- MCSize
  Start = 5
SPECIFICATION IncrSpec
CHECK_DEADLOCK FALSE
INVARIANT
  NumbersWhole
PROPERTY
  GrantsDistinct
