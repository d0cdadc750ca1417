\* One task with two batches: any two requests or crashes.
CONSTANTS
  b1 = b1
  b2 = b2
  r1 = r1
  r2 = r2
  exec = exec
  Batches <- MCBatches
  Retriers <- MCRetriers
  Exec = exec
  MaxEvents = 2
SPECIFICATION Spec
CHECK_DEADLOCK FALSE
INVARIANTS
  TypeOK
  RowsAccounted
  SoleWriter
PROPERTIES
  RequestsHonoured
  WorkEnds
