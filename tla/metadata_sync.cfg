\* One table, two workers, two servers, any three events.
CONSTANTS
  t1 = t1
  w1 = w1
  w2 = w2
  s1 = s1
  s2 = s2
  Tables <- MCTables
  Workers <- MCWorkers
  Servers <- MCServers
  None = None
  MaxEvents = 3
SPECIFICATION Spec
SYMMETRY MCSymmetry
CHECK_DEADLOCK FALSE
INVARIANTS
  OneSync
  SyncingIsServed
  ReadsTrue
  RowsOwned
