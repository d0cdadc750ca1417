\* Three tables of two or three columns, up to four associations, two batches and
\* a retry, one insert that fails.
CONSTANTS
  A = A
  B = B
  C = C
  id = id
  x = x
  y = y
  None = None
  Tables <- MCTables
  Main = A
  Cols <- MCCols
  TypeGroup <- MCTypeGroup
  AutoInc <- MCAutoInc
  Configs <- MCConfigs
  NB = 2
  MaxFaults = 1
SPECIFICATION Spec
CHECK_DEADLOCK FALSE
INVARIANTS
  TypeOK
  OrderIsTopological
  SavedPrepares
  ForeignKeysMatch
  SamplesFindRows
