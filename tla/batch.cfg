\* Normal mode and two rounds of iterate mode over three batches in two shards on
\* two threads; one lost commit answer.
CONSTANTS
  NT = 2
  Main = 1
  Source <- MCSource
  NS = 1
  NR = 2
  NB = 3
  RowCount = 5
  BatchSize = 2
  ShardBatches = 2
  MaxWorkers = 2
  MaxInflight = 2
  MaxRetry = 0
  FailPct = 50
  MaxLost = 1
SPECIFICATION Spec
INVARIANTS
  RowsTrue
  VerdictHolds
  StatisticsTrue
PROPERTIES
  KeepsContract
  Termination
