\* Two processes, one of two threads; two numbers in a millisecond; the clock is
\* set back once, a process restarts once.
CONSTANTS
  t1 = t1
  t2 = t2
  t3 = t3
  NoThread = NoThread
  Threads <- MCThreads
  Process <- MCProcess
  Pids <- MCPids
  Machines = 2
  Sequences = 2
  MaxTime = 2
  MaxBack = 1
  MaxRestarts = 1
SPECIFICATION IdSpec
SYMMETRY MCSymmetry
CHECK_DEADLOCK FALSE
PROPERTIES
  IdsIncrease
  IdsUnique
