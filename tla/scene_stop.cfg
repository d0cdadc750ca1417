\* Three nodes in two layers; one forced stop.
CONSTANTS
  n1 = n1
  n2 = n2
  n3 = n3
  Nodes <- MCNodes
  NL = 2
  Layer <- MCLayer
  AbortOnFail <- MCAbort
  MaxRetries = 1
  MaxEvents = 1
SPECIFICATION Spec
CHECK_DEADLOCK FALSE
PROPERTY
  StoppedStays
