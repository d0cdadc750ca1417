\* Two overlapping requests of a user and an administrator on: two cases and a
\* folder; one case and two tasks; one case and two scenes; one of each and a task.
CONSTANTS
  c1 = c1
  c2 = c2
  u1 = u1
  adm = adm
  g1 = g1
  g99 = g99
  n1 = n1
  n2 = n2
  k1 = k1
  k2 = k2
  f1 = f1
  s1 = s1
  s2 = s2
  d1 = d1
  j1 = j1
  j2 = j2
  None = None
  Clients <- MCClients
  Users <- MCUsers
  Groups <- MCGroups
  AdminGroup = g99
  GroupOf <- MCGroupOf
  Names <- MCNames
  Cases <- MCCases
  Folders <- MCFolders
  Scenes <- MCScenes
  Sources <- MCSources
  Jobs <- MCJobs
  Pools <- MCPools
  MaxBatch = 2
  MaxFaults = 1
SPECIFICATION Spec
SYMMETRY MCSymmetry
CHECK_DEADLOCK FALSE
INVARIANTS
  TypeOK
  NamesUnique
  SourceOutlivesUsers
  FolderCountsAddUp
  SubmittedWhole
