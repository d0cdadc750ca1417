\* One user, one API key, two codes; two requests at a time, one token, one fault.
CONSTANTS
  u1 = u1
  k1 = k1
  m1 = m1
  m2 = m2
  c1 = c1
  c2 = c2
  t1 = t1
  None = None
  Users <- MCUsers
  ApiKeys <- MCKeys
  Menus <- MCMenus
  Clients <- MCClients
  Tokens <- MCTokens
  MaxFail = 2
  Limit = 1
  Life = 1
  MaxPw = 1
  MaxFaults = 1
SPECIFICATION Spec
SYMMETRY MCSymmetry
CHECK_DEADLOCK FALSE
INVARIANTS
  FailuresBounded
  CounterEnds
  LogoutHolds
PROPERTY
  PermissionsWhole
