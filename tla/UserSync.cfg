CONSTANTS
  d1 = d1  d2 = d2  p1 = p1  g1 = g1
  u1 = u1  u2 = u2  u3 = u3  u4 = u4
  r1 = r1  r2 = r2  empty = empty  text = text  m1 = m1  m2 = m2
  None = None
  Domain <- MCDomain
  Project <- MCProject
  Group <- MCGroup
  User <- MCUser
  Role <- MCRole
  Desc <- MCDesc
  Email <- MCEmail
  NoDesc = empty
  Wants <- MCWants
  Servers <- MCServers
  Batch = 2
  Window = 1
  MaxSyncs = 2
  MaxChildren = 6
  MaxFails = 1
SPECIFICATION Spec
INVARIANT SyncReaches
PROPERTY WantedStays RolesBeforeChildren SyncEnds
CHECK_DEADLOCK FALSE
