SPECIFICATION Spec
CONSTANTS
  Tenants = {"t1", "t2"}
  MaxHops = 3
  MaxDepth = 3
  MaxSubdivide = 4
  PageLimit = 2
  MaxAllocTries = 2
  SkipFirst = 0
  SkipLast = 0
  MaxHosts = 2
  MaxMACs = 2
  MaxHostEnumerate = 4
  GlobalSync = TRUE
  ExportPage = 1
  Streams = {"t1"}
  Users = {"u1", "u2"}
  Conns = {"s1", "s2"}
  Buffer = 1
  MaxLen = 2
  PerUser = 1
  PerTenant = 2
  Callers = {1, 2, 3}
  Scenes <- MCReplay
  Menu <- MCMenu
  Audiences <- MCAudiences
INVARIANT ReplayComplete
