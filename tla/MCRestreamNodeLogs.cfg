CONSTANTS
  d1 = d1
  d2 = d2
  d3 = d3
  Fields <- MCFields
  MaxDest = 3
  Dests <- MCDests3
  DestLists <- MCDestLists3
  Conns = {c1}
  Pids = {p1, p2}
  Threads = {t1}
  NoField = NoField
  NoDest = NoDest
  NoPid = NoPid
  NoConn = NoConn
  NoSlot = NoSlot
  NoThread = NoThread
  FreshPids = TRUE
  PidWriteFails = FALSE
  FreshDests = TRUE
  UsedOps <- MCLogOps
  Faults = {}
SYMMETRY Symmetric
SPECIFICATION NodeSpec
INVARIANTS
  LogFollowsDestination
