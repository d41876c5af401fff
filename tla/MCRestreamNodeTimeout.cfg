CONSTANTS
  d1 = d1
  d2 = d2
  d3 = d3
  Fields <- MCFields
  MaxDest = 2
  Dests <- MCDests
  DestLists <- MCDestLists
  Conns = {c1, c2}
  Pids = {p1, p2}
  Threads = {t1}
  NoField = NoField
  NoDest = NoDest
  NoPid = NoPid
  NoConn = NoConn
  NoSlot = NoSlot
  NoThread = NoThread
  FreshPids = TRUE
  PidWriteFails = FALSE
  FreshDests = FALSE
  UsedOps <- MCOps
  Faults = {"timeout"}
SYMMETRY Symmetric
SPECIFICATION NodeSpec
INVARIANTS
  RemovedIsStopped
