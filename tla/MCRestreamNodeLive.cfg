CONSTANTS
  d1 = d1
  d2 = d2
  d3 = d3
  Fields <- MCFields
  MaxDest = 1
  Dests <- MCDest1
  DestLists <- MCDestLists1
  Conns = {c1, c2}
  Pids = {p1}
  Threads = {t1}
  NoField = NoField
  NoDest = NoDest
  NoPid = NoPid
  NoConn = NoConn
  NoSlot = NoSlot
  NoThread = NoThread
  FreshPids = TRUE
  PidWriteFails = TRUE
  FreshDests = FALSE
  UsedOps <- Ops
  Faults = {"timeout", "manager_restart", "supervisor_restart", "save"}
SPECIFICATION NodeFairSpec
INVARIANTS
  LockDiscipline
PROPERTIES
  CallEventuallyEnds
  LockEventuallyFree
