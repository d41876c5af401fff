CONSTANTS
  d1 = d1
  d2 = d2
  d3 = d3
  Fields <- MCFields
  MaxDest = 2
  Dests <- MCDests
  DestLists <- MCDestLists
  Conns = {c1, c2}
  Pids = {p1, p2}
  Threads = {t1, t2}
  NoField = NoField
  NoDest = NoDest
  NoPid = NoPid
  NoConn = NoConn
  NoSlot = NoSlot
  NoThread = NoThread
  FreshPids = FALSE
  PidWriteFails = FALSE
  FreshDests = FALSE
  UsedOps <- Ops
  Faults <- AllFaults
SYMMETRY Symmetric
SPECIFICATION RestedSpec
INVARIANTS
  NodeTypeOK
  RunningIsConfigured
  StatusIsTrue
  Tracked
  VisitedIsSilent
PROPERTIES
  StopIsStopped
  ImplementsService
