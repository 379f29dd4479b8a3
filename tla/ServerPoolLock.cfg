CONSTANTS
  c1 = c1
  c2 = c2
  w1 = w1
  w2 = w2
  n1 = n1
  n2 = n2
  NULL = NULL
  SELECTOR = SELECTOR
  Node <- MCClients
  Workers <- OneWorker
  Nodenames <- MCNodenames
  Requests <- HostileRequests
  MaxConnects = 2
  MaySignal = FALSE
  OsMayFail = FALSE
SPECIFICATION Spec
INVARIANTS
  PoolLockReacquired
CHECK_DEADLOCK FALSE
