CONSTANTS
  c1 = c1
  c2 = c2
  w1 = w1
  w2 = w2
  n1 = n1
  n2 = n2
  NULL = NULL
  SELECTOR = SELECTOR
  Node <- MCClients
  Workers <- TwoWorkers
  Nodenames <- MCNodenames
  Requests <- GoodRequests
  MaxConnects = 3
  MaySignal = TRUE
  OsMayFail = FALSE
SPECIFICATION Spec
SYMMETRY Symmetry
INVARIANTS
  ActiveClientsSelected
  
  NoLostNotify
  AcceptAllocates
PROPERTIES
  ClosedAfterReply
