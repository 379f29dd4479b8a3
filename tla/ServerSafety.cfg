CONSTANTS
  c1 = c1
  c2 = c2
  w1 = w1
  w2 = w2
  n1 = n1
  n2 = n2
  NULL = NULL
  SELECTOR = SELECTOR
  Node <- MCClients
  Workers <- TwoWorkers
  Nodenames <- MCNodenames
  Requests <- HostileRequests
  MaxConnects = 2
  MaySignal = TRUE
  OsMayFail = TRUE
SPECIFICATION Spec
SYMMETRY Symmetry
INVARIANTS
  TypeOK
  
  
  
  WakeupPipeOpen
  
 
