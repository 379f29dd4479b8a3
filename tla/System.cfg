CONSTANTS
  k1 = k1
  k2 = k2
  n1 = n1
  Clients <- TwoClients
  Nodenames <- MCNodenames
  CommandLines <- EveryAction
  HEADER_SIZE = 2
  FIELDS_SIZE = 2
  NetMayFail = TRUE
  NoRequest <- MCNoRequest
  NoCall <- MCNoCall
SPECIFICATION FairSpec
INVARIANTS
  TypeOK
  ExitTellsVerdict
PROPERTIES
  ClientEnds
