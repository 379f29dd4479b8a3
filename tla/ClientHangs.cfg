CONSTANTS
  k1 = k1
  k2 = k2
  n1 = n1
  Clients <- OneClient
  Nodenames <- MCNodenames
  CommandLines <- OffOrStatus
  HEADER_SIZE = 2
  FIELDS_SIZE = 2
  NetMayFail = TRUE
  NoRequest <- MCNoRequest
  NoCall <- MCNoCall
SPECIFICATION FairSpec
PROPERTY BrokenConnectionEndsClient
