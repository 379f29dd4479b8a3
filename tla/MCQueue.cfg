CONSTANTS
  n1 = n1
  n2 = n2
  n3 = n3
  com = com
  action = action
  NULL = NULL
  NoObject = NULL
  Node <- MCNodes
  Lists <- MCLists
  Object <- MCNodes
  SizeWidth = 2
SPECIFICATION PooledSpec
SYMMETRY Symmetry
INVARIANTS
  TypeOK
  MirroredLinks
  NoNullDereference
  FreeObjectsUnlinked
PROPERTIES
  ImplementsFifo
  ImplementsPool
