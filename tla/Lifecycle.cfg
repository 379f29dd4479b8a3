CONSTANTS
  MAIN = main
  Workers = {w1, w2}
  NOBODY = nobody
  Keys <- MCKeys
  Capacity <- MCCapacity
  CommandLines <- MCCommandLines
  MaxJobs = 2
  MaxSignals = 2
SPECIFICATION Spec
CHECK_DEADLOCK FALSE
INVARIANTS
  TypeOK
  Lifetimes
  HandlerWritesOpenPipe
 
