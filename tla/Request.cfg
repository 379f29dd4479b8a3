CONSTANTS
  BASE = 5
  HEADER_SIZE = 4
  IO_BUFFER_SIZE = 15
  SPLIT = 1
  Keys <- MCKeys
  Capacity <- MCCapacity
  FenceActions <- MCFenceActions
  Lines <- MCLines
  MaxLines = 5
  OtherMessages <- MCOtherMessages
  MaxSent = 3
  NODENAME <- MCNodename
  SECRET <- MCSecret
  NODENAME_SIZE = 2
  MAX_SECRET_LENGTH = 1
  ECHO_REQUEST = 0
  ECHO_REPLY = 1
  FENCE_SUCCESS = 20
  FENCE_FAIL = 21
SPECIFICATION Spec
CHECK_DEADLOCK FALSE
INVARIANTS
  TypeOK
  ReadsWithinBuffer
  NamedNodeFenced
  FieldsSpellMessage
  MessagesInOrder
  VerdictReturned
  KilledByUnendedLine
PROPERTY RequestReachesPlugin
