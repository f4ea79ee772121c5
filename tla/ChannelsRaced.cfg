CONSTANTS
  a = a
  b = b
  c = c
  None = None
  Requests <- TwoRequests
  Kind <- TwoKinds
  WireIds = 2
  MaxData = 1
SPECIFICATION Spec
INVARIANTS TypeOK
PROPERTIES ImplementsCalls  LateRepliesCleanUp
CHECK_DEADLOCK FALSE
