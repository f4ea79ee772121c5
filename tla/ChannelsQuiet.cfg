CONSTANTS
  a = a
  b = b
  c = c
  None = None
  Requests <- ThreeRequests
  Kind <- ThreeKinds
  WireIds = 3
  MaxData = 1
SPECIFICATION Spec
INVARIANTS IInv OwnReply  ReturnedUnregistered
PROPERTIES ResultFinal
CONSTRAINT Quiet
CHECK_DEADLOCK FALSE
