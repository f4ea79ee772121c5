CONSTANTS
  Downloads = {d1, d2}
  Parts = 2
  FileParts = 3
SPECIFICATION Spec
INVARIANTS AllBytes
CHECK_DEADLOCK FALSE
