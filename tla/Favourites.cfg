CONSTANTS
  Tracks = {a, b}
  Requests = {r1, r2, r3}
  None = None
SPECIFICATION Spec
SYMMETRY Symmetry
CONSTRAINT Bounded
INVARIANTS TypeOK  
CHECK_DEADLOCK FALSE
