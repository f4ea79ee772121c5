CONSTANTS
  Tracks = {a, b}
  BufferSize = 2
  Workers = {w1, w2, w3}
  Users = {}
  None = None
  Repeats = TRUE
SPECIFICATION Spec
SYMMETRY Symmetry
CONSTRAINT Bounded
INVARIANTS  Attended
CHECK_DEADLOCK FALSE
