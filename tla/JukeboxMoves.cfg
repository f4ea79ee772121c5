CONSTANTS
  Tracks = {a, b}
  BufferSize = 2
  Workers = {w1, w2, w3, w4}
  Users = {u}
  None = None
  Repeats = FALSE
SPECIFICATION AnsweredSpec
INVARIANTS TypeOK HeadPlays
 
CHECK_DEADLOCK FALSE
