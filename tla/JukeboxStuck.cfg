CONSTANTS
  Tracks = {a, b}
  BufferSize = 2
  Workers = {w1, w2, w3}
  Users = {}
  None = None
  Repeats = TRUE
SPECIFICATION AnsweredSpec
CONSTRAINT Bounded
PROPERTIES UpcomingTracksLeave
CHECK_DEADLOCK FALSE
