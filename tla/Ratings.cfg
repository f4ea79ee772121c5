CONSTANTS
  Requests = {r1, r2, r3}
SPECIFICATION Spec
SYMMETRY Symmetry
CONSTRAINT Bounded
INVARIANTS TypeOK 
PROPERTIES VotesDecide
CHECK_DEADLOCK FALSE
