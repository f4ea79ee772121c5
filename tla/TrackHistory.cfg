CONSTANTS
  Amount = 1
  MaxPlays = 5
SPECIFICATION Spec
INVARIANTS TypeOK RowsOver InOrder 
PROPERTIES ChangeListed
CHECK_DEADLOCK FALSE
