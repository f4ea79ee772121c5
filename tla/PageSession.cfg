CONSTANTS
  MaxLogins = 2
  MaxClicks = 1
SPECIFICATION FairSpec
INVARIANTS TypeOK OneChain FormsMatchSession
PROPERTIES PollsGoOn ExpiryShown
CHECK_DEADLOCK FALSE
