CONSTANTS
  Words = {w1}
  Control = ctl
  None = none
  MaxEvents = 1
  MaxPieces = 1
  MaxRequests = 1
  MaxFragments = 1
  MessageCost = 1
  SafeLimit = 3
SPECIFICATION CSpec
INVARIANTS CommittedComplete
CHECK_DEADLOCK FALSE
