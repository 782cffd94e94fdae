CONSTANTS
  Words = {w1}
  Control = ctl
  None = none
  MaxEvents = 2
  MaxPieces = 1
  MaxRequests = 3
  MaxFragments = 0
  MessageCost = 1
  SafeLimit = 100
SPECIFICATION HSpec
PROPERTIES RedactedStaysOut
CHECK_DEADLOCK FALSE
