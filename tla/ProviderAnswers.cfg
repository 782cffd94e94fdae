CONSTANTS
  Words = {w1}
  Control = ctl
  None = none
  MaxEvents = 1
  MaxPieces = 1
  MaxRequests = 2
  MaxFragments = 1
  MessageCost = 1
  SafeLimit = 3
SPECIFICATION CSpec
INVARIANTS CTypeOK StreamIsLive CommittedInFull
PROPERTIES ImplementsWindow RequestEnds CancelledEnds
CHECK_DEADLOCK FALSE
