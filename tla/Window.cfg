CONSTANTS
  Words = {w1}
  Control = ctl
  None = none
  MaxEvents = 4
  MaxPieces = 1
  MaxRequests = 3
  MaxFragments = 0
  MessageCost = 1
  SafeLimit = 6
SPECIFICATION HSpec
INVARIANTS TypeOK TurnsAreWhole InFlightAgrees DeliveryInv AtMostOnce NothingSkipped UnseenOnlyByBaseline
PROPERTIES OwedIsDelivered BoundaryIsSettled ImplementsConversation SendEnds FinishArrives
CHECK_DEADLOCK FALSE
