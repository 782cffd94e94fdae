CONSTANTS
  MaxChunks = 3
  MaxKeys = 1
  DisplayRoom = 1
  MaxSyncs = 2
  MaxRedraws = 1
SPECIFICATION SSpec
INVARIANTS TypeOK StreamIsIntact ShownIsCaptured ScreenIsRead OnlyBarriersStall
PROPERTIES BarrierCovers KeysMove ExitIsNoticed LossIsNoticed
CHECK_DEADLOCK FALSE
