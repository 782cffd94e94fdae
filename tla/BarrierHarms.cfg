CONSTANTS
  MaxChunks = 2
  MaxKeys = 1
  DisplayRoom = 1
  MaxSyncs = 2
  MaxRedraws = 0
SPECIFICATION SSpec
PROPERTIES BarriersAreHarmless
CHECK_DEADLOCK FALSE
