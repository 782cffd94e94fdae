CONSTANTS
  MaxStream = 0
  MaxOutput = 0
  MaxMessage = 0
  MaxProse = 6
  MaxSetting = 0
SPECIFICATION Spec
INVARIANTS MarkupIsSafe
CHECK_DEADLOCK FALSE
