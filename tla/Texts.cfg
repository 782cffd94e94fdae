CONSTANTS
  MaxStream = 5
  MaxOutput = 5
  MaxMessage = 6
  MaxProse = 6
  MaxSetting = 5
SPECIFICATION Spec
INVARIANTS RendersScreen BoundaryAtLineEnd  ScrubIsExact RedactionIsExact OneKindNests TextRoundTrips
CHECK_DEADLOCK FALSE
