CONSTANTS
  Prose = {p1, p2}
  None = none
  LineEnds = {"crlf"}
  MaxLines = 3
  MaxInputs = 2
SPECIFICATION Spec
INVARIANTS UntaggedIsInert
CHECK_DEADLOCK FALSE
