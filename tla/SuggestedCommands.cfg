CONSTANTS
  Prose = {p1}
  None = none
  LineEnds = {"lf", "crlf", "cr"}
  MaxLines = 4
  MaxInputs = 1
SPECIFICATION Spec
INVARIANTS NothingIsLost CommandsAreFenced OneLineCommandsWait
PROPERTIES CommandsOnlyGrow
CHECK_DEADLOCK FALSE
