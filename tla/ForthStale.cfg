SPECIFICATION Spec
CONSTANTS
  Requests = {"read"}
  Kind <- MCKind
  Page <- MCPage
  LINE_CHARS = 3
  PAYLOAD = 1
  None = "none"
  INCIDENTS = 0
  LOAD = 1
  Patient = TRUE
INVARIANT Framed
CHECK_DEADLOCK FALSE
