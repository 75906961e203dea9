SPECIFICATION Spec
CONSTANTS
  Requests = {"erase", "dump", "poke", "flash", "burn"}
  Kind <- MCKind
  Page <- MCPage
  LINE_CHARS = 2
  PAYLOAD = 2
  None = "none"
  INCIDENTS = 1
  LOAD = 2
  Patient = TRUE
INVARIANTS TypeOK InFlight AnswersOwn FlashSafe NeverEaten InStep
PROPERTIES WrittenMeansStored Answered
CHECK_DEADLOCK FALSE
