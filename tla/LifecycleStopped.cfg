SPECIFICATION Spec
CONSTANTS
  NumBuffers = 3
  MayFail = TRUE
INVARIANTS
  EventStopped
CHECK_DEADLOCK FALSE
