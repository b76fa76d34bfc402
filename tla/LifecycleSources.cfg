SPECIFICATION Spec
CONSTANTS
  NumBuffers = 3
  MayFail = TRUE
INVARIANTS
  EventReadyBeforeRun
CHECK_DEADLOCK FALSE
