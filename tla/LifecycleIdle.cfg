SPECIFICATION Spec
CONSTANTS
  NumBuffers = 3
  MayFail = TRUE
INVARIANTS
  IdleWhenFreed
CHECK_DEADLOCK FALSE
