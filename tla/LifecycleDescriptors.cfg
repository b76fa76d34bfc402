SPECIFICATION Spec
CONSTANTS
  NumBuffers = 3
  MayFail = TRUE
INVARIANTS
  ClosesOwnDescriptors
CHECK_DEADLOCK FALSE
