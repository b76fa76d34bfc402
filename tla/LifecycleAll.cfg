SPECIFICATION Spec
CONSTANTS
  NumBuffers = 3
  MayFail = TRUE
INVARIANTS
  TypeOK
  FreedOnce
  DependantsFirst
  NothingLeft
  ScratchReturned
  CompleteWhenUsed
PROPERTIES
  ForeignCloseIsPartial
CHECK_DEADLOCK FALSE
