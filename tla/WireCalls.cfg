SPECIFICATION Spec
CONSTANTS
  Ids = {i1, i2, i3}
  Versions = {7}
  MaxSent = 1
SYMMETRY Symmetry
INVARIANTS
  TypeOK
  NeverWrong
  SameObjects
  EventsFindProxy
CHECK_DEADLOCK FALSE
