SPECIFICATION Spec
CONSTANTS
  Alignment = 2
  PageSize = 4
  Word = 64
  Base = 16
  UserEnd = 32
  VirtualSize = {8}
  InitialCommit = {0, 3, 16}
  RequestSize = {1, 5}
  Fill = {1, 2}
  Any = Any
CHECK_DEADLOCK FALSE
PROPERTY ResetZeroes
