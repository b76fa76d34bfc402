SPECIFICATION Spec
CONSTANTS
  Alignment = 2
  PageSize = 4
  Word = 64
  Base = 16
  UserEnd = 32
  VirtualSize = {0, 5, 63}
  InitialCommit = {0, 3, 16}
  RequestSize = {0, 3, 9}
  Fill = {1}
  Any = Any
CHECK_DEADLOCK FALSE
INVARIANT TypeOK
INVARIANT CommittedExactly
INVARIANT BlocksUsable
INVARIANT BlocksDisjoint
INVARIANT ContentsKept
