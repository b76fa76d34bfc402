SPECIFICATION Spec
CONSTANTS
  Seat = {s1}
  Key = {30, 352}
  TableSize = 256
  Position = {0}
  Origin = 0
  MaxProxies = 2
  MaxEvents = 3
INVARIANTS
  CodesFitTable
CHECK_DEADLOCK FALSE
