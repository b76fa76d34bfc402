SPECIFICATION Spec
CONSTANTS
  Seat = {s1, s2}
  Key = {30}
  TableSize = 256
  Position = {0}
  Origin = 0
  MaxProxies = 2
  MaxEvents = 3
INVARIANTS
  HeldKeyShown
CHECK_DEADLOCK FALSE
