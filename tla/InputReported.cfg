SPECIFICATION FairSpec
CONSTANTS
  Seat = {s1}
  Key = {1, 30}
  TableSize = 256
  Position = {0, 1}
  Origin = 0
  MaxProxies = 2
  MaxEvents = 3
INVARIANTS
  TypeOK
  KeysReported
  FocusReported
  PositionReported
PROPERTIES
  NoStuckKey
CHECK_DEADLOCK FALSE
