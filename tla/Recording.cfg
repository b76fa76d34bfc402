SPECIFICATION Spec
CONSTANTS
  Color = {red, green, blue}
  None = None
  MaxClears = 3
INVARIANTS
  LastColorShown
  ClearsInLayout
CHECK_DEADLOCK FALSE
