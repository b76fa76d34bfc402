SPECIFICATION HiddenSpec
CONSTANTS
  NumBuffers = 2
  Gen = {g1}
  Callback = {c1, c2}
  Size = {small}
  None = None
  MayFail = FALSE
  PromptRelease = TRUE
  MaxUnread = 1
  Spontaneous = {"ping"}
CHECK_DEADLOCK FALSE
PROPERTY PingAlwaysAnswered
