SPECIFICATION VisibleSpec
CONSTANTS
  NumBuffers = 3
  Gen = {g1}
  Callback = {c1, c2, c3, c4}
  Size = {small}
  None = None
  MayFail = FALSE
  PromptRelease = TRUE
  MaxUnread = 1
  Spontaneous = {"configure"}
CHECK_DEADLOCK FALSE
INVARIANT AlwaysABufferAvailable
