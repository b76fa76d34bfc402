SPECIFICATION VisibleSpec
CONSTANTS
  NumBuffers = 2
  Gen = {g1}
  Callback = {c1, c2}
  Size = {small}
  None = None
  MayFail = TRUE
  PromptRelease = TRUE
  MaxUnread = 1
  Spontaneous = {"configure"}
CHECK_DEADLOCK FALSE
PROPERTY FailureEndsRun
