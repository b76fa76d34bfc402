SPECIFICATION VisibleSpec
CONSTANTS
  NumBuffers = 2
  Gen = {g1, g2}
  Callback = {c1, c2}
  Size = {small, large}
  None = None
  MayFail = FALSE
  PromptRelease = TRUE
  MaxUnread = 1
  Spontaneous = {"configure"}
CHECK_DEADLOCK FALSE
INVARIANT FenceOwed
INVARIANT ChainAlive
PROPERTY NextFrame
