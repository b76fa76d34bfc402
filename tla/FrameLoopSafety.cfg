SPECIFICATION Spec
CONSTANTS
  NumBuffers = 2
  Gen = {g1, g2}
  Callback = {c1, c2}
  Size = {small, large}
  None = None
  MayFail = TRUE
  PromptRelease = FALSE
  MaxUnread = 1
  Spontaneous = {"configure"}
SYMMETRY Identities
VIEW Relevant
CHECK_DEADLOCK FALSE
INVARIANT TypeOK
INVARIANT NoTearing
INVARIANT NoDanglingCallback
INVARIANT CommitKeepsUp
INVARIANT FenceGuardsCommands
INVARIANT GpuOwnsPending
INVARIANT NoLostDone
PROPERTY ImplementsOwnership
