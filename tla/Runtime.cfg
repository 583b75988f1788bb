\* One connection and every backend; startup, adapters, multiplexer, shutdown.
SPECIFICATION Spec
CONSTANTS
  None = None
  Blank = Blank
  Reject = Reject
  Env <- MCEnv
  Ops = {o1, o2}
  Token <- MCToken
  Line = {"", "a", "b"}
  PaneId <- MCPaneId
  Text <- MCText
  RawPanes <- MCRawPanes
  CmuxReply <- MCCmuxReply
  MaxChanges = 1
INVARIANTS PinnedFirst TypedInOrder ListingRoutesBack
PROPERTIES Fit OpsSettle
