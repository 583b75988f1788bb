\* One connection and a rival for its pane; two handlers at the same time.
SPECIFICATION IntakeSpec
CONSTANTS
  None = None
  Client = {c1}
  Rival = Rival
  Pane = {"p1"}
  Handler = {h1, h2}
  Frame <- MCFrame
  Config <- MCConfig
  Replay <- MCReplay
  Failure <- MCFailure
  maxInputBytes = 2
CHECK_DEADLOCK FALSE
INVARIANTS
  PolicyTold
  AuditTrue
PROPERTIES
  SendsOnlyAsWished
  Answered
