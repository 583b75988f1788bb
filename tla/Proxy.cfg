\* A request and other callers over a cache of two agents, while the settings change.
SPECIFICATION Spec
CONSTANTS
  None = None
  Relative = Relative
  Request = {r1}
  Target <- MCTarget
  Input <- MCInput
  Environment <- MCEnvironment
  MaxEntries = 2
  MaxResponse = 1
  MaxAgents = 3
  MaxResolves = 2
CHECK_DEADLOCK FALSE
INVARIANTS
  CacheIsRecent
  ControllerHonest
  ExplanationTrue
  RequestsWatched
