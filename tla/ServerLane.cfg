\* Two connections contend for two panes, each may attach one; leases expire.
SPECIFICATION Spec
CONSTANTS
  NoOne = NoOne
  Client = {c1, c2}
  Pane = {p1, p2}
  requiresAuth = TRUE
  globalInputDisabled = FALSE
  AllowOverride = FALSE
  maxAttachedPanes = 1
  leaseDurationMs = 2
  Pieces = 2
  MaxClock = 3
  MaxSends = 1
  MaxAttaching = 1
SYMMETRY Symmetry
CHECK_DEADLOCK FALSE
INVARIANTS
  LaneOwnerAttached
  StreamedOnlyToAttached
PROPERTIES
  LaneImplemented
