\* Two connections share the watcher of one pane; attaches overlap.
SPECIFICATION Spec
CONSTANTS
  a = a
  b = b
  Client = {c1, c2}
  Pane = {p1}
  Line = {a, b}
  Text <- MCTextSmall
  MaxHistory = 1
  MaxWatchers = 1
  MaxCalls = 2
  MaxEdits = 2
  MaxUnread = 0
SYMMETRY Symmetry
INVARIANTS
  ViewExact
  NoSilentLoss
