\* One connection on two panes: the poll loop crosses its attaches, and
\* continuations of a dropped watcher cross those of its successor.
SPECIFICATION Spec
CONSTANTS
  a = a
  b = b
  Client = {c1}
  Pane = {p1, p2}
  Line = {a, b}
  Text <- MCTextSmall
  MaxHistory = 2
  MaxWatchers = 2
  MaxCalls = 2
  MaxEdits = 1
  MaxUnread = 0
SYMMETRY SymmetryPanes
INVARIANTS
  PolledWhileWatched
