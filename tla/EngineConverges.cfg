\* Two connections whose attaches overlap, under fairness.
SPECIFICATION FairSpec
CONSTANTS
  a = a
  b = b
  Client = {c1, c2}
  Pane = {p1}
  Line = {a, b}
  Text <- MCTextSmall
  MaxHistory = 1
  MaxWatchers = 1
  MaxCalls = 2
  MaxEdits = 1
  MaxUnread = 0
PROPERTIES
  Converges
