\* Two connections of one client, overlapping or not, and two requests; the
\* page with two sockets, one pane and one request at a time.
SPECIFICATION ClientsSpec
CONSTANTS
  MaxSockets = 2
  MaxRequests = 2
  MaxCalls = 2
  MaxWire = 2
  MaxOutputs = 1
  WebSocket = {w1, w2}
  WebPane = {p1}
  Null = Null
  MaxPending = 1
CHECK_DEADLOCK FALSE
INVARIANTS
  NoLostPromise
  OneConnection
  WebRetries
PROPERTIES
  CallsSettle
  WebInputAsTold
