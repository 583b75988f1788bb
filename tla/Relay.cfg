\* Two clients, which refused handshakes may shut out; every way a session ends;
\* a relay started in every way, whose TLS files are replaced once.
SPECIFICATION RelaySpec
CONSTANTS
  Conn = {c1, c2}
  maxConnections = 2
  IdleTimeout = 1
  MaxPendingMessages = 2
  MaxPendingBytes = 2
  Size = {1, 2}
  MaxMessages <- MCMaxMessages
  MaxDown = 1
  None = None
  Empty = Empty
  Blank = Blank
  Junk = Junk
  File <- MCFile
  Argv <- MCArgv
  Env <- MCEnv
  Request <- MCRequest
  MaxRotations = 1
CHECK_DEADLOCK FALSE
INVARIANTS
  InOrder
  BacklogBounded
  StatsExact
  BytesExact
  TokenHonoured
PROPERTIES
  SessionsEnd
  RotationReported
