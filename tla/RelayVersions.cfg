\* Every start of the relay, in which no TLS version need be set.
SPECIFICATION RelaySpec
CONSTANTS
  Conn = {c1}
  maxConnections = 2
  IdleTimeout = 1
  MaxPendingMessages = 1
  MaxPendingBytes = 1
  Size = {1}
  MaxMessages <- MCMaxMessages
  MaxDown = 1
  None = None
  Empty = Empty
  Blank = Blank
  Junk = Junk
  File <- MCFile
  Argv <- MCArgv
  Env <- MCEnv
  Request <- MCRequest
  MaxRotations = 1
CHECK_DEADLOCK FALSE
INVARIANT
  VersionsOptional
