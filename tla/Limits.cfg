\* One connection whose grants cross several windows; rings of three samples
\* (MaxSamples ends the recording, so a behaviour may stop).
SPECIFICATION LimitsSpec
CONSTANTS
  Key = {k1}
  maxEvents = 2
  windowMs = 2
  MaxTime = 7
  windowSize = 3
  Latency <- MCLatency
  NoValue = NoValue
  MaxSamples = 5
CHECK_DEADLOCK FALSE
INVARIANTS
  WindowBound
  SnapshotExact
  FailsWhileSlow
PROPERTIES
  RetryAfterSuffices
