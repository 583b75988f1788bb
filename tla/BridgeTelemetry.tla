-------------------------- MODULE BridgeTelemetry --------------------------
(***************************************************************************)
(* The telemetry behind GET /health (src/telemetry): counters, one ring of *)
(* recent latencies for each operation, and the layered status derived     *)
(* from them.  Latencies are whole milliseconds, differences of Date.now() *)
(* (below 0 when the clock is stepped back).                               *)
(***************************************************************************)
EXTENDS Integers, Sequences, FiniteSets, SequencesExt

CONSTANTS windowSize, \* samples a ring keeps
          Latency,    \* metric -> raw latencies that may be recorded
          NoValue,    \* null
          MaxSamples  \* bound: samples recorded and connections closed

Metric == {"connect", "reconnect", "list", "attach", "inputAck", "streamLag"}

ASSUME TelemetryAssumption ==
  /\ windowSize \in Nat \ {0}
  /\ Latency \in [Metric -> SUBSET Int]
  /\ NoValue \notin Int

VARIABLES windows,            \* metric -> its LatencyWindow
          connectionsClosed,
          samples             \* history variable: metric -> all samples, oldest first

telemetryVars == <<windows, connectionsClosed, samples>>

RingSlot == 0..(windowSize - 1)

createLatencyWindow ==
  [values |-> [i \in RingSlot |-> 0], size |-> 0, writeIndex |-> 0, totalCount |-> 0,
   totalMs |-> 0, minMs |-> NoValue, maxMs |-> 0, lastMs |-> 0]

sanitizeLatency(ms) == IF ms < 0 THEN 0 ELSE ms

\* recordLatency with the next place to write given.
RecordAt(window, value, next) ==
  [values |-> [i \in RingSlot |-> IF i = window.writeIndex THEN value ELSE window.values[i]],
   size |-> IF window.size < windowSize THEN window.size + 1 ELSE window.size,
   writeIndex |-> next,
   totalCount |-> window.totalCount + 1,
   totalMs |-> window.totalMs + value,
   minMs |-> IF window.minMs = NoValue \/ value < window.minMs THEN value ELSE window.minMs,
   maxMs |-> IF value > window.maxMs THEN value ELSE window.maxMs,
   lastMs |-> value]

\* Mutant: the ring wraps one sample late.
RecordWrapsLate(window, ms) ==
  RecordAt(window, sanitizeLatency(ms), (window.writeIndex + 1) % (windowSize + 1))

recordLatency(window, ms) ==
  RecordAt(window, sanitizeLatency(ms), (window.writeIndex + 1) % windowSize)

\* recent.sort((a, b) => a - b)
Ascending(s) ==
  LET order == CHOOSE p \in [DOMAIN s -> DOMAIN s] :
                 IsInjective(p) /\ \A i, j \in DOMAIN s : i < j => s[p[i]] <= s[p[j]]
  IN  [i \in DOMAIN s |-> s[order[i]]]

\* Nearest rank; Math.ceil is exact for the ratios and window sizes used.
percentile(sorted, percent) ==
  LET rank == (Len(sorted) * percent + 99) \div 100 IN
  sorted[IF rank < 1 THEN 1 ELSE rank]

\* roundMetric: two decimals, so an average is kept in hundredths.
roundedAverage(total, count) == (200 * total + count) \div (2 * count)

snapshotLatency(window) ==
  IF window.totalCount = 0
  THEN [count |-> 0, lastMs |-> NoValue, minMs |-> NoValue, maxMs |-> NoValue,
        avg |-> NoValue, p50Ms |-> NoValue, p95Ms |-> NoValue]
  ELSE LET recent == Ascending([i \in 1..window.size |-> window.values[i - 1]])
       IN  [count |-> window.totalCount, lastMs |-> window.lastMs, minMs |-> window.minMs,
            maxMs |-> window.maxMs, avg |-> roundedAverage(window.totalMs, window.totalCount),
            p50Ms |-> percentile(recent, 50), p95Ms |-> percentile(recent, 95)]
----------------------------------------------------------------------------
(* The status of /health                                                   *)

deriveLatencySeverity(p95Ms, warnAt, failAt) ==
  IF p95Ms = NoValue THEN "ok"
  ELSE IF p95Ms > failAt THEN "fail"
  ELSE IF p95Ms > warnAt THEN "warn" ELSE "ok"

\* Mutant: a warning of one layer hides the failure of another.
FirstSeverity(severities) ==
  IF "warn" \in severities THEN "warn" ELSE IF "fail" \in severities THEN "fail" ELSE "ok"

maxSeverity(severities) ==
  IF "fail" \in severities THEN "fail" ELSE IF "warn" \in severities THEN "warn" ELSE "ok"

buildBridgeStatusSnapshot(activeClients, p95, attachRequests, streamLagSamples) ==
  LET layers ==
        [transport |-> deriveLatencySeverity(p95["connect"], 500, 1000),
         runtime |-> IF activeClients > 0 /\ attachRequests = 0 THEN "warn" ELSE "ok",
         replay |-> deriveLatencySeverity(p95["streamLag"], 200, 500),
         safety |-> deriveLatencySeverity(p95["inputAck"], 250, 500),
         observability |-> IF streamLagSamples = 0 /\ activeClients > 0 THEN "warn" ELSE "ok"]
  IN  [layers |-> layers, overall |-> maxSeverity({layers[l] : l \in DOMAIN layers}),
       issues |-> {l \in DOMAIN layers : layers[l] # "ok"}]

\* Every counter of an operation goes up with its window's totalCount.
counters == [m \in Metric |-> windows[m].totalCount]

\* clients.size: the server adds a connection as it records its latency.
activeClients == counters["connect"] - connectionsClosed

getSafeSnapshot ==
  LET latencies == [m \in Metric |-> snapshotLatency(windows[m])] IN
  [latencies |-> latencies,
   status |-> buildBridgeStatusSnapshot(activeClients, [m \in Metric |-> latencies[m].p95Ms],
                                        counters["attach"], counters["streamLag"])]
----------------------------------------------------------------------------
TelemetryInit ==
  /\ windows = [m \in Metric |-> createLatencyWindow]
  /\ connectionsClosed = 0
  /\ samples = [m \in Metric |-> <<>>]

Taken == FoldFunction(LAMBDA s, n : Len(s) + n, connectionsClosed, samples)

\* recordConnectLatency, recordListLatency, ...
Record(m) ==
  /\ Taken < MaxSamples
  /\ \E ms \in Latency[m] :
       /\ windows' = [windows EXCEPT ![m] = recordLatency(@, ms)]
       /\ samples' = [samples EXCEPT ![m] = Append(@, sanitizeLatency(ms))]
  /\ UNCHANGED connectionsClosed

recordConnectionClosed ==
  /\ Taken < MaxSamples /\ activeClients > 0
  /\ connectionsClosed' = connectionsClosed + 1
  /\ UNCHANGED <<windows, samples>>

TelemetryNext == recordConnectionClosed \/ \E m \in Metric : Record(m)

TelemetrySpec == TelemetryInit /\ [][TelemetryNext]_telemetryVars
----------------------------------------------------------------------------
(* Properties                                                              *)

\* The samples a percentile is taken over: the last windowSize ones.
Recent(m) ==
  LET n == Len(samples[m]) IN SubSeq(samples[m], IF n > windowSize THEN n - windowSize + 1 ELSE 1, n)

\* The sum of s.
Total(s) ==
  LET upTo[n \in 0..Len(s)] == IF n = 0 THEN 0 ELSE upTo[n - 1] + s[n] IN upTo[Len(s)]

\* v is the percentile of s: the least sample that percent of s do not exceed.
IsPercentile(v, s, percent) ==
  LET upTo(x) == Cardinality({i \in DOMAIN s : s[i] <= x}) * 100 IN
  /\ v \in ToSet(s)
  /\ upTo(v) >= percent * Len(s)
  /\ \A x \in ToSet(s) : x < v => upTo(x) < percent * Len(s)

\* However often a ring has wrapped, /health reports the percentiles of the
\* last windowSize samples of an operation, and its extremes and average over
\* all of them.
SnapshotExact ==
  \A m \in Metric : samples[m] # <<>> =>
    LET snap == snapshotLatency(windows[m])
        all == ToSet(samples[m])
    IN  /\ IsPercentile(snap.p50Ms, Recent(m), 50) /\ IsPercentile(snap.p95Ms, Recent(m), 95)
        /\ snap.count = Len(samples[m]) /\ snap.lastMs = Last(samples[m])
        /\ snap.minMs \in all /\ snap.maxMs \in all
        /\ \A x \in all : snap.minMs <= x /\ x <= snap.maxMs
        /\ LET off == snap.avg * Len(samples[m]) - 100 * Total(samples[m])
           IN  2 * off <= Len(samples[m]) /\ 2 * off >= -Len(samples[m])

Over(m, limit) ==
  \E v \in ToSet(Recent(m)) : v > limit /\ IsPercentile(v, Recent(m), 95)

\* The status is not sticky and hides nothing: /health fails exactly while the
\* recent connects, first outputs or inputs are over their limit, whatever was
\* recorded before; clients without any first output are at least a warning.
FailsWhileSlow ==
  LET status == getSafeSnapshot.status IN
  /\ status.overall = "fail" <=> Over("connect", 1000) \/ Over("streamLag", 500) \/ Over("inputAck", 500)
  /\ samples["streamLag"] = <<>> /\ activeClients > 0 => status.overall # "ok"
============================================================================
