------------------------------ MODULE MCLimits ------------------------------
(***************************************************************************)
(* Small instances, for TLC, of the two bounded histories the server keeps *)
(* in memory: a limiter's window and the telemetry's rings.  They share no *)
(* state, so a behaviour has steps of one of them only.                    *)
(***************************************************************************)
EXTENDS SlidingWindowRateLimiter, BridgeTelemetry

VARIABLE part

MCLatency ==
  [m \in Metric |-> IF m \in {"connect", "streamLag", "inputAck"} THEN {-1, 300, 600, 1200} ELSE {7}]

LimitsInit == Init /\ TelemetryInit /\ part \in {"limiter", "telemetry"}

LimitsNext ==
  \/ part = "limiter" /\ Next /\ UNCHANGED <<part, telemetryVars>>
  \/ part = "telemetry" /\ TelemetryNext /\ UNCHANGED <<part, vars>>

LimitsSpec == LimitsInit /\ [][LimitsNext]_<<vars, telemetryVars, part>>
=============================================================================
