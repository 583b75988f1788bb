------------------------------ MODULE MCIntake ------------------------------
(***************************************************************************)
(* Instance of MessageIntake: a frame of each kind, the malformed ones,    *)
(* and the configurations that change how they are taken.                  *)
(***************************************************************************)
EXTENDS MessageIntake, TLC

Undefined == [t |-> "undefined"]
Str(trim) == [t |-> "string", trim |-> trim, padded |-> FALSE, int |-> None, bool |-> None]
Padded(trim) == [Str(trim) EXCEPT !.padded = TRUE]
Bool(b) == [t |-> "boolean", bool |-> b]
Data(bytes) == [t |-> "string", bytes |-> bytes]

Id == [t |-> "string", trim |-> "r", padded |-> FALSE, len |-> 1, printable |-> TRUE]

Of(type, payload) ==
  [kib |-> 1, json |-> "object", v |-> 1, type |-> Str(type), timestamp |-> TRUE,
   payload |-> payload, requestId |-> Id]

InputOf(p, bytes, override) ==
  [NoFields EXCEPT !.paneId = Str(p), !.data = Data(bytes), !.override = override]

Requests ==
  {Of("auth", [NoFields EXCEPT !.token = Padded("secret")]),
   Of("auth", [NoFields EXCEPT !.token = Str("wrong")]),
   Of("list_sessions", NoFields), Of("enable_input", NoFields), Of("disable_input", NoFields),
   Of("disconnect", NoFields), Of("heartbeat", NoFields), Of("attach", NoFields),
   Of("detach", NoFields), Of("output", NoFields)}
  \cup UNION {{Of("attach", [NoFields EXCEPT !.paneId = Str(p)]),
               Of("attach", [NoFields EXCEPT !.paneId = Padded(p),
                                             !.lastSeq = [Str("9th") EXCEPT !.int = 9]]),
               Of("detach", [NoFields EXCEPT !.paneId = Str(p)]),
               Of("input", InputOf(p, 1, Undefined)),
               Of("input", InputOf(p, 1, [Str("yes") EXCEPT !.bool = TRUE])),
               Of("input", InputOf(p, 3, Bool(TRUE))),
               Of("input", [NoFields EXCEPT !.paneId = Str(p)])} : p \in Pane}

\* One frame for each way to be rejected, and two that only look malformed.
Malformed ==
  LET beat == Of("heartbeat", NoFields) IN
  {[beat EXCEPT !.kib = 65], [beat EXCEPT !.json = "invalid"], [beat EXCEPT !.json = "other"],
   [beat EXCEPT !.type = Undefined], [beat EXCEPT !.v = 2], [beat EXCEPT !.timestamp = FALSE],
   [beat EXCEPT !.type = Str("zoom")], [beat EXCEPT !.payload = None],
   [beat EXCEPT !.requestId = [Id EXCEPT !.len = 129]],
   [Of("disable_input", NoFields) EXCEPT !.requestId = None],
   [Of("disable_input", NoFields) EXCEPT !.requestId = None, !.type = Padded("disable_input")]}

MCFrame == Requests \cup Malformed

Base ==
  [authToken |-> None, globalInputDisabled |-> FALSE, strictProtocolParsing |-> TRUE,
   maxAttachedPanes |-> 1, allowInputOwnershipOverride |-> TRUE, auditLog |-> TRUE]

MCConfig ==
  {Base, [Base EXCEPT !.authToken = "secret", !.strictProtocolParsing = FALSE],
   [Base EXCEPT !.globalInputDisabled = TRUE, !.allowInputOwnershipOverride = FALSE,
                !.auditLog = FALSE]}

Meta(requested, used, count, snapshot, latest, oldest, gap) ==
  [requestedLastSeq |-> requested, replayUsed |-> used, replayedCount |-> count,
   fallbackToSnapshot |-> snapshot, latestSeq |-> latest, oldestHistorySeq |-> oldest,
   replayGapDetected |-> gap]

MCReplay ==
  {Meta(None, FALSE, 0, FALSE, 3, 1, FALSE),
   Meta(9, TRUE, 2, FALSE, 11, 5, FALSE), Meta(9, FALSE, 0, TRUE, 3, 1, FALSE),
   Meta(9, FALSE, 0, TRUE, 99, 40, TRUE), Meta(9, FALSE, 0, TRUE, 9, 5, FALSE)}

MCFailure == {{"error connecting to", "timed out"}, {"unknown runtime backend"}}

=============================================================================
