--------------------------- MODULE MessageIntake ---------------------------
(***************************************************************************)
(* How the server takes a message (src/server/bridge-server.ts): limiter,  *)
(* parser, handler, and the catch that turns an exception into an error    *)
(* envelope; with the audit trail, the policy told to clients and the      *)
(* attaches whose first output telemetry waits for.                        *)
(*                                                                         *)
(* A handler runs up to its first await; each awaited call (the runtime,   *)
(* an audit line) ends in its own time, so the handlers of one connection  *)
(* overlap and may overtake each other.  `todo` holds the awaits a handler *)
(* has left; the last entry is its answer, sent in the step of the await   *)
(* before it.  A slot is used again once its handler has ended.  Limiter   *)
(* verdicts (module SlidingWindowRateLimiter) are a choice, and leases     *)
(* (module BridgeServer) end at any time.                                  *)
(***************************************************************************)
EXTENDS RelayProtocol, FiniteSets, SequencesExt

CONSTANTS Client,      \* connections
          Rival,       \* a connection of which only its claims of lanes are modelled
          Pane,
          Handler,     \* bound: handlers that run at the same time
          Frame,       \* frames that clients send
          Config,      \* configurations
          Replay,      \* replay metadata that engine.attach may return
          Failure,     \* errors the runtime may throw: the phrases they hold
          maxInputBytes

VARIABLES config,
          phase,             \* client -> "new", "open", "closing" (no sends), "closed"
          authenticated, inputEnabled, attachedPanes,
          paneOwners,        \* pane -> client, Rival or None
          streamed,          \* client -> panes the engine streams to it
          pendingAttachLag,  \* <<client, pane>> of attaches without output yet
          slot,              \* handler -> its record
          told,              \* client -> inputEnabled in the last policy it was sent,
                             \* None after it asked to disconnect
          wish               \* history: client -> what its requests add up to

intakeVars == <<config, phase, authenticated, inputEnabled, attachedPanes, paneOwners, streamed,
          pendingAttachLag, slot, told, wish>>

\* client: whose message; audited: the lines its audit.write calls were for; lost:
\* an input's lines whose append failed; took: an override changed the lane; answer:
\* None, or whether it could be sent.
Idle ==
  [client |-> None, todo |-> <<>>, pane |-> None, lastSeq |-> None, audited |-> {}, lost |-> {},
   typed |-> FALSE, took |-> FALSE, answer |-> None]

\* What is remembered of a handler that has ended.
Finished(s, sent) ==
  [Idle EXCEPT !.typed = s.typed, !.took = s.took, !.answer = IF sent THEN "sent" ELSE "unsent",
               !.audited = IF s.typed \/ s.took THEN s.audited ELSE {},
               !.lost = IF s.typed \/ s.took THEN s.lost ELSE {}]

NoWish == [proved |-> FALSE, enable |-> FALSE, panes |-> {}]

IntakeInit ==
  /\ config \in Config
  /\ phase = [c \in Client |-> "new"]
  /\ authenticated = [c \in Client |-> FALSE]
  /\ inputEnabled = [c \in Client |-> FALSE]
  /\ attachedPanes = [c \in Client |-> {}]
  /\ paneOwners = [p \in Pane |-> None]
  /\ streamed = [c \in Client |-> {}]
  /\ pendingAttachLag = {}
  /\ slot = [h \in Handler |-> Idle]
  /\ told = [c \in Client |-> FALSE]
  /\ wish = [c \in Client |-> NoWish]
----------------------------------------------------------------------------
(* Steps of a handler                                                      *)

Audit(action) == [do |-> "audit", action |-> action]
Reply(code) == [do |-> "reply", code |-> code]
Call(op) == [do |-> op]

isInputAllowed(c) == inputEnabled[c] /\ ~config.globalInputDisabled

\* Mutant: the answer repeats what was asked.
PolicyAsked(c, s) == "enable_input" \in s.audited

\* sendPolicyUpdateEnvelope: what holds when it is sent.
buildInputPolicyState(c, s) == isInputAllowed(c)

sendEnvelope(c) == phase[c] = "open"

\* Go on with `rest` after an await, or answer.  The answer of an audited
\* policy change is a policy_update.
Proceed(h, s, rest) ==
  LET c == s.client
      sent == rest[1].do = "reply" /\ sendEnvelope(c)
      policy == sent /\ rest[1].code = "policy_update"
  IN
  /\ slot' = [slot EXCEPT ![h] =
       IF rest[1].do # "reply" THEN [s EXCEPT !.todo = rest]
       ELSE Finished(s, sent)]
  /\ told' = IF policy THEN [told EXCEPT ![c] = buildInputPolicyState(c, s)] ELSE told

\* The catch block: classify, audit, answer.
isTmuxSessionUnavailable(text) ==
  text \cap {"no server running", "error connecting to", "failed to connect to server"} # {}

isTransportDrop(text) ==
  text \cap {"broken pipe", "connection reset", "connection closed", "econnreset",
             "ehostunreach", "econnrefused", "etimedout", "timed out"} # {}

classifyBridgeRuntimeFailure(text) ==
  IF text \cap {"invalid_token", "auth_required"} # {} THEN "auth_rejected"
  ELSE IF isTmuxSessionUnavailable(text) THEN "runtime_session_unavailable"
  ELSE IF isTransportDrop(text) THEN "transport_drop"
  ELSE IF text \cap {"unknown runtime backend", "must be namespaced"} # {}
       THEN "invalid_pane_target"
  ELSE "handler_failed"

\* Mutant: nothing catches the exception.
Uncaught(h, text) == slot' = [slot EXCEPT ![h].todo = <<>>]

Catch(h, text) ==
  slot' = [slot EXCEPT ![h].todo =
             <<Audit("runtime_failure"), Reply(classifyBridgeRuntimeFailure(text))>>]
----------------------------------------------------------------------------
(* handleClientMessage: the state it changes before its first await, and   *)
(* the awaits that follow.                                                 *)

sessionVars == <<authenticated, inputEnabled, attachedPanes>>

tokenEquals(expected, candidate) == expected = candidate

Auth(h, c, payload) ==
  LET granted == \/ config.authToken = None
                 \/ tokenEquals(config.authToken, parseNonEmptyString(payload.token))
      code == IF granted THEN "auth_ok" ELSE "auth_error"
  IN
  /\ authenticated' = [authenticated EXCEPT ![c] = @ \/ granted]
  /\ wish' = [wish EXCEPT ![c].proved = @ \/ granted]
  /\ Proceed(h, [Idle EXCEPT !.client = c], <<Audit(code), Reply(code)>>)
  /\ UNCHANGED <<inputEnabled, attachedPanes, paneOwners, streamed, pendingAttachLag>>

\* A request that is answered at once and changes nothing.
Answer(h, c, code) ==
  /\ Proceed(h, [Idle EXCEPT !.client = c], <<Reply(code)>>)
  /\ UNCHANGED <<sessionVars, paneOwners, streamed, pendingAttachLag, wish>>

ListSessions(h, c) ==
  /\ Proceed(h, [Idle EXCEPT !.client = c], <<Call("list"), Reply("session_list")>>)
  /\ UNCHANGED <<sessionVars, paneOwners, streamed, pendingAttachLag, wish>>

Attach(h, c, payload) ==
  LET p == parseNonEmptyString(payload.paneId) IN
  IF p = None THEN Answer(h, c, "invalid_pane_id")
  ELSE IF p \notin attachedPanes[c] /\ Cardinality(attachedPanes[c]) >= config.maxAttachedPanes
  THEN Answer(h, c, "max_attached_panes_exceeded")
  ELSE /\ attachedPanes' = [attachedPanes EXCEPT ![c] = @ \cup {p}]
       /\ pendingAttachLag' = pendingAttachLag \cup {<<c, p>>}
       /\ streamed' = [streamed EXCEPT ![c] = @ \cup {p}]
       /\ wish' = [wish EXCEPT ![c].panes = @ \cup {p}]
       /\ Proceed(h, [Idle EXCEPT !.client = c, !.pane = p,
                                  !.lastSeq = parseOptionalInt(payload.lastSeq)],
                  <<Call("attach"), Reply("ack")>>)
       /\ UNCHANGED <<authenticated, inputEnabled, paneOwners>>

Detach(h, c, payload) ==
  LET p == parseNonEmptyString(payload.paneId) IN
  IF p = None THEN Answer(h, c, "invalid_pane_id")
  ELSE /\ attachedPanes' = [attachedPanes EXCEPT ![c] = @ \ {p}]
       /\ paneOwners' = [paneOwners EXCEPT ![p] = IF @ = c THEN None ELSE @]
       /\ streamed' = [streamed EXCEPT ![c] = @ \ {p}]
       /\ wish' = [wish EXCEPT ![c].panes = @ \ {p}]
       /\ Proceed(h, [Idle EXCEPT !.client = c],
                  <<Audit("detach")>>
                    \o (IF paneOwners[p] = c THEN <<Audit("lane_owner_released")>> ELSE <<>>)
                    \o <<Reply("ack")>>)
       /\ UNCHANGED <<authenticated, inputEnabled, pendingAttachLag>>

\* enable_input and disable_input
SetInput(h, c, type) ==
  /\ inputEnabled' = [inputEnabled EXCEPT ![c] =
                        type = "enable_input" /\ ~config.globalInputDisabled]
  /\ wish' = [wish EXCEPT ![c].enable = type = "enable_input"]
  /\ Proceed(h, [Idle EXCEPT !.client = c], <<Audit(type), Reply("policy_update")>>)
  /\ UNCHANGED <<authenticated, attachedPanes, paneOwners, streamed, pendingAttachLag>>

\* A refused input, with or without a line in the audit trail.
Refuse(h, c, code, audited) ==
  /\ Proceed(h, [Idle EXCEPT !.client = c],
             (IF audited THEN <<Audit("input_denied")>> ELSE <<>>) \o <<Reply(code)>>)
  /\ UNCHANGED <<sessionVars, paneOwners, streamed, pendingAttachLag, wish>>

claimPaneInputOwnership(p, c, overrideRequested) ==
  \/ paneOwners[p] \in {None, c}
  \/ overrideRequested /\ config.allowInputOwnershipOverride

Input(h, c, payload) ==
  LET p == parseNonEmptyString(payload.paneId)
      bytes == IF isString(payload.data) THEN payload.data.bytes ELSE 0
      overrideRequested ==
        \E f \in {"override", "takeOwnership"} : parseOptionalBoolean(payload[f]) = TRUE
  IN
  \/ Refuse(h, c, "input_rate_limited", TRUE)
  \/ IF ~isInputAllowed(c) THEN Refuse(h, c, "input_disabled", TRUE)
     ELSE IF p = None \/ bytes = 0 THEN Refuse(h, c, "invalid_input", FALSE)
     ELSE IF p \notin attachedPanes[c] THEN Refuse(h, c, "pane_not_attached", FALSE)
     ELSE IF bytes > maxInputBytes THEN Refuse(h, c, "input_too_large", FALSE)
     ELSE IF ~claimPaneInputOwnership(p, c, overrideRequested)
     THEN Refuse(h, c, "input_lane_conflict", TRUE)
     ELSE /\ paneOwners' = [paneOwners EXCEPT ![p] = c]
          /\ Proceed(h, [Idle EXCEPT !.client = c, !.pane = p,
                                     !.took = paneOwners[p] \notin {None, c}],
                     <<Call("send"), Reply("ack")>>)
          /\ UNCHANGED <<sessionVars, streamed, pendingAttachLag, wish>>

\* Mutant: input stays enabled.
DisconnectKeepsInput(h, c) ==
  /\ streamed' = [streamed EXCEPT ![c] = {}]
  /\ paneOwners' = [p \in Pane |-> IF paneOwners[p] = c THEN None ELSE paneOwners[p]]
  /\ attachedPanes' = [attachedPanes EXCEPT ![c] = {}]
  /\ wish' = [wish EXCEPT ![c].panes = {}, ![c].enable = FALSE]
  /\ told' = [told EXCEPT ![c] = None]
  /\ slot' = [slot EXCEPT ![h] = [Idle EXCEPT !.client = c,
                                             !.todo = <<Audit("disconnect"), Reply("ack")>>]]
  /\ UNCHANGED <<authenticated, inputEnabled, pendingAttachLag>>

\* The `disconnect` request; the socket stays open.
Disconnect(h, c) ==
  LET released == \E p \in Pane : paneOwners[p] = c IN
  /\ streamed' = [streamed EXCEPT ![c] = {}]
  /\ paneOwners' = [p \in Pane |-> IF paneOwners[p] = c THEN None ELSE paneOwners[p]]
  /\ attachedPanes' = [attachedPanes EXCEPT ![c] = {}]
  /\ inputEnabled' = [inputEnabled EXCEPT ![c] = FALSE]
  /\ wish' = [wish EXCEPT ![c].panes = {}, ![c].enable = FALSE]
  /\ told' = [told EXCEPT ![c] = None]
  /\ slot' = [slot EXCEPT ![h] = [Idle EXCEPT
       !.client = c,
       !.todo = (IF released THEN <<Audit("lane_owner_released")>> ELSE <<>>)
                  \o <<Audit("disconnect"), Reply("ack")>>]]
  /\ UNCHANGED <<authenticated, pendingAttachLag>>

handleClientMessage(h, c, type, payload) ==
  IF ~authenticated[c] /\ type # "auth" THEN Answer(h, c, "auth_required")
  ELSE CASE type = "auth" -> Auth(h, c, payload)
         [] type = "list_sessions" -> ListSessions(h, c)
         [] type = "attach" -> Attach(h, c, payload)
         [] type = "detach" -> Detach(h, c, payload)
         [] type \in {"enable_input", "disable_input"} -> SetInput(h, c, type)
         [] type = "input" -> Input(h, c, payload)
         [] type = "heartbeat" -> Answer(h, c, "heartbeat_ack")
         [] type = "disconnect" -> Disconnect(h, c)
         [] OTHER -> Answer(h, c, "unknown_type")

parseIncomingClientMessage(frame) == parseMessage(frame, config.strictProtocolParsing)

\* socket.on("message"): the limiter, the parser, the handler.
OnMessage(h, c) ==
  \E frame \in Frame :
    LET parsed == parseIncomingClientMessage(frame) IN
    /\ phase[c] = "open" /\ slot[h].todo = <<>>
    /\ \/ Answer(h, c, "rate_limited")
       \/ IF parsed.ok THEN handleClientMessage(h, c, parsed.type, parsed.payload)
          ELSE Answer(h, c, parsed.error)
    /\ UNCHANGED <<config, phase>>
----------------------------------------------------------------------------
(* What the handlers await                                                 *)

Awaits(h, op) == slot[h].todo # <<>> /\ Head(slot[h].todo).do = op

\* audit.write ends: without a path it did nothing, and a line that could not be
\* appended only leaves a warning, which is remembered of an input's lines.
AuditDone(h) ==
  /\ Awaits(h, "audit")
  /\ \E line \in {{}, {Head(slot[h].todo).action}} :
       /\ line # {} => config.auditLog /\ slot[h].typed
       /\ Proceed(h, [slot[h] EXCEPT !.audited = @ \cup {Head(slot[h].todo).action},
                                     !.lost = @ \cup line], Tail(slot[h].todo))
  /\ UNCHANGED <<config, phase, sessionVars, paneOwners, streamed, pendingAttachLag, wish>>

ListDone(h) ==
  /\ Awaits(h, "list")
  /\ Proceed(h, slot[h], Tail(slot[h].todo))
  /\ UNCHANGED <<config, phase, sessionVars, paneOwners, streamed, pendingAttachLag, wish>>

classifyReplaySnapshotFallbackReason(r) ==
  IF r.requestedLastSeq = None THEN "empty_resume_window"
  ELSE IF r.requestedLastSeq > r.latestSeq THEN "ahead_of_stream"
  ELSE IF r.replayGapDetected \/ (r.oldestHistorySeq # None
                                  /\ r.requestedLastSeq < r.oldestHistorySeq - 1)
       THEN "outside_retained_window"
  ELSE "empty_resume_window"

\* engine.attach has returned: what is audited of the replay.
ReplayAudit(r) ==
  IF r.requestedLastSeq # None /\ r.replayUsed /\ r.replayedCount > 0 THEN <<Audit("replay_resume")>>
  ELSE IF r.requestedLastSeq # None /\ r.fallbackToSnapshot
       THEN <<Audit(classifyReplaySnapshotFallbackReason(r))>>
  ELSE <<>>

AttachDone(h) ==
  /\ Awaits(h, "attach")
  /\ \E r \in Replay :
       /\ r.requestedLastSeq = slot[h].lastSeq
       /\ Proceed(h, slot[h], ReplayAudit(r) \o <<Audit("attach"), Reply("ack")>>)
  /\ UNCHANGED <<config, phase, sessionVars, paneOwners, streamed, pendingAttachLag, wish>>

\* Mutant: acknowledges before it writes the audit line.
SendDoneAcks(h) ==
  /\ Awaits(h, "send")
  /\ Proceed(h, [slot[h] EXCEPT !.typed = TRUE], <<Reply("ack")>>)
  /\ UNCHANGED <<config, phase, sessionVars, paneOwners, streamed, pendingAttachLag, wish>>

SendDone(h) ==
  /\ Awaits(h, "send")
  /\ Proceed(h, [slot[h] EXCEPT !.typed = TRUE],
             <<Audit("input_allowed")>>
               \o (IF slot[h].took THEN <<Audit("input_takeover")>> ELSE <<>>)
               \o <<Reply("ack")>>)
  /\ UNCHANGED <<config, phase, sessionVars, paneOwners, streamed, pendingAttachLag, wish>>

\* The runtime throws.  A failed attach takes the client off the pane's
\* watcher, or, when the watcher was replaced, nobody or everybody.
CallFails(h) ==
  /\ Awaits(h, "list") \/ Awaits(h, "attach") \/ Awaits(h, "send")
  /\ \E text \in Failure : Catch(h, text)
  /\ IF Awaits(h, "attach")
     THEN \E C \in {{}, {slot[h].client}, Client} :
            streamed' = [c \in Client |-> IF c \in C THEN streamed[c] \ {slot[h].pane}
                                          ELSE streamed[c]]
     ELSE UNCHANGED streamed
  /\ UNCHANGED <<config, phase, sessionVars, paneOwners, pendingAttachLag, told, wish>>
----------------------------------------------------------------------------
(* Connections, the engine's callbacks and leases                          *)

\* Accepted, with a hello.
OnConnection(c) ==
  /\ phase[c] = "new"
  /\ phase' = [phase EXCEPT ![c] = "open"]
  /\ authenticated' = [authenticated EXCEPT ![c] = config.authToken = None]
  /\ wish' = [wish EXCEPT ![c].proved = config.authToken = None]
  /\ UNCHANGED <<config, inputEnabled, attachedPanes, paneOwners, streamed, pendingAttachLag, slot,
                 told>>

\* The socket leaves readyState OPEN, before its close event.
Closing(c) ==
  /\ phase[c] = "open"
  /\ phase' = [phase EXCEPT ![c] = "closing"]
  /\ UNCHANGED <<config, sessionVars, paneOwners, streamed, pendingAttachLag, slot, told, wish>>

clearClientAttachLag(c) == {cp \in pendingAttachLag : cp[1] # c}

OnClose(c) ==
  /\ phase[c] \in {"open", "closing"}
  /\ phase' = [phase EXCEPT ![c] = "closed"]
  /\ streamed' = [streamed EXCEPT ![c] = {}]
  /\ paneOwners' = [p \in Pane |-> IF paneOwners[p] = c THEN None ELSE paneOwners[p]]
  /\ pendingAttachLag' = clearClientAttachLag(c)
  /\ authenticated' = [authenticated EXCEPT ![c] = FALSE]
  /\ inputEnabled' = [inputEnabled EXCEPT ![c] = FALSE]
  /\ attachedPanes' = [attachedPanes EXCEPT ![c] = {}]
  /\ wish' = [wish EXCEPT ![c] = NoWish]
  /\ told' = [told EXCEPT ![c] = None]
  /\ UNCHANGED <<config, slot>>

\* onOutput and onError: the first output of an attach ends its lag.
OnOutput(c, p) ==
  /\ p \in streamed[c] /\ <<c, p>> \in pendingAttachLag
  /\ pendingAttachLag' = pendingAttachLag \ {<<c, p>>}
  /\ UNCHANGED <<config, phase, sessionVars, paneOwners, streamed, slot, told, wish>>

\* A lease ends, or the rival's input claims the lane.
LaneMoves(p) ==
  /\ \/ paneOwners[p] # None /\ paneOwners' = [paneOwners EXCEPT ![p] = None]
     \/ /\ claimPaneInputOwnership(p, Rival, TRUE)
        /\ paneOwners' = [paneOwners EXCEPT ![p] = Rival]
  /\ UNCHANGED <<config, phase, sessionVars, streamed, pendingAttachLag, slot, told, wish>>

Resume(h) == AuditDone(h) \/ ListDone(h) \/ AttachDone(h) \/ SendDone(h) \/ CallFails(h)

IntakeNext ==
  \/ \E h \in Handler : Resume(h) \/ \E c \in Client : OnMessage(h, c)
  \/ \E c \in Client : OnConnection(c) \/ Closing(c) \/ OnClose(c)
  \/ \E c \in Client, p \in Pane : OnOutput(c, p)
  \/ \E p \in Pane : LaneMoves(p)

\* Awaited calls end: child processes have timeouts, a file write ends.
IntakeSpec == IntakeInit /\ [][IntakeNext]_intakeVars /\ \A h \in Handler : WF_intakeVars(Resume(h))
----------------------------------------------------------------------------
(* Properties                                                              *)

\* What audit lines and answers that come after an await are called.
Word ==
  {"auth_ok", "auth_error", "session_list", "ack", "policy_update", "attach", "detach",
   "replay_resume", "empty_resume_window", "ahead_of_stream", "outside_retained_window",
   "lane_owner_released", "enable_input", "disable_input", "disconnect", "input_allowed",
   "input_takeover", "input_denied", "input_rate_limited", "input_disabled",
   "input_lane_conflict", "runtime_failure", "auth_rejected", "runtime_session_unavailable",
   "transport_drop", "invalid_pane_target", "handler_failed"}

Await ==
  [do : {"audit"}, action : Word] \cup [do : {"reply"}, code : Word]
    \cup [do : {"list", "attach", "send"}]

\* The payloads, pane ids and cursors that the frames may hold.
Message == {parseMessage(frame, cfg.strictProtocolParsing) : frame \in Frame, cfg \in Config}
Payload == {message.payload : message \in {m \in Message : m.ok}}
PaneId == {parseNonEmptyString(payload.paneId) : payload \in Payload} \cup {None}
Cursor == {parseOptionalInt(payload.lastSeq) : payload \in Payload} \cup {None}

Slot ==
  [client : Client \cup {None}, todo : Seq(Await), pane : PaneId, lastSeq : Cursor,
   audited : SUBSET Word, lost : SUBSET Word, typed : BOOLEAN, took : BOOLEAN, answer : {None, "sent", "unsent"}]

IntakeTypeOK ==
  /\ config \in Config
  /\ phase \in [Client -> {"new", "open", "closing", "closed"}]
  /\ authenticated \in [Client -> BOOLEAN] /\ inputEnabled \in [Client -> BOOLEAN]
  /\ attachedPanes \in [Client -> SUBSET PaneId] /\ streamed \in [Client -> SUBSET PaneId]
  /\ paneOwners \in [Pane -> Client \cup {Rival, None}]
  /\ pendingAttachLag \subseteq Client \X PaneId
  /\ slot \in [Handler -> Slot]
  /\ told \in [Client -> BOOLEAN \cup {None}]
  /\ wish \in [Client -> [proved : BOOLEAN, enable : BOOLEAN, panes : SUBSET PaneId]]

Ended(h) == slot[h].todo = <<>>

\* Every message gets its answer, whatever the runtime throws and in whichever
\* order the awaits end; only a socket that is gone keeps it from being sent.
Answered ==
  \A h \in Handler : ~Ended(h) ~> (Ended(h) /\ slot[h].answer # None)

\* When none of its requests is under way, the policy a connection was last
\* told is the one that holds, although the answers of enable_input and
\* disable_input may overtake each other.
PolicyTold ==
  \A c \in Client :
    (\A h \in Handler : slot[h].client = c => Ended(h)) /\ phase[c] = "open" /\ told[c] # None
      => told[c] = inputEnabled[c]

\* The lines of a handler that are in the audit file.
Trail(h) == IF config.auditLog THEN slot[h].audited \ slot[h].lost ELSE {}

\* With an audit log, an input acknowledged to a client is in the trail before
\* the client knows, with its takeover, unless the append itself failed; and the
\* trail calls no input allowed that did not reach the pane whole.
AuditTrue ==
  \A h \in Handler :
    /\ config.auditLog /\ Ended(h) /\ slot[h].typed =>
         /\ "input_allowed" \in Trail(h) \cup slot[h].lost
         /\ slot[h].took => "input_takeover" \in Trail(h) \cup slot[h].lost
    /\ "input_allowed" \in Trail(h) => slot[h].typed

\* Input starts towards a pane only for a connection that proved the token,
\* whose last word on input was enable_input, that has the pane, and never
\* under the kill switch.
SendsOnlyAsWished ==
  [][\A h \in Handler :
       ~Awaits(h, "send") /\ Awaits(h, "send")' =>
         LET w == wish[slot'[h].client] IN
         /\ w.proved /\ w.enable /\ slot'[h].pane \in w.panes
         /\ ~config.globalInputDisabled]_intakeVars

============================================================================
