---------------------------- MODULE BridgeServer ----------------------------
(***************************************************************************)
(* The WebSocket server of the gateway (src/src/server/bridge-server.ts):  *)
(* the state of each connection, the message handlers that change it, and  *)
(* the arbitration of pane input (PaneInputOwnershipArbiter in             *)
(* src/src/server/bridge-server-utils.ts) with the inputs it let through,  *)
(* which the tmux adapter sends piece by piece.                            *)
(*                                                                         *)
(* A handler runs without interruption up to its first await.  What         *)
(* follows an await is an action of its own: the end of engine.attach and  *)
(* each `tmux send-keys`.  The streaming engine is reduced to the set of   *)
(* panes it streams to each connection (module BridgeEngine has the rest); *)
(* requests that the limiters deny change nothing here (module             *)
(* SlidingWindowRateLimiter).                                              *)
(***************************************************************************)
EXTENDS Integers, FiniteSets

CONSTANTS
  Client,               \* connections; an id is never used again (randomUUID)
  Pane,
  NoOne,                \* the owner of a free lane
  requiresAuth,         \* config.authToken is set
  globalInputDisabled,  \* the kill switch
  AllowOverride,        \* config.allowInputOwnershipOverride
  maxAttachedPanes,
  leaseDurationMs,
  Pieces,               \* send-keys commands of one input
  MaxClock,             \* bound: the last instant of the clock
  MaxSends,             \* bound: inputs being sent at the same time
  MaxAttaching          \* bound: suspended attaches of a connection to one pane

ASSUME ServerAssumption ==
  /\ NoOne \notin Client
  /\ requiresAuth \in BOOLEAN /\ globalInputDisabled \in BOOLEAN
  /\ AllowOverride \in BOOLEAN
  /\ maxAttachedPanes \in Nat \ {0}
  /\ leaseDurationMs \in Nat \ {0}
  /\ Pieces \in Nat \ {0}
  /\ MaxClock \in Nat /\ MaxSends \in Nat /\ MaxAttaching \in Nat

VARIABLES
  clock,
  phase,          \* client -> "new", "open" or "closed"
  authenticated,  \* client -> client.authenticated
  inputEnabled,   \* client -> client.inputEnabled
  attachedPanes,  \* client -> client.attachedPanes
  paneOwners,     \* the arbiter's Map: pane -> lease
  streamed,       \* client -> panes the engine streams to it
  attaching,      \* <<client, pane>> -> how many engine.attach are suspended
  due,            \* history variable: <<client, pane>> -> outputs that may still
                  \* come of a pane the client has left
  listing,        \* clients whose tmux.listPanes is running
  sends           \* inputs whose sendInput is running

sessionVars == <<phase, authenticated, inputEnabled, attachedPanes>>
vars == <<clock, sessionVars, paneOwners, streamed, attaching, due, listing, sends>>

LeaseOf == [client : Client \union {NoOne}, expiresAt : 0..(MaxClock + leaseDurationMs)]
NoLease == [client |-> NoOne, expiresAt |-> 0]
Send == [id : 1..MaxSends, client : Client, pane : Pane, left : 1..Pieces]

TypeOK ==
  /\ clock \in 0..MaxClock
  /\ phase \in [Client -> {"new", "open", "closed"}]
  /\ authenticated \in [Client -> BOOLEAN]
  /\ inputEnabled \in [Client -> BOOLEAN]
  /\ attachedPanes \in [Client -> SUBSET Pane]
  /\ paneOwners \in [Pane -> LeaseOf]
  /\ streamed \in [Client -> SUBSET Pane]
  /\ attaching \in [Client \X Pane -> 0..MaxAttaching]
  /\ due \in [Client \X Pane -> Int]
  /\ listing \subseteq Client
  /\ sends \subseteq Send

Init ==
  /\ clock = 0
  /\ phase = [c \in Client |-> "new"]
  /\ authenticated = [c \in Client |-> FALSE]
  /\ inputEnabled = [c \in Client |-> FALSE]
  /\ attachedPanes = [c \in Client |-> {}]
  /\ paneOwners = [p \in Pane |-> NoLease]
  /\ streamed = [c \in Client |-> {}]
  /\ attaching = [cp \in Client \X Pane |-> 0]
  /\ due = [cp \in Client \X Pane |-> 0]
  /\ listing = {}
  /\ sends = {}

-----------------------------------------------------------------------------
(* PaneInputOwnershipArbiter *)

\* expireStaleOwners: a lease survives while expiresAtMs > now.
Unexpired(owners) ==
  [p \in Pane |-> IF owners[p].expiresAt > clock THEN owners[p] ELSE NoLease]

\* Mutant: a requested override is always allowed.
CanClaimAnyway(p, c, overrideRequested) ==
  Unexpired(paneOwners)[p].client \in {NoOne, c} \/ overrideRequested

\* claim succeeds.
CanClaim(p, c, overrideRequested) ==
  LET owner == Unexpired(paneOwners)[p].client IN
  owner \in {NoOne, c} \/ (overrideRequested /\ AllowOverride)

\* setOwner, after expireStaleOwners.
SetOwner(p, c) ==
  paneOwners' = [Unexpired(paneOwners) EXCEPT ![p] =
                  [client |-> c, expiresAt |-> clock + leaseDurationMs]]

\* releasePaneIfOwnedBy for each pane in P; releaseClient when P = Pane.
Release(c, P) ==
  paneOwners' = [p \in Pane |->
    IF p \in P /\ paneOwners[p].client = c THEN NoLease ELSE Unexpired(paneOwners)[p]]

-----------------------------------------------------------------------------
(* Connections *)

Connect(c) ==
  /\ phase[c] = "new"
  /\ phase' = [phase EXCEPT ![c] = "open"]
  /\ authenticated' = [authenticated EXCEPT ![c] = ~requiresAuth]
  /\ UNCHANGED <<clock, inputEnabled, attachedPanes, paneOwners, streamed, attaching, due, listing, sends>>

\* `auth` with the right token (any token in open mode).
Auth(c) ==
  /\ phase[c] = "open"
  /\ authenticated' = [authenticated EXCEPT ![c] = TRUE]
  /\ UNCHANGED <<clock, phase, inputEnabled, attachedPanes, paneOwners, streamed,
                 attaching, due, listing, sends>>

\* Every other message is answered with auth_required before authentication.
MayHandle(c) == phase[c] = "open" /\ authenticated[c]

\* `list_sessions` asks the runtime for its panes ...
ListSessions(c) ==
  /\ MayHandle(c)
  /\ listing' = listing \union {c}
  /\ UNCHANGED <<clock, sessionVars, paneOwners, streamed, attaching, due, sends>>

\* ... and answers with the arbiter's snapshot, which expires stale leases.
ListSessionsDone(c) ==
  /\ c \in listing
  /\ listing' = listing \ {c}
  /\ paneOwners' = Unexpired(paneOwners)
  /\ UNCHANGED <<clock, sessionVars, streamed, attaching, due, sends>>

ListSessionsFailed(c) ==
  /\ c \in listing
  /\ listing' = listing \ {c}
  /\ UNCHANGED <<clock, sessionVars, paneOwners, streamed, attaching, due, sends>>

\* `attach`: the pane is recorded before the engine is asked for it.
Attach(c, p) ==
  /\ MayHandle(c)
  /\ attaching[<<c, p>>] < MaxAttaching
  /\ p \in attachedPanes[c] \/ Cardinality(attachedPanes[c]) < maxAttachedPanes
  /\ attachedPanes' = [attachedPanes EXCEPT ![c] = @ \union {p}]
  /\ streamed' = [streamed EXCEPT ![c] = @ \union {p}]
  /\ attaching' = [attaching EXCEPT ![<<c, p>>] = @ + 1]
  /\ due' = [due EXCEPT ![<<c, p>>] = 0]
  /\ UNCHANGED <<clock, phase, authenticated, inputEnabled, paneOwners, listing, sends>>

\* An output of pane p that the attach's continuation sends to c: one less may
\* come when c has left the pane, and it is dropped when c's socket is gone.
OutputTo(c, p) ==
  due' = IF phase[c] = "open" /\ p \notin attachedPanes[c]
           THEN [due EXCEPT ![<<c, p>>] = @ - 1] ELSE due

\* Mutant: the client is subscribed when the capture is back.
AttachDoneSubscribes(c, p) ==
  /\ attaching[<<c, p>>] > 0
  /\ attaching' = [attaching EXCEPT ![<<c, p>>] = @ - 1]
  /\ streamed' = [streamed EXCEPT ![c] = @ \union {p}]
  /\ due' = due \/ OutputTo(c, p)
  /\ UNCHANGED <<clock, sessionVars, paneOwners, listing, sends>>

\* engine.attach returns and the client gets its ack.  A watcher without events
\* sends the client its first snapshot now, detached or not; any other attach
\* has sent its replay or snapshot at once.
AttachDone(c, p) ==
  /\ attaching[<<c, p>>] > 0
  /\ attaching' = [attaching EXCEPT ![<<c, p>>] = @ - 1]
  /\ due' = due \/ OutputTo(c, p)
  /\ UNCHANGED <<clock, sessionVars, paneOwners, streamed, listing, sends>>

\* engine.attach throws; the client gets a runtime failure.  It unsubscribes
\* the client; but an attach that holds an older watcher of the pane changes
\* nothing, or unmaps the present one for everybody (module BridgeEngine).
AttachFailed(c, p) ==
  /\ attaching[<<c, p>>] > 0
  /\ attaching' = [attaching EXCEPT ![<<c, p>>] = @ - 1]
  /\ \E C \in {{}, {c}, Client} :
       streamed' = [d \in Client |-> IF d \in C THEN streamed[d] \ {p} ELSE streamed[d]]
  /\ UNCHANGED <<clock, sessionVars, paneOwners, due, listing, sends>>

\* From here on c is owed what its suspended attaches to the panes in P may
\* still send it; a client whose socket is gone is owed nothing.
LeavesDue(c, P, open) ==
  due' = [cp \in Client \X Pane |->
           IF cp[1] = c /\ cp[2] \in P THEN IF open THEN attaching[cp] ELSE 0
           ELSE due[cp]]

\* Mutant: the lane is kept.
DetachKeepsLane(c, p) ==
  /\ MayHandle(c)
  /\ attachedPanes' = [attachedPanes EXCEPT ![c] = @ \ {p}]
  /\ streamed' = [streamed EXCEPT ![c] = @ \ {p}]
  /\ LeavesDue(c, {p}, TRUE)
  /\ UNCHANGED <<clock, phase, authenticated, inputEnabled, paneOwners, attaching,
                 listing, sends>>

Detach(c, p) ==
  /\ MayHandle(c)
  /\ attachedPanes' = [attachedPanes EXCEPT ![c] = @ \ {p}]
  /\ Release(c, {p})
  /\ streamed' = [streamed EXCEPT ![c] = @ \ {p}]
  /\ LeavesDue(c, {p}, TRUE)
  /\ UNCHANGED <<clock, phase, authenticated, inputEnabled, attaching, listing, sends>>

EnableInput(c) ==
  /\ MayHandle(c)
  /\ inputEnabled' = [inputEnabled EXCEPT ![c] = ~globalInputDisabled]
  /\ UNCHANGED <<clock, phase, authenticated, attachedPanes, paneOwners, streamed,
                 attaching, due, listing, sends>>

DisableInput(c) ==
  /\ MayHandle(c)
  /\ inputEnabled' = [inputEnabled EXCEPT ![c] = FALSE]
  /\ UNCHANGED <<clock, phase, authenticated, attachedPanes, paneOwners, streamed,
                 attaching, due, listing, sends>>

\* isInputAllowed and the membership test that precede the claim.
MayInput(c, p) ==
  /\ MayHandle(c)
  /\ inputEnabled[c] /\ ~globalInputDisabled
  /\ p \in attachedPanes[c]

\* `input` wins the lane and starts to send.
Input(c, p, overrideRequested) ==
  /\ MayInput(c, p)
  /\ CanClaim(p, c, overrideRequested)
  /\ SetOwner(p, c)
  /\ \E id \in 1..MaxSends :
       /\ \A s \in sends : s.id # id
       /\ \A other \in 1..(id - 1) : \E s \in sends : s.id = other
       /\ sends' = sends \union {[id |-> id, client |-> c, pane |-> p, left |-> Pieces]}
  /\ UNCHANGED <<clock, sessionVars, streamed, attaching, due, listing>>

\* `input` is refused with input_lane_conflict.
InputConflict(c, p, overrideRequested) ==
  /\ MayInput(c, p)
  /\ ~CanClaim(p, c, overrideRequested)
  /\ paneOwners' = Unexpired(paneOwners)
  /\ UNCHANGED <<clock, sessionVars, streamed, attaching, due, listing, sends>>

\* sendInput: one `tmux send-keys` ends and the next begins, or the last does.
SendPiece(s) ==
  /\ sends' = (sends \ {s}) \union
               (IF s.left = 1 THEN {} ELSE {[s EXCEPT !.left = @ - 1]})
  /\ UNCHANGED <<clock, sessionVars, paneOwners, streamed, attaching, due, listing>>

\* A `tmux send-keys` fails or times out: the rest of the input is given up.
SendFailed(s) ==
  /\ sends' = sends \ {s}
  /\ UNCHANGED <<clock, sessionVars, paneOwners, streamed, attaching, due, listing>>

\* The `disconnect` message: the connection stays open.
Disconnect(c) ==
  /\ MayHandle(c)
  /\ streamed' = [streamed EXCEPT ![c] = {}]
  /\ Release(c, Pane)
  /\ attachedPanes' = [attachedPanes EXCEPT ![c] = {}]
  /\ inputEnabled' = [inputEnabled EXCEPT ![c] = FALSE]
  /\ LeavesDue(c, Pane, TRUE)
  /\ UNCHANGED <<clock, phase, authenticated, attaching, listing, sends>>

\* The socket closes: the client record is dropped.
SocketClose(c) ==
  /\ phase[c] = "open"
  /\ streamed' = [streamed EXCEPT ![c] = {}]
  /\ Release(c, Pane)
  /\ phase' = [phase EXCEPT ![c] = "closed"]
  /\ authenticated' = [authenticated EXCEPT ![c] = FALSE]
  /\ inputEnabled' = [inputEnabled EXCEPT ![c] = FALSE]
  /\ attachedPanes' = [attachedPanes EXCEPT ![c] = {}]
  /\ LeavesDue(c, Pane, FALSE)
  /\ UNCHANGED <<clock, attaching, listing, sends>>

Tick ==
  /\ clock < MaxClock
  /\ clock' = clock + 1
  /\ UNCHANGED <<sessionVars, paneOwners, streamed, attaching, due, listing, sends>>

Next ==
  \/ \E c \in Client :
       \/ Connect(c) \/ Auth(c)
       \/ ListSessions(c) \/ ListSessionsDone(c) \/ ListSessionsFailed(c)
       \/ EnableInput(c) \/ DisableInput(c)
       \/ Disconnect(c) \/ SocketClose(c)
  \/ \E c \in Client, p \in Pane :
       \/ Attach(c, p) \/ AttachDone(c, p) \/ AttachFailed(c, p)
       \/ Detach(c, p)
       \/ \E o \in BOOLEAN : Input(c, p, o) \/ InputConflict(c, p, o)
  \/ \E s \in sends : SendPiece(s) \/ SendFailed(s)
  \/ Tick

Spec == Init /\ [][Next]_vars

-----------------------------------------------------------------------------
(* Properties *)

\* A lane, stale or not, is never left with a connection that is gone, or that
\* no longer has the pane: every way out of a pane releases its lane.
LaneOwnerAttached ==
  \A p \in Pane : LET c == paneOwners[p].client IN
    c # NoOne => MayHandle(c) /\ p \in attachedPanes[c]

\* The engine subscribes only an open, authenticated connection that has the
\* pane attached, even when an attach ends after its detach or its socket; and
\* a connection that left a pane is sent at most one more output of it for each
\* attach that was suspended when it left, and none once its socket is closed.
StreamedOnlyToAttached ==
  \A c \in Client, p \in Pane :
    /\ p \in streamed[c] => MayHandle(c) /\ p \in attachedPanes[c]
    /\ p \notin attachedPanes[c] => due[<<c, p>>] >= 0

\* The kill switch: no order of enabling, attaching and writing gets an input
\* under way, or a lane claimed, while input is disabled globally.
KillSwitchHolds ==
  globalInputDisabled => sends = {} /\ \A p \in Pane : paneOwners[p] = NoLease

\* No sequence of attaches, failures and detaches exceeds maxAttachedPanes.
AttachLimit == \A c \in Client : Cardinality(attachedPanes[c]) <= maxAttachedPanes

\* The abstract lane, in which a lease that is over is no lease.
Lane == INSTANCE InputLane WITH
  Lease <- leaseDurationMs,
  holder <- [p \in Pane |-> Unexpired(paneOwners)[p].client],
  idle <- [p \in Pane |->
            IF Unexpired(paneOwners)[p].client = NoOne THEN 0
            ELSE clock + leaseDurationMs - paneOwners[p].expiresAt]

\* The arbiter, which forgets stale leases only when it is next used, behaves
\* as lanes that become free the moment their lease is over.
LaneImplemented == Lane!Spec

=============================================================================
