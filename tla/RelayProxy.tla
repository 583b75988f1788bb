----------------------------- MODULE RelayProxy -----------------------------
(***************************************************************************)
(* The WebSocket relay in front of the gateway                             *)
(* (src/packages/commandrelay-relay-proxy/src/index.ts).  Each accepted    *)
(* client gets a session with an upstream connection of its own; messages  *)
(* that arrive before the upstream is open wait in a bounded queue.        *)
(*                                                                         *)
(* Sockets are those of the ws library: open, closing until the peer has   *)
(* answered, closed.  An upstream that is still connecting has no          *)
(* transport yet, so disposing of it does nothing; an error event that     *)
(* finds no listener ends the process.                                     *)
(***************************************************************************)
EXTENDS Naturals, Sequences, FiniteSets, SequencesExt

CONSTANTS
  Conn,                \* client connections; each is used once
  maxConnections,
  IdleTimeout,         \* idleTimeoutMs, in ticks
  MaxPendingMessages,  \* MAX_UPSTREAM_PENDING_MESSAGES
  MaxPendingBytes,     \* MAX_UPSTREAM_PENDING_BYTES
  Size,                \* message sizes considered
  MaxMessages,         \* bound: conn -> messages of that client
  MaxDown              \* bound: bytes from all upstreams

ASSUME RelayAssumption ==
  /\ maxConnections \in Nat \ {0}
  /\ IdleTimeout \in Nat \ {0}
  /\ MaxPendingMessages \in Nat /\ MaxPendingBytes \in Nat
  /\ Size \subseteq Nat
  /\ MaxMessages \in [Conn -> Nat] /\ MaxDown \in Nat

\* A run, however long, has accepted finitely many clients.
ASSUME ConnAssumption == IsFiniteSet(Conn)

VARIABLES
  shuttingDown,
  sessions,          \* the Map's keys: sessions whose listeners are on
  inFlightUpgrades,
  client,            \* conn -> readyState of the client socket
  upstream,          \* conn -> readyState of the upstream socket
  pending,           \* conn -> pendingUpstreamMessages
  queuedBytes,       \* conn -> pendingUpstreamQueuedBytes
  age,               \* conn -> ticks since lastActivityAtMs
  idleTimer,         \* conns whose session.idleTimer is set and has not fired
  disposing,         \* conns whose 750 ms timer of closeSession is running
  stats,             \* RelayProxyStats
  sent,              \* history variable: conn -> messages the client sent
  got,               \* history variable: conn -> messages given to the upstream
  crashed            \* an error event found no listener

vars == <<shuttingDown, sessions, inFlightUpgrades, client, upstream, pending,
          queuedBytes, age, idleTimer, disposing, stats, sent, got, crashed>>

\* A message is its size: two sizes are enough to see a loss or a reordering.
Bytes(messages) ==
  LET total[n \in 0..Len(messages)] == IF n = 0 THEN 0 ELSE total[n - 1] + messages[n]
  IN  total[Len(messages)]

ClientState == {"none", "open", "closing", "closed"}
UpstreamState == ClientState \union {"connecting"}

\* The values each variable ranges over.
TypeOK ==
  /\ shuttingDown \in BOOLEAN /\ crashed \in BOOLEAN
  /\ sessions \subseteq Conn /\ disposing \subseteq Conn /\ idleTimer \subseteq Conn
  /\ inFlightUpgrades \in 0..maxConnections
  /\ client \in [Conn -> ClientState]
  /\ upstream \in [Conn -> UpstreamState]
  /\ pending \in [Conn -> Seq(Size)]
  /\ queuedBytes \in [Conn -> Nat]
  /\ age \in [Conn -> 0..IdleTimeout]
  /\ stats \in [active : Nat, total : Nat, peak : Nat, up : Nat, down : Nat]
  /\ sent \in [Conn -> Seq(Size)] /\ got \in [Conn -> Seq(Size)]

Init ==
  /\ shuttingDown = FALSE /\ crashed = FALSE
  /\ sessions = {} /\ disposing = {} /\ idleTimer = {}
  /\ inFlightUpgrades = 0
  /\ client = [c \in Conn |-> "none"]
  /\ upstream = [c \in Conn |-> "none"]
  /\ pending = [c \in Conn |-> << >>]
  /\ queuedBytes = [c \in Conn |-> 0]
  /\ age = [c \in Conn |-> 0]
  /\ stats = [active |-> 0, total |-> 0, peak |-> 0, up |-> 0, down |-> 0]
  /\ sent = [c \in Conn |-> << >>] /\ got = [c \in Conn |-> << >>]

-----------------------------------------------------------------------------
(* Upgrades *)

\* onUpgrade's test of the limit.  Requests it refuses before (method, path,
\* origin, token) or here change nothing.
HasRoom == Cardinality(sessions) + inFlightUpgrades < maxConnections

\* The handshake succeeds, and wireSession runs, within the handler.
Upgrade(c) ==
  /\ ~shuttingDown /\ HasRoom
  /\ client[c] = "none"
  /\ sessions' = sessions \union {c}
  /\ client' = [client EXCEPT ![c] = "open"]
  /\ upstream' = [upstream EXCEPT ![c] = "connecting"]
  /\ stats' = [stats EXCEPT !.active = @ + 1, !.total = @ + 1,
                            !.peak = IF stats.active + 1 > @ THEN stats.active + 1 ELSE @]
  /\ idleTimer' = idleTimer \union {c}
  /\ UNCHANGED <<shuttingDown, inFlightUpgrades, pending, queuedBytes, age, disposing,
                 sent, got, crashed>>

\* The handshake succeeds and wireSession throws (the upstream socket cannot be
\* made): the reservation is released and the client closed with 1011.
UpgradeFails(c) ==
  /\ ~shuttingDown /\ HasRoom
  /\ client[c] = "none"
  /\ client' = [client EXCEPT ![c] = "closing"]
  /\ UNCHANGED <<shuttingDown, sessions, inFlightUpgrades, upstream, pending, queuedBytes,
                 age, idleTimer, disposing, stats, sent, got, crashed>>

\* The ws library refuses the handshake: it answers and returns, and neither
\* calls back nor throws, so the reservation is not released.
HandshakeRefused ==
  /\ ~shuttingDown /\ HasRoom
  /\ inFlightUpgrades' = inFlightUpgrades + 1
  /\ UNCHANGED <<shuttingDown, sessions, client, upstream, pending, queuedBytes, age, idleTimer,
                 disposing, stats, sent, got, crashed>>

-----------------------------------------------------------------------------
(* The end of a session *)

\* disposeSocketSafely: close() starts the closing handshake of an open socket;
\* otherwise the transport, if there is one, is destroyed.
Dispose(st) == CASE st = "open" -> "closing"
                 [] st = "closing" -> "closed"
                 [] OTHER -> st

\* Mutant: the counter is set before the session is deleted.
CloseSessionCounts(c, cs, us, immediate, st) ==
  /\ sessions' = sessions \ {c}
  /\ client' = [client EXCEPT ![c] = Dispose(cs)]
  /\ upstream' = [upstream EXCEPT ![c] = Dispose(us)]
  /\ age' = [age EXCEPT ![c] = 0]
  /\ idleTimer' = idleTimer \ {c}
  /\ disposing' = IF immediate THEN disposing ELSE disposing \union {c}
  /\ stats' = [st EXCEPT !.active = Cardinality(sessions)]
  /\ UNCHANGED <<shuttingDown, inFlightUpgrades, pending, queuedBytes, got, crashed>>

\* closeSession, with the sockets in states cs and us and the counters at st.
CloseSession(c, cs, us, immediate, st) ==
  /\ sessions' = sessions \ {c}
  /\ client' = [client EXCEPT ![c] = Dispose(cs)]
  /\ upstream' = [upstream EXCEPT ![c] = Dispose(us)]
  /\ age' = [age EXCEPT ![c] = 0]
  /\ idleTimer' = idleTimer \ {c}
  /\ disposing' = IF immediate THEN disposing ELSE disposing \union {c}
  /\ stats' = [st EXCEPT !.active = Cardinality(sessions \ {c})]
  /\ UNCHANGED <<shuttingDown, inFlightUpgrades, pending, queuedBytes, got, crashed>>

\* The 750 ms timer of a session that did not close immediately.
DelayedDispose(c) ==
  /\ c \in disposing
  /\ disposing' = disposing \ {c}
  /\ client' = [client EXCEPT ![c] = Dispose(@)]
  /\ upstream' = [upstream EXCEPT ![c] = Dispose(@)]
  /\ UNCHANGED <<shuttingDown, sessions, inFlightUpgrades, pending, queuedBytes, age, idleTimer,
                 stats, sent, got, crashed>>

\* The peer starts to close, or the connection breaks ...
ClientClosing(c) ==
  /\ client[c] = "open"
  /\ client' = [client EXCEPT ![c] = "closing"]
  /\ UNCHANGED <<shuttingDown, sessions, inFlightUpgrades, upstream, pending, queuedBytes,
                 age, idleTimer, disposing, stats, sent, got, crashed>>

UpstreamClosing(c) ==
  /\ upstream[c] = "open"
  /\ upstream' = [upstream EXCEPT ![c] = "closing"]
  /\ UNCHANGED <<shuttingDown, sessions, inFlightUpgrades, client, pending, queuedBytes,
                 age, idleTimer, disposing, stats, sent, got, crashed>>

\* ... and the close event follows, which a session still listens to or not.
ClientClosed(c) ==
  /\ client[c] = "closing"
  /\ \/ c \in sessions /\ CloseSession(c, "closed", upstream[c], FALSE, stats)
     \/ /\ c \notin sessions
        /\ client' = [client EXCEPT ![c] = "closed"]
        /\ UNCHANGED <<shuttingDown, sessions, inFlightUpgrades, upstream, pending,
                       queuedBytes, age, idleTimer, disposing, stats, got, crashed>>
  /\ UNCHANGED sent

UpstreamClosed(c) ==
  /\ upstream[c] = "closing"
  /\ \/ c \in sessions /\ CloseSession(c, client[c], "closed", FALSE, stats)
     \/ /\ c \notin sessions
        /\ upstream' = [upstream EXCEPT ![c] = "closed"]
        /\ UNCHANGED <<shuttingDown, sessions, inFlightUpgrades, client, pending,
                       queuedBytes, age, idleTimer, disposing, stats, got, crashed>>
  /\ UNCHANGED sent

\* A protocol error on an open socket of a session.
ClientError(c) ==
  /\ c \in sessions /\ client[c] = "open"
  /\ CloseSession(c, "closing", upstream[c], TRUE, stats)
  /\ UNCHANGED sent

UpstreamError(c) ==
  /\ c \in sessions /\ upstream[c] = "open"
  /\ CloseSession(c, client[c], "closing", TRUE, stats)
  /\ UNCHANGED sent

\* The upstream cannot be reached.  The listener for the error left with the
\* session: without one the process ends.
UpstreamUnreachable(c) ==
  /\ upstream[c] = "connecting"
  /\ \/ c \in sessions /\ CloseSession(c, client[c], "closed", TRUE, stats)
     \/ /\ c \notin sessions
        /\ crashed' = TRUE
        /\ UNCHANGED <<shuttingDown, sessions, inFlightUpgrades, client, upstream, pending,
                       queuedBytes, age, idleTimer, disposing, stats, got>>
  /\ UNCHANGED sent

\* The timer has fired and Date.now() says that less than idleTimeoutMs has
\* passed (it is another clock, which may be set back, and is rounded): the
\* handler returns, and only the next activity sets a timer again.
IdleTooEarly(c) ==
  /\ idleTimer' = idleTimer \ {c}
  /\ UNCHANGED <<shuttingDown, sessions, inFlightUpgrades, client, upstream, pending,
                 queuedBytes, age, disposing, stats, sent, got, crashed>>

\* Mutant: the timer starts with the upstream.
CheckIdleTimeoutOpened(c) ==
  /\ c \in idleTimer /\ age[c] = IdleTimeout /\ upstream[c] # "connecting"
  /\ \/ CloseSession(c, client[c], upstream[c], TRUE, stats) /\ UNCHANGED sent
     \/ IdleTooEarly(c)

\* checkIdleTimeout, run by the timer that each activity sets anew.
CheckIdleTimeout(c) ==
  /\ c \in idleTimer /\ age[c] = IdleTimeout
  /\ \/ CloseSession(c, client[c], upstream[c], TRUE, stats) /\ UNCHANGED sent
     \/ IdleTooEarly(c)

\* close(): every session is dropped and both its sockets disposed of.
Close ==
  /\ ~shuttingDown
  /\ shuttingDown' = TRUE
  /\ sessions' = {}
  /\ client' = [c \in Conn |-> IF c \in sessions THEN Dispose(client[c]) ELSE client[c]]
  /\ upstream' = [c \in Conn |-> IF c \in sessions THEN Dispose(upstream[c]) ELSE upstream[c]]
  /\ age' = [c \in Conn |-> 0]
  /\ idleTimer' = {}
  /\ stats' = [stats EXCEPT !.active = 0]
  /\ UNCHANGED <<inFlightUpgrades, pending, queuedBytes, disposing, sent, got, crashed>>

-----------------------------------------------------------------------------
(* Traffic *)

\* The lines every client message runs through: activity and accounting.
Receive(c, size) ==
  /\ c \in sessions /\ client[c] = "open"
  /\ Len(sent[c]) < MaxMessages[c]
  /\ sent' = [sent EXCEPT ![c] = Append(@, size)]

Counted(size) == [stats EXCEPT !.up = @ + size]

\* Mutant: the size of the message itself is not counted.
QueueFitsWithout(c, size) ==
  /\ Len(pending[c]) < MaxPendingMessages
  /\ queuedBytes[c] <= MaxPendingBytes

QueueFits(c, size) ==
  /\ Len(pending[c]) < MaxPendingMessages
  /\ queuedBytes[c] + size <= MaxPendingBytes

\* onClientMessage with the upstream open.
Forward(c, size) ==
  /\ Receive(c, size)
  /\ upstream[c] = "open"
  /\ got' = [got EXCEPT ![c] = Append(@, size)]
  /\ age' = [age EXCEPT ![c] = 0] /\ idleTimer' = idleTimer \union {c}
  /\ stats' = Counted(size)
  /\ UNCHANGED <<shuttingDown, sessions, inFlightUpgrades, client, upstream, pending,
                 queuedBytes, disposing, crashed>>

\* Mutant: the queued bytes are set to the last message's.
QueueLast(c, size) ==
  /\ Receive(c, size)
  /\ upstream[c] # "open" /\ QueueFits(c, size)
  /\ pending' = [pending EXCEPT ![c] = Append(@, size)]
  /\ queuedBytes' = [queuedBytes EXCEPT ![c] = size]
  /\ age' = [age EXCEPT ![c] = 0] /\ idleTimer' = idleTimer \union {c}
  /\ stats' = Counted(size)
  /\ UNCHANGED <<shuttingDown, sessions, inFlightUpgrades, client, upstream, disposing,
                 got, crashed>>

\* onClientMessage with the upstream not (or no longer) open.
Queue(c, size) ==
  /\ Receive(c, size)
  /\ upstream[c] # "open" /\ QueueFits(c, size)
  /\ pending' = [pending EXCEPT ![c] = Append(@, size)]
  /\ queuedBytes' = [queuedBytes EXCEPT ![c] = @ + size]
  /\ age' = [age EXCEPT ![c] = 0] /\ idleTimer' = idleTimer \union {c}
  /\ stats' = Counted(size)
  /\ UNCHANGED <<shuttingDown, sessions, inFlightUpgrades, client, upstream, disposing,
                 got, crashed>>

BacklogFull(c, size) ==
  /\ Receive(c, size)
  /\ upstream[c] # "open" /\ ~QueueFits(c, size)
  /\ CloseSession(c, client[c], upstream[c], TRUE, Counted(size))

\* Mutant: the queue is sent and kept.
UpstreamOpenKeeps(c) ==
  /\ upstream[c] = "connecting"
  /\ upstream' = [upstream EXCEPT ![c] = "open"]
  /\ IF c \in sessions
       THEN /\ got' = [got EXCEPT ![c] = @ \o pending[c]]
            /\ age' = [age EXCEPT ![c] = 0] /\ idleTimer' = idleTimer \union {c}
       ELSE UNCHANGED <<got, age, idleTimer>>
  /\ UNCHANGED <<shuttingDown, sessions, inFlightUpgrades, client, pending, queuedBytes,
                 disposing, stats, sent, crashed>>

\* onUpstreamOpen: the queue is sent in order, within the handler.  An
\* upstream whose session is over opens as well, and has no listener.
UpstreamOpen(c) ==
  /\ upstream[c] = "connecting"
  /\ upstream' = [upstream EXCEPT ![c] = "open"]
  /\ IF c \in sessions
       THEN /\ got' = [got EXCEPT ![c] = @ \o pending[c]]
            /\ pending' = [pending EXCEPT ![c] = << >>]
            /\ queuedBytes' = [queuedBytes EXCEPT ![c] = 0]
            /\ age' = [age EXCEPT ![c] = 0] /\ idleTimer' = idleTimer \union {c}
       ELSE UNCHANGED <<got, pending, queuedBytes, age, idleTimer>>
  /\ UNCHANGED <<shuttingDown, sessions, inFlightUpgrades, client, disposing, stats,
                 sent, crashed>>

\* onUpstreamMessage; while the client is closing the message is dropped.
Downstream(c, size) ==
  /\ c \in sessions /\ upstream[c] = "open" /\ client[c] = "open"
  /\ stats.down + size <= MaxDown
  /\ age' = [age EXCEPT ![c] = 0] /\ idleTimer' = idleTimer \union {c}
  /\ stats' = [stats EXCEPT !.down = @ + size]
  /\ UNCHANGED <<shuttingDown, sessions, inFlightUpgrades, client, upstream, pending,
                 queuedBytes, disposing, sent, got, crashed>>

Tick ==
  /\ \E c \in sessions : age[c] < IdleTimeout
  /\ age' = [c \in Conn |-> IF c \in sessions /\ age[c] < IdleTimeout THEN age[c] + 1 ELSE age[c]]
  /\ UNCHANGED <<shuttingDown, sessions, inFlightUpgrades, client, upstream, pending,
                 queuedBytes, idleTimer, disposing, stats, sent, got, crashed>>

\* All that happens while the process neither stops nor is told to.
SessionNext ==
  \/ \E c \in Conn :
       \/ Upgrade(c) \/ UpgradeFails(c) \/ DelayedDispose(c)
       \/ ClientClosing(c) \/ ClientClosed(c) \/ ClientError(c)
       \/ UpstreamClosing(c) \/ UpstreamClosed(c) \/ UpstreamError(c)
       \/ UpstreamOpen(c) \/ UpstreamUnreachable(c)
       \/ CheckIdleTimeout(c)
       \/ \E size \in Size :
            Forward(c, size) \/ Queue(c, size) \/ BacklogFull(c, size) \/ Downstream(c, size)
  \/ HandshakeRefused
  \/ Tick

Next == ~crashed /\ (SessionNext \/ Close)

Spec == Init /\ [][Next]_vars

\* Timers fire.  Peers and networks owe nothing: they may stay silent forever.
SessionFairness ==
  /\ WF_vars(Tick)
  /\ \A c \in Conn : WF_vars(CheckIdleTimeout(c))

-----------------------------------------------------------------------------
(* Properties *)

\* The upstream gets a client's messages in order, once each, and while the
\* session lives nothing is missing: what was not sent is still queued.
InOrder ==
  \A c \in Conn :
    /\ IsPrefix(got[c], sent[c])
    /\ c \in sessions => got[c] \o pending[c] = sent[c]

\* The queue in front of an upstream respects both its limits, and an open
\* upstream leaves nothing behind in it.
BacklogBounded ==
  \A c \in sessions :
    /\ Len(pending[c]) <= MaxPendingMessages /\ queuedBytes[c] <= MaxPendingBytes
    /\ upstream[c] = "open" => pending[c] = << >>

\* The counters of /status agree with the sessions however these ended, and
\* at no time were there more than maxConnections of them.
StatsExact ==
  /\ stats.active = Cardinality(sessions)
  /\ stats.active <= stats.peak /\ stats.peak <= maxConnections
  /\ stats.total = Cardinality({c \in Conn : upstream[c] # "none"})

\* Bytes are counted exactly: the ones a session has queued, which its limit
\* is about, and the ones all clients sent, which /status reports.
BytesExact ==
  /\ \A c \in sessions : queuedBytes[c] = Bytes(pending[c])
  /\ stats.up = Bytes([i \in 1..Cardinality(Conn) |-> Bytes(sent[SetToSeq(Conn)[i]])])

\* A session whose traffic stops is given up, even when its upstream neither
\* opens nor fails, unless the process ends before or its timer was spent on a
\* check that Date.now() made too early: such a session has no timer left.
SessionsEnd ==
  \A c \in Conn : (c \in sessions) ~> (c \notin sessions \/ c \notin idleTimer \/ crashed)

=============================================================================
