---------------------------- MODULE RelayClient ----------------------------
(***************************************************************************)
(* The client library (src/packages/commandrelay-client/src/index.ts): one *)
(* CommandRelayClient, the sockets its connect() calls open one after the  *)
(* other, the handshake of each, and the requests in flight.               *)
(*                                                                         *)
(* Sockets are those of the ws library.  Closing or terminating a socket   *)
(* that is still connecting makes it emit an error later; an error event   *)
(* that finds no listener ends the process.  The gateway greets a          *)
(* connection at most once, answers a request at most once (a              *)
(* rate-limited one never: its error carries no requestId) and pushes      *)
(* output without a requestId.                                             *)
(***************************************************************************)
EXTENDS Naturals, Sequences

CONSTANTS
  MaxSockets,   \* bound: sockets opened in a behaviour
  MaxRequests,  \* bound: requests sent in a behaviour
  MaxCalls,     \* bound: connect() calls waiting for the protocol runtime
  MaxWire,      \* bound: messages under way on a socket
  MaxOutputs    \* bound: output messages received

ASSUME ClientAssumption ==
  /\ MaxSockets \in Nat /\ MaxRequests \in Nat
  /\ MaxCalls \in Nat /\ MaxWire \in Nat /\ MaxOutputs \in Nat

VARIABLES
  protocolRuntime,  \* the promise that loadProtocolRuntime caches
  loading,          \* connect() calls that wait for it
  opened,           \* sockets opened so far
  socket,           \* this.socket
  ready,            \* socket -> readyState
  heard,            \* sockets whose listeners are on
  shake,            \* socket -> what became of the connect() that opened it
  hello,            \* the socket whose greeting helloPayload holds
  asked,            \* requests sent so far
  command,          \* request -> what it asks for
  via,              \* request -> the socket it was sent on
  pendingRequests,
  state,            \* request -> what its caller has got
  answered,         \* requests the gateway has answered
  wire,             \* socket -> messages on their way to the client
  outputs,          \* history variable: output messages received, events emitted
  overlapped,       \* history variable: a connect() began before another ended
  crashed           \* an error event found no listener, or a rejection no handler

requestVars == <<asked, command, via, answered>>
vars == <<protocolRuntime, loading, opened, socket, ready, heard, shake, hello,
          asked, command, via, pendingRequests, state, answered, wire, outputs,
          overlapped, crashed>>

Sockets == 1..MaxSockets
Requests == 1..MaxRequests
NoSocket == 0
NoRequest == 0

\* Only disconnect does more with its answer than return it.
Commands == {"call", "disconnect"}

\* What a message is to the client: a greeting, valid or not; an answer that
\* resolves its request ("ok") or rejects it ("bad": an error report, an
\* unexpected type, an invalid payload); output of a pane.
Message ==
  [type : {"hello"}, id : {NoRequest}, body : {"ok", "bad"}]
    \union [type : {"answer"}, id : Requests, body : {"ok", "bad"}]
    \union [type : {"output"}, id : {NoRequest}, body : {"ok"}]

TypeOK ==
  /\ protocolRuntime \in {"none", "loading", "loaded", "failed"}
  /\ loading \in Nat
  /\ opened \in 0..MaxSockets /\ asked \in 0..MaxRequests
  /\ socket \in 0..opened /\ hello \in 0..opened
  /\ ready \in [Sockets -> {"none", "connecting", "open", "aborted", "closing", "closed"}]
  /\ heard \subseteq 1..opened
  /\ shake \in [Sockets -> {"none", "waiting", "resolved", "rejected"}]
  /\ command \in [Requests -> Commands]
  /\ via \in [Requests -> Sockets \union {NoSocket}]
  /\ pendingRequests \subseteq 1..asked
  /\ state \in [Requests -> {"none", "waiting", "resolved", "rejected"}]
  /\ answered \subseteq 1..asked
  /\ wire \in [Sockets -> Seq(Message)]
  /\ outputs \in [received : Nat, emitted : Nat]
  /\ overlapped \in BOOLEAN /\ crashed \in BOOLEAN

Init ==
  /\ protocolRuntime = "none" /\ loading = 0
  /\ opened = 0 /\ socket = NoSocket /\ hello = NoSocket /\ heard = {}
  /\ ready = [s \in Sockets |-> "none"]
  /\ shake = [s \in Sockets |-> "none"]
  /\ asked = 0 /\ pendingRequests = {} /\ answered = {}
  /\ command = [r \in Requests |-> "call"]
  /\ via = [r \in Requests |-> NoSocket]
  /\ state = [r \in Requests |-> "none"]
  /\ wire = [s \in Sockets |-> << >>]
  /\ outputs = [received |-> 0, emitted |-> 0]
  /\ overlapped = FALSE /\ crashed = FALSE

-----------------------------------------------------------------------------
(* Ending a connection *)

\* ws: what close() and terminate() make of a readyState.
Ended(readyState) ==
  CASE readyState = "connecting" -> "aborted"
    [] readyState = "open" -> "closing"
    [] OTHER -> readyState

\* clearPendingRequests, when the callers have st: a promise that is settled
\* already stays as it is.
Rejected(st) ==
  [r \in Requests |-> IF r \in pendingRequests /\ st[r] = "waiting" THEN "rejected" ELSE st[r]]

\* clearSocket, when the sockets are rd and the callers st already: it ends the
\* connection that is the current one NOW, whoever calls it.
ClearSocket(rd, st) ==
  /\ ready' = [s \in Sockets |-> IF s = socket THEN Ended(rd[s]) ELSE rd[s]]
  /\ heard' = heard \ {socket}
  /\ socket' = NoSocket
  /\ hello' = NoSocket
  /\ pendingRequests' = {}
  /\ state' = Rejected(st)

\* settleError of the connect() that opened s: only its first call counts.
SettleError(s, rd) ==
  IF shake[s] = "waiting"
  THEN /\ shake' = [shake EXCEPT ![s] = "rejected"]
       /\ ClearSocket(rd, state)
  ELSE /\ ready' = rd
       /\ UNCHANGED <<shake, heard, socket, hello, pendingRequests, state>>

\* close(): also the end of a disconnect() that found no open socket.
Close ==
  /\ ClearSocket(ready, state)
  /\ UNCHANGED <<requestVars, protocolRuntime, loading, opened, shake, wire,
                 outputs, overlapped, crashed>>

-----------------------------------------------------------------------------
(* connect() *)

Waiting == {s \in Sockets : shake[s] = "waiting"}

\* Mutant: connect() does not look whether there is a connection.
ConnectUnguarded ==
  /\ loading < MaxCalls
  /\ loading' = loading + 1
  /\ protocolRuntime' = IF protocolRuntime = "none" THEN "loading" ELSE protocolRuntime
  /\ overlapped' = (overlapped \/ loading > 0 \/ Waiting # {})
  /\ UNCHANGED <<requestVars, opened, socket, ready, heard, shake, hello,
                 pendingRequests, state, wire, outputs, crashed>>

\* The guard looks at this.socket before the await, not after it.
Connect ==
  /\ socket = NoSocket
  /\ loading < MaxCalls
  /\ loading' = loading + 1
  /\ protocolRuntime' = IF protocolRuntime = "none" THEN "loading" ELSE protocolRuntime
  /\ overlapped' = (overlapped \/ loading > 0 \/ Waiting # {})
  /\ UNCHANGED <<requestVars, opened, socket, ready, heard, shake, hello,
                 pendingRequests, state, wire, outputs, crashed>>

LoadProtocolRuntime ==
  /\ protocolRuntime = "loading"
  /\ protocolRuntime' \in {"loaded", "failed"}
  /\ UNCHANGED <<requestVars, loading, opened, socket, ready, heard, shake, hello,
                 pendingRequests, state, wire, outputs, overlapped, crashed>>

ConnectResumes ==
  /\ loading > 0 /\ protocolRuntime = "loaded"
  /\ opened < MaxSockets
  /\ loading' = loading - 1
  /\ opened' = opened + 1
  /\ socket' = opened + 1
  /\ ready' = [ready EXCEPT ![opened + 1] = "connecting"]
  /\ heard' = heard \union {opened + 1}
  /\ shake' = [shake EXCEPT ![opened + 1] = "waiting"]
  /\ UNCHANGED <<requestVars, protocolRuntime, hello, pendingRequests, state, wire,
                 outputs, overlapped, crashed>>

ConnectFails ==
  /\ loading > 0 /\ protocolRuntime = "failed"
  /\ loading' = loading - 1
  /\ UNCHANGED <<requestVars, protocolRuntime, opened, socket, ready, heard, shake,
                 hello, pendingRequests, state, wire, outputs, overlapped, crashed>>

\* Mutant: clearSocket stops the timer of the handshake.
HandshakeTimeoutHeard(s) ==
  /\ shake[s] = "waiting" /\ s \in heard
  /\ SettleError(s, [ready EXCEPT ![s] = Ended(@)])
  /\ wire' = [wire EXCEPT ![s] = << >>]
  /\ UNCHANGED <<requestVars, protocolRuntime, loading, opened, outputs, overlapped,
                 crashed>>

\* The timer of a handshake runs until that handshake is settled: neither
\* close() nor clearSocket stops it.
HandshakeTimeout(s) ==
  /\ shake[s] = "waiting"
  /\ SettleError(s, [ready EXCEPT ![s] = Ended(@)])
  /\ wire' = [wire EXCEPT ![s] = << >>]
  /\ UNCHANGED <<requestVars, protocolRuntime, loading, opened, outputs, overlapped,
                 crashed>>

-----------------------------------------------------------------------------
(* Events of a socket *)

\* The connection opens; the server at its other end may greet it.
SocketOpen(s) ==
  /\ ready[s] = "connecting"
  /\ ready' = [ready EXCEPT ![s] = "open"]
  /\ \E greeting \in {<< >>} \union
          {<<[type |-> "hello", id |-> NoRequest, body |-> b]>> : b \in {"ok", "bad"}} :
       wire' = [wire EXCEPT ![s] = greeting]
  /\ UNCHANGED <<requestVars, protocolRuntime, loading, opened, socket, heard, shake,
                 hello, pendingRequests, state, outputs, overlapped, crashed>>

SocketError(s) ==
  /\ ready[s] \in {"connecting", "aborted"}
  /\ IF s \in heard
     THEN /\ SettleError(s, [ready EXCEPT ![s] = "closing"])
          /\ UNCHANGED crashed
     ELSE /\ crashed' = TRUE
          /\ UNCHANGED <<shake, ready, heard, socket, hello, pendingRequests, state>>
  /\ UNCHANGED <<requestVars, protocolRuntime, loading, opened, wire, outputs, overlapped>>

SocketClose(s) ==
  /\ ready[s] \in {"open", "closing"}
  /\ LET rd == [ready EXCEPT ![s] = "closed"]
     IN  CASE s \notin heard ->
                /\ ready' = rd
                /\ UNCHANGED <<shake, heard, socket, hello, pendingRequests, state>>
           [] s \in heard /\ shake[s] # "resolved" -> SettleError(s, rd)
           [] s \in heard /\ shake[s] = "resolved" ->
                ClearSocket(rd, state) /\ UNCHANGED shake
  /\ wire' = [wire EXCEPT ![s] = << >>]
  /\ UNCHANGED <<requestVars, protocolRuntime, loading, opened, outputs, overlapped,
                 crashed>>

-----------------------------------------------------------------------------
(* Requests *)

\* sendRequest on an open socket; on any other it throws.
SendRequest(c) ==
  /\ asked < MaxRequests
  /\ socket # NoSocket
  /\ ready[socket] = "open"
  /\ asked' = asked + 1
  /\ command' = [command EXCEPT ![asked + 1] = c]
  /\ via' = [via EXCEPT ![asked + 1] = socket]
  /\ state' = [state EXCEPT ![asked + 1] = "waiting"]
  /\ pendingRequests' = pendingRequests \union {asked + 1}
  /\ UNCHANGED <<protocolRuntime, loading, opened, socket, ready, heard, shake, hello,
                 answered, wire, outputs, overlapped, crashed>>

\* socket.send throws: the client closes and the caller gets the error.  The
\* close has rejected the request's own promise too, which nobody awaits: an
\* unhandled rejection, which ends the process.
SendThrows ==
  /\ asked < MaxRequests
  /\ socket # NoSocket
  /\ ready[socket] = "open"
  /\ asked' = asked + 1
  /\ ClearSocket(ready, [state EXCEPT ![asked + 1] = "rejected"])
  /\ crashed' = TRUE
  /\ UNCHANGED <<command, via, answered, protocolRuntime, loading, opened, shake, wire,
                 outputs, overlapped>>

\* A pending request gets its result; a disconnect() closes in its finally.
Settle(r, result) ==
  IF command[r] = "disconnect"
  THEN ClearSocket(ready, [state EXCEPT ![r] = result])
  ELSE /\ state' = [state EXCEPT ![r] = result]
       /\ pendingRequests' = pendingRequests \ {r}
       /\ UNCHANGED <<ready, heard, socket, hello>>

RequestTimeout(r) ==
  /\ r \in pendingRequests
  /\ Settle(r, "rejected")
  /\ UNCHANGED <<requestVars, protocolRuntime, loading, opened, shake, wire, outputs,
                 overlapped, crashed>>

\* The gateway answers a request on the connection it came by; messages to a
\* socket nobody listens to have no effect and are left out.
Answer(r, body) ==
  LET s == via[r]
  IN  /\ r \in 1..asked /\ r \notin answered
      /\ s \in heard /\ ready[s] = "open" /\ Len(wire[s]) < MaxWire
      /\ answered' = answered \union {r}
      /\ wire' = [wire EXCEPT ![s] = Append(@, [type |-> "answer", id |-> r, body |-> body])]
      /\ UNCHANGED <<asked, command, via, protocolRuntime, loading, opened, socket, ready,
                     heard, shake, hello, pendingRequests, state, outputs, overlapped,
                     crashed>>

\* The gateway streams a pane the client has attached.
PushOutput(s) ==
  /\ \E r \in answered : via[r] = s
  /\ s \in heard /\ ready[s] = "open" /\ Len(wire[s]) < MaxWire
  /\ outputs.received < MaxOutputs
  /\ wire' = [wire EXCEPT ![s] = Append(@, [type |-> "output", id |-> NoRequest, body |-> "ok"])]
  /\ UNCHANGED <<requestVars, protocolRuntime, loading, opened, socket, ready, heard, shake,
                 hello, pendingRequests, state, outputs, overlapped, crashed>>

-----------------------------------------------------------------------------
(* handleMessage and dispatchIncoming *)

\* What dispatchIncoming emits as an event: nothing that has no requestId, and
\* no answer to a pending request.
Emits(m) == m.id # NoRequest /\ m.id \notin pendingRequests

ReceiveHello(s, m) ==
  /\ m.type = "hello"
  /\ IF m.body = "ok"
     THEN /\ shake' = [shake EXCEPT ![s] = "resolved"]
          /\ hello' = s
          /\ UNCHANGED <<ready, heard, socket, pendingRequests, state>>
     ELSE SettleError(s, ready)
  /\ UNCHANGED outputs

\* Mutant: an answer that does not fit removes its request without rejecting it.
ReceiveAnswerSilent(m) ==
  /\ m.type = "answer"
  /\ IF m.id \in pendingRequests
     THEN IF m.body = "bad"
          THEN /\ pendingRequests' = pendingRequests \ {m.id}
               /\ UNCHANGED <<ready, heard, socket, hello, state>>
          ELSE Settle(m.id, IF m.body = "ok" THEN "resolved" ELSE "rejected")
     ELSE UNCHANGED <<ready, heard, socket, hello, pendingRequests, state>>
  /\ UNCHANGED <<shake, outputs>>

ReceiveAnswer(m) ==
  /\ m.type = "answer"
  /\ IF m.id \in pendingRequests
     THEN Settle(m.id, IF m.body = "ok" THEN "resolved" ELSE "rejected")
     ELSE UNCHANGED <<ready, heard, socket, hello, pendingRequests, state>>
  /\ UNCHANGED <<shake, outputs>>

ReceiveOutput(m) ==
  /\ m.type = "output"
  /\ outputs' = [received |-> outputs.received + 1,
                 emitted |-> outputs.emitted + IF Emits(m) THEN 1 ELSE 0]
  /\ UNCHANGED <<ready, heard, socket, hello, pendingRequests, state, shake>>

Receive(s) ==
  /\ s \in heard
  /\ wire[s] # << >>
  /\ LET m == Head(wire[s])
     IN  ReceiveHello(s, m) \/ ReceiveAnswer(m) \/ ReceiveOutput(m)
  /\ wire' = [wire EXCEPT ![s] = Tail(@)]
  /\ UNCHANGED <<requestVars, protocolRuntime, loading, opened, overlapped, crashed>>

-----------------------------------------------------------------------------
Next ==
  /\ ~crashed
  /\ \/ Close \/ Connect \/ LoadProtocolRuntime \/ ConnectResumes \/ ConnectFails
     \/ SendThrows
     \/ \E c \in Commands : SendRequest(c)
     \/ \E s \in Sockets : \/ HandshakeTimeout(s) \/ SocketOpen(s) \/ SocketError(s)
                           \/ SocketClose(s) \/ PushOutput(s) \/ Receive(s)
     \/ \E r \in Requests : \/ RequestTimeout(r)
                            \/ \E body \in {"ok", "bad"} : Answer(r, body)

Spec == Init /\ [][Next]_vars

\* Node runs the timers that are set.
Fairness ==
  /\ \A s \in Sockets : WF_vars(~crashed /\ HandshakeTimeout(s))
  /\ \A r \in Requests : WF_vars(~crashed /\ RequestTimeout(r))

FairSpec == Spec /\ Fairness

-----------------------------------------------------------------------------
(* Properties *)

\* A caller waits for its request exactly while the request is in the map, so
\* however requests, answers, timeouts and closes meet, no promise is dropped
\* unsettled and no settled one is kept (promiseForRequest, dispatchIncoming,
\* clearPendingRequests).
NoLostPromise == \A r \in Requests : state[r] = "waiting" <=> r \in pendingRequests

\* Requests are pending only while there is a connection: a connection that
\* ends, by whichever of the ways, takes its requests with it (clearSocket).
PendingNeedsSocket == pendingRequests # {} => socket # NoSocket

\* As long as callers let one connect() end before the next, at most one
\* socket is listened to, and the greeting, the requests in flight and
\* this.socket belong to that one connection.
OneConnection ==
  ~overlapped =>
    /\ heard \subseteq {socket}
    /\ hello \in {NoSocket, socket}
    /\ \A r \in pendingRequests : via[r] = socket

\* Every connect() and every request ends, whatever the network and the caller
\* do meanwhile, close() included, unless the process ends before.
CallsSettle ==
  /\ \A s \in Sockets : shake[s] = "waiting" ~> (shake[s] # "waiting" \/ crashed)
  /\ \A r \in Requests : state[r] = "waiting" ~> (state[r] # "waiting" \/ crashed)

=============================================================================
