------------------------- MODULE RelayClient_proofs -------------------------
(***************************************************************************)
(* The safety properties of the two clients of the gateway's protocol, the *)
(* library and the web page, for any number of connections, requests and   *)
(* overlapping calls.                                                      *)
(***************************************************************************)
EXTENDS RelayClient, WebClient, SequenceTheorems, FiniteSetTheorems, TLAPS

ReadyStates == {"none", "connecting", "open", "aborted", "closing", "closed"}
CallerStates == {"none", "waiting", "resolved", "rejected"}

\* What OneConnection rests on: without an overlap at most one connect() waits
\* for the protocol runtime, and none while there is a connection.
OneCall == ~overlapped => loading \in {0, 1} /\ (loading = 1 => socket = NoSocket)

\* The inductive invariant.
ClientInv ==
  /\ TypeOK
  /\ NoLostPromise
  /\ PendingNeedsSocket
  /\ OneConnection
  /\ OneCall

\* What a step that ends the current connection leaves behind.
Cleared ==
  /\ ready' \in [Sockets -> ReadyStates]
  /\ heard' = heard \ {socket}
  /\ socket' = NoSocket
  /\ hello' = NoSocket
  /\ pendingRequests' = {}
  /\ state' \in [Requests -> CallerStates]
  /\ \A r \in Requests : state'[r] # "waiting"

-----------------------------------------------------------------------------
\* close() and terminate() take a readyState to a readyState.
LEMMA EndedType ==
  ASSUME NEW readyState \in ReadyStates
  PROVE  Ended(readyState) \in ReadyStates
BY DEF Ended, ReadyStates

\* clearSocket ends every wait, whatever the step did to the callers before.
LEMMA ClearSocketClears ==
  ASSUME NEW rd \in [Sockets -> ReadyStates],
         NEW st \in [Requests -> CallerStates],
         \A r \in Requests : st[r] = "waiting" => r \in pendingRequests,
         ClearSocket(rd, st)
  PROVE  Cleared
<1>1. ready' \in [Sockets -> ReadyStates]
  BY EndedType DEF ClearSocket
<1>2. /\ state' \in [Requests -> CallerStates]
      /\ \A r \in Requests : state'[r] # "waiting"
  BY DEF ClearSocket, Rejected, CallerStates
<1> QED BY <1>1, <1>2 DEF ClearSocket, Cleared

\* settleError either ends the current connection or leaves all but the
\* readyStates alone.
LEMMA SettleErrorEffect ==
  ASSUME ClientInv, NEW s \in Sockets, NEW rd \in [Sockets -> ReadyStates],
         SettleError(s, rd)
  PROVE  /\ shake' \in [Sockets -> {"none", "waiting", "resolved", "rejected"}]
         /\ \/ Cleared
            \/ /\ ready' \in [Sockets -> ReadyStates]
               /\ UNCHANGED <<heard, socket, hello, pendingRequests, state>>
<1>1. /\ shake \in [Sockets -> {"none", "waiting", "resolved", "rejected"}]
      /\ state \in [Requests -> CallerStates]
      /\ \A r \in Requests : state[r] = "waiting" => r \in pendingRequests
  BY DEF ClientInv, TypeOK, NoLostPromise, CallerStates
<1>2. CASE shake[s] = "waiting"
  <2>1. Cleared
    BY <1>1, <1>2, ClearSocketClears DEF SettleError
  <2> QED BY <1>1, <1>2, <2>1 DEF SettleError
<1>3. CASE shake[s] # "waiting"
  BY <1>1, <1>3 DEF SettleError
<1> QED BY <1>2, <1>3

\* Settling a pending request removes it alone, or, for a disconnect, ends the
\* current connection.
LEMMA SettleEffect ==
  ASSUME ClientInv, NEW r \in pendingRequests, NEW result \in {"resolved", "rejected"},
         Settle(r, result)
  PROVE  \/ Cleared
         \/ /\ state' = [state EXCEPT ![r] = result]
            /\ pendingRequests' = pendingRequests \ {r}
            /\ UNCHANGED <<ready, heard, socket, hello>>
<1>1. /\ ready \in [Sockets -> ReadyStates]
      /\ state \in [Requests -> CallerStates]
      /\ \A q \in Requests : state[q] = "waiting" => q \in pendingRequests
  BY DEF ClientInv, TypeOK, NoLostPromise, CallerStates, ReadyStates
<1>2. CASE command[r] = "disconnect"
  <2> DEFINE st == [state EXCEPT ![r] = result]
  <2>1. /\ st \in [Requests -> CallerStates]
        /\ \A q \in Requests : st[q] = "waiting" => q \in pendingRequests
    BY <1>1 DEF CallerStates
  <2>2. ClearSocket(ready, st)
    BY <1>2 DEF Settle
  <2> HIDE DEF st
  <2> QED BY <1>1, <2>1, <2>2, ClearSocketClears
<1>3. CASE command[r] # "disconnect"
  BY <1>3 DEF Settle
<1> QED BY <1>2, <1>3

\* The part of the invariant about the connection survives its end.
LEMMA ClearedKeeps ==
  ASSUME ClientInv, Cleared,
         opened' = opened, asked' \in asked..MaxRequests, via' = via,
         overlapped' = overlapped, loading' = loading
  PROVE  /\ socket' \in 0..opened' /\ hello' \in 0..opened'
         /\ heard' \subseteq 1..opened'
         /\ ready' \in [Sockets -> ReadyStates]
         /\ pendingRequests' \subseteq 1..asked'
         /\ state' \in [Requests -> CallerStates]
         /\ NoLostPromise' /\ PendingNeedsSocket' /\ OneConnection' /\ OneCall'
<1>1. /\ opened \in Nat /\ heard \subseteq 1..opened
  BY ClientAssumption DEF ClientInv, TypeOK
<1>2. ~overlapped => heard' = {}
  BY DEF Cleared, ClientInv, OneConnection
<1>3. NoLostPromise' /\ PendingNeedsSocket'
  BY DEF Cleared, NoLostPromise, PendingNeedsSocket
<1>4. OneConnection'
  BY <1>2 DEF Cleared, OneConnection
<1>5. OneCall'
  BY DEF Cleared, ClientInv, OneCall
<1>6. /\ socket' \in 0..opened' /\ hello' \in 0..opened'
      /\ heard' \subseteq 1..opened'
      /\ pendingRequests' \subseteq 1..asked'
  <2>1. socket' \in 0..opened' /\ hello' \in 0..opened'
    BY <1>1 DEF Cleared, NoSocket
  <2>2. heard' \subseteq 1..opened'
    BY <1>1 DEF Cleared
  <2>3. pendingRequests' \subseteq 1..asked'
    BY DEF Cleared
  <2> QED BY <2>1, <2>2, <2>3
<1>7. ready' \in [Sockets -> ReadyStates] /\ state' \in [Requests -> CallerStates]
  BY DEF Cleared
<1> QED BY <1>3, <1>4, <1>5, <1>6, <1>7

\* The types that do not belong to a connection.
Rest ==
  /\ protocolRuntime \in {"none", "loading", "loaded", "failed"}
  /\ loading \in Nat
  /\ opened \in 0..MaxSockets /\ asked \in 0..MaxRequests
  /\ shake \in [Sockets -> {"none", "waiting", "resolved", "rejected"}]
  /\ command \in [Requests -> Commands]
  /\ via \in [Requests -> Sockets \union {NoSocket}]
  /\ answered \subseteq 1..asked
  /\ wire \in [Sockets -> Seq(Message)]
  /\ outputs \in [received : Nat, emitted : Nat]
  /\ overlapped \in BOOLEAN /\ crashed \in BOOLEAN

\* A step that ends the connection and keeps the other types keeps the
\* invariant.
LEMMA ClearedStep ==
  ASSUME ClientInv, Cleared, Rest',
         opened' = opened, asked' \in asked..MaxRequests, via' = via,
         overlapped' = overlapped, loading' = loading
  PROVE  ClientInv'
<1>1. /\ socket' \in 0..opened' /\ hello' \in 0..opened'
      /\ heard' \subseteq 1..opened'
      /\ ready' \in [Sockets -> ReadyStates]
      /\ pendingRequests' \subseteq 1..asked'
      /\ state' \in [Requests -> CallerStates]
      /\ NoLostPromise' /\ PendingNeedsSocket' /\ OneConnection' /\ OneCall'
  BY ClearedKeeps
<1>2. TypeOK'
  BY <1>1 DEF Rest, TypeOK, ReadyStates, CallerStates
<1> QED BY <1>1, <1>2 DEF ClientInv

\* A step that changes at most readyStates, outcomes of handshakes and what is
\* on the wire keeps the invariant.
LEMMA QuietStep ==
  ASSUME ClientInv, Rest',
         ready' \in [Sockets -> ReadyStates],
         UNCHANGED <<loading, opened, asked, via, overlapped, heard, socket, hello,
                     pendingRequests, state>>
  PROVE  ClientInv'
<1>1. TypeOK'
  BY DEF ClientInv, TypeOK, Rest, ReadyStates
<1>2. NoLostPromise' /\ PendingNeedsSocket' /\ OneConnection' /\ OneCall'
  BY DEF ClientInv, NoLostPromise, PendingNeedsSocket, OneConnection, OneCall
<1> QED BY <1>1, <1>2 DEF ClientInv

\* A step that settles one pending request keeps the invariant.
LEMMA SettledStep ==
  ASSUME ClientInv, Rest', NEW r \in pendingRequests,
         NEW result \in {"resolved", "rejected"},
         state' = [state EXCEPT ![r] = result],
         pendingRequests' = pendingRequests \ {r},
         UNCHANGED <<loading, opened, asked, via, overlapped, heard, socket, hello, ready>>
  PROVE  ClientInv'
<1>1. TypeOK'
  BY DEF ClientInv, TypeOK, Rest
<1>2. NoLostPromise'
  BY DEF ClientInv, TypeOK, NoLostPromise
<1>3. PendingNeedsSocket' /\ OneConnection' /\ OneCall'
  BY DEF ClientInv, PendingNeedsSocket, OneConnection, OneCall
<1> QED BY <1>1, <1>2, <1>3 DEF ClientInv

-----------------------------------------------------------------------------
\* Events of a socket keep the invariant.
LEMMA SocketEventStep ==
  ASSUME ClientInv, NEW s \in Sockets,
         HandshakeTimeout(s) \/ SocketOpen(s) \/ SocketError(s) \/ SocketClose(s)
  PROVE  ClientInv'
<1>0. /\ ready \in [Sockets -> ReadyStates] /\ Rest
      /\ wire \in [Sockets -> Seq(Message)] /\ asked \in Nat
      /\ asked \in asked..MaxRequests
  BY ClientAssumption DEF ClientInv, TypeOK, Rest, ReadyStates
<1>1. CASE HandshakeTimeout(s)
  <2> DEFINE rd == [ready EXCEPT ![s] = Ended(@)]
  <2>1. rd \in [Sockets -> ReadyStates]
    BY <1>0, EndedType
  <2>2. SettleError(s, rd)
    BY <1>1 DEF HandshakeTimeout
  <2> HIDE DEF rd
  <2>3. wire' \in [Sockets -> Seq(Message)]
    BY <1>0, <1>1 DEF HandshakeTimeout
  <2>4. Rest'
    BY <1>0, <1>1, <2>1, <2>2, <2>3, SettleErrorEffect DEF HandshakeTimeout, Rest, requestVars
  <2>5. UNCHANGED <<loading, opened, asked, via, overlapped>>
    BY <1>1 DEF HandshakeTimeout, requestVars
  <2>6. asked' \in asked..MaxRequests
    BY <1>0, <2>5
  <2>7. CASE Cleared
    BY <2>4, <2>5, <2>6, <2>7, ClearedStep
  <2>8. CASE /\ ready' \in [Sockets -> ReadyStates]
             /\ UNCHANGED <<heard, socket, hello, pendingRequests, state>>
    BY <2>4, <2>5, <2>8, QuietStep
  <2> QED BY <2>1, <2>2, <2>7, <2>8, SettleErrorEffect
<1>2. CASE SocketOpen(s)
  <2>1. ready' \in [Sockets -> ReadyStates]
    BY <1>0, <1>2 DEF SocketOpen, ReadyStates
  <2>2. wire' \in [Sockets -> Seq(Message)]
    <3>1. PICK greeting \in {<< >>} \union
            {<<[type |-> "hello", id |-> NoRequest, body |-> b]>> : b \in {"ok", "bad"}} :
              wire' = [wire EXCEPT ![s] = greeting]
      BY <1>2 DEF SocketOpen
    <3>2. \A b \in {"ok", "bad"} : [type |-> "hello", id |-> NoRequest, body |-> b] \in Message
      BY DEF Message
    <3>3. << >> \in Seq(Message) /\ \A m \in Message : <<m>> \in Seq(Message)
      OBVIOUS
    <3>4. greeting \in Seq(Message)
      BY <3>1, <3>2, <3>3
    <3> QED BY <1>0, <3>1, <3>4
  <2>3. Rest'
    BY <1>0, <1>2, <2>2 DEF SocketOpen, Rest, requestVars
  <2> QED BY <1>2, <2>1, <2>3, QuietStep DEF SocketOpen, requestVars
<1>3. CASE SocketError(s)
  <2> DEFINE rd == [ready EXCEPT ![s] = "closing"]
  <2>1. rd \in [Sockets -> ReadyStates]
    BY <1>0 DEF ReadyStates
  <2>2. UNCHANGED <<loading, opened, asked, via, overlapped>>
    BY <1>3 DEF SocketError, requestVars
  <2>3. asked' \in asked..MaxRequests
    BY <1>0, <2>2
  <2>4. CASE s \in heard
    <3>1. SettleError(s, rd) /\ crashed' = crashed
      BY <1>3, <2>4 DEF SocketError
    <3> HIDE DEF rd
    <3>2. Rest'
      BY <1>0, <1>3, <2>1, <3>1, SettleErrorEffect DEF SocketError, Rest, requestVars
    <3>3. CASE Cleared
      BY <2>2, <2>3, <3>2, <3>3, ClearedStep
    <3>4. CASE /\ ready' \in [Sockets -> ReadyStates]
               /\ UNCHANGED <<heard, socket, hello, pendingRequests, state>>
      BY <2>2, <3>2, <3>4, QuietStep
    <3> QED BY <2>1, <3>1, <3>3, <3>4, SettleErrorEffect
  <2>5. CASE s \notin heard
    <3>1. Rest'
      BY <1>0, <1>3, <2>5 DEF SocketError, Rest, requestVars
    <3> QED BY <1>0, <1>3, <2>2, <2>5, <3>1, QuietStep DEF SocketError
  <2> QED BY <2>4, <2>5
<1>4. CASE SocketClose(s)
  <2> DEFINE rd == [ready EXCEPT ![s] = "closed"]
  <2>1. rd \in [Sockets -> ReadyStates]
    BY <1>0 DEF ReadyStates
  <2>2. UNCHANGED <<loading, opened, asked, via, overlapped>>
    BY <1>4 DEF SocketClose, requestVars
  <2>3. asked' \in asked..MaxRequests
    BY <1>0, <2>2
  <2>4. wire' \in [Sockets -> Seq(Message)]
    BY <1>0, <1>4 DEF SocketClose
  <2>5. /\ protocolRuntime' = protocolRuntime /\ command' = command /\ answered' = answered
        /\ outputs' = outputs /\ crashed' = crashed
    BY <1>4 DEF SocketClose, requestVars
  <2>6. CASE s \notin heard
    <3>1. ready' = rd /\ UNCHANGED <<shake, heard, socket, hello, pendingRequests, state>>
      BY <1>4, <2>6 DEF SocketClose
    <3> HIDE DEF rd
    <3>2. Rest'
      BY <1>0, <2>2, <2>4, <2>5, <3>1 DEF Rest
    <3> QED BY <2>1, <2>2, <3>1, <3>2, QuietStep
  <2>7. CASE s \in heard /\ shake[s] # "resolved"
    <3>1. SettleError(s, rd)
      BY <1>4, <2>7 DEF SocketClose
    <3> HIDE DEF rd
    <3>2. Rest'
      BY <1>0, <2>1, <2>2, <2>4, <2>5, <3>1, SettleErrorEffect DEF Rest
    <3>3. CASE Cleared
      BY <2>2, <2>3, <3>2, <3>3, ClearedStep
    <3>4. CASE /\ ready' \in [Sockets -> ReadyStates]
               /\ UNCHANGED <<heard, socket, hello, pendingRequests, state>>
      BY <2>2, <3>2, <3>4, QuietStep
    <3> QED BY <2>1, <3>1, <3>3, <3>4, SettleErrorEffect
  <2>8. CASE s \in heard /\ shake[s] = "resolved"
    <3>1. ClearSocket(rd, state) /\ UNCHANGED shake
      BY <1>4, <2>8 DEF SocketClose
    <3> HIDE DEF rd
    <3>2. Rest'
      BY <1>0, <2>2, <2>4, <2>5, <3>1 DEF Rest
    <3>3. /\ state \in [Requests -> CallerStates]
          /\ \A r \in Requests : state[r] = "waiting" => r \in pendingRequests
      BY DEF ClientInv, TypeOK, NoLostPromise, CallerStates
    <3>4. Cleared
      BY <2>1, <3>1, <3>3, ClearSocketClears
    <3> QED BY <2>2, <2>3, <3>2, <3>4, ClearedStep
  <2> QED BY <2>6, <2>7, <2>8
<1> QED BY <1>1, <1>2, <1>3, <1>4

\* A message received keeps the invariant.
LEMMA ReceiveStep ==
  ASSUME ClientInv, NEW s \in Sockets, Receive(s)
  PROVE  ClientInv'
<1> DEFINE m == Head(wire[s])
<1>0. /\ ready \in [Sockets -> ReadyStates] /\ Rest
      /\ wire \in [Sockets -> Seq(Message)] /\ asked \in Nat
      /\ asked \in asked..MaxRequests
  BY ClientAssumption DEF ClientInv, TypeOK, Rest, ReadyStates
<1>1. m \in Message
  BY <1>0, HeadTailProperties DEF Receive
<1>2. wire' \in [Sockets -> Seq(Message)]
  <2>1. Tail(wire[s]) \in Seq(Message)
    BY <1>0, HeadTailProperties DEF Receive
  <2> QED BY <1>0, <2>1 DEF Receive
<1>3. /\ UNCHANGED <<loading, opened, asked, via, overlapped>>
      /\ UNCHANGED <<protocolRuntime, command, answered, crashed>>
  BY DEF Receive, requestVars
<1>4. asked' \in asked..MaxRequests
  BY <1>0, <1>3
<1>5. s \in heard
  BY DEF Receive
<1>6. ReceiveHello(s, m) \/ ReceiveAnswer(m) \/ ReceiveOutput(m)
  BY DEF Receive
<1> HIDE DEF m
<1>7. CASE ReceiveHello(s, m)
  <2>1. CASE m.body = "ok"
    <3>1. /\ shake' = [shake EXCEPT ![s] = "resolved"] /\ hello' = s /\ outputs' = outputs
          /\ UNCHANGED <<ready, heard, socket, pendingRequests, state>>
      BY <1>7, <2>1 DEF ReceiveHello
    <3>2. TypeOK'
      <4>1. s \in 0..opened'
        BY <1>3, <1>5 DEF ClientInv, TypeOK
      <4>2. shake' \in [Sockets -> {"none", "waiting", "resolved", "rejected"}]
        BY <3>1 DEF ClientInv, TypeOK
      <4> QED BY <1>2, <1>3, <3>1, <4>1, <4>2 DEF ClientInv, TypeOK
    <3>3. OneConnection'
      BY <1>3, <1>5, <3>1 DEF ClientInv, OneConnection
    <3>4. NoLostPromise' /\ PendingNeedsSocket' /\ OneCall'
      BY <1>3, <3>1 DEF ClientInv, NoLostPromise, PendingNeedsSocket, OneCall
    <3> QED BY <3>2, <3>3, <3>4 DEF ClientInv
  <2>2. CASE m.body # "ok"
    <3>1. SettleError(s, ready) /\ outputs' = outputs
      BY <1>7, <2>2 DEF ReceiveHello
    <3>2. Rest'
      BY <1>0, <1>2, <1>3, <3>1, SettleErrorEffect DEF Rest
    <3>3. CASE Cleared
      BY <1>3, <1>4, <3>2, <3>3, ClearedStep
    <3>4. CASE /\ ready' \in [Sockets -> ReadyStates]
               /\ UNCHANGED <<heard, socket, hello, pendingRequests, state>>
      BY <1>3, <3>2, <3>4, QuietStep
    <3> QED BY <1>0, <3>1, <3>3, <3>4, SettleErrorEffect
  <2> QED BY <2>1, <2>2
<1>8. CASE ReceiveAnswer(m)
  <2>1. Rest'
    BY <1>0, <1>2, <1>3, <1>8 DEF ReceiveAnswer, Rest
  <2>2. CASE m.id \in pendingRequests
    <3> DEFINE result == IF m.body = "ok" THEN "resolved" ELSE "rejected"
    <3>1. Settle(m.id, result) /\ result \in {"resolved", "rejected"}
      BY <1>8, <2>2 DEF ReceiveAnswer
    <3> HIDE DEF result
    <3>2. CASE Cleared
      BY <1>3, <1>4, <2>1, <3>2, ClearedStep
    <3>3. CASE /\ state' = [state EXCEPT ![m.id] = result]
               /\ pendingRequests' = pendingRequests \ {m.id}
               /\ UNCHANGED <<ready, heard, socket, hello>>
      BY <1>3, <2>1, <2>2, <3>1, <3>3, SettledStep
    <3> QED BY <2>2, <3>1, <3>2, <3>3, SettleEffect
  <2>3. CASE m.id \notin pendingRequests
    BY <1>0, <1>3, <1>8, <2>1, <2>3, QuietStep DEF ReceiveAnswer
  <2> QED BY <2>2, <2>3
<1>9. CASE ReceiveOutput(m)
  <2>1. outputs' \in [received : Nat, emitted : Nat]
    BY <1>0, <1>9 DEF ReceiveOutput, Rest
  <2>2. UNCHANGED <<ready, heard, socket, hello, pendingRequests, state, shake>>
    BY <1>9 DEF ReceiveOutput
  <2>3. Rest'
    BY <1>0, <1>2, <1>3, <2>1, <2>2 DEF Rest
  <2> QED BY <1>0, <1>3, <2>2, <2>3, QuietStep
<1> QED BY <1>6, <1>7, <1>8, <1>9

\* Sending, failing to send, timing out and answering keep the invariant.
LEMMA RequestStep ==
  ASSUME ClientInv,
         \/ SendThrows
         \/ \E c \in Commands : SendRequest(c)
         \/ \E s \in Sockets : PushOutput(s)
         \/ \E r \in Requests : RequestTimeout(r) \/ \E body \in {"ok", "bad"} : Answer(r, body)
  PROVE  ClientInv'
<1>0. /\ ready \in [Sockets -> ReadyStates] /\ Rest
      /\ state \in [Requests -> CallerStates]
      /\ wire \in [Sockets -> Seq(Message)] /\ asked \in Nat
      /\ asked \in asked..MaxRequests
      /\ \A r \in Requests : state[r] = "waiting" <=> r \in pendingRequests
  BY ClientAssumption DEF ClientInv, TypeOK, Rest, ReadyStates, CallerStates, NoLostPromise
<1>1. CASE SendThrows
  <2> DEFINE st == [state EXCEPT ![asked + 1] = "rejected"]
  <2>1. /\ st \in [Requests -> CallerStates]
        /\ \A r \in Requests : st[r] = "waiting" => r \in pendingRequests
    BY <1>0 DEF CallerStates
  <2>2. ClearSocket(ready, st)
    BY <1>1 DEF SendThrows
  <2> HIDE DEF st
  <2>3. Cleared
    BY <1>0, <2>1, <2>2, ClearSocketClears
  <2>4. asked' \in asked..MaxRequests /\ asked' = asked + 1
    BY <1>0, <1>1, ClientAssumption DEF SendThrows
  <2>5. /\ UNCHANGED <<loading, opened, via, overlapped>>
        /\ UNCHANGED <<protocolRuntime, command, answered, shake, wire, outputs>>
        /\ crashed' = TRUE
    BY <1>1 DEF SendThrows
  <2>6. answered \subseteq 1..asked'
    BY <1>0, <2>4 DEF Rest
  <2>7. asked' \in 0..MaxRequests
    BY <1>0, <2>4, ClientAssumption
  <2>8. Rest'
    BY <1>0, <2>5, <2>6, <2>7 DEF Rest
  <2> QED BY <2>3, <2>4, <2>5, <2>8, ClearedStep
<1>2. ASSUME NEW c \in Commands, SendRequest(c)
      PROVE  ClientInv'
  <2>1. /\ asked' = asked + 1 /\ asked + 1 \in Requests
        /\ asked' \in 0..MaxRequests
    BY <1>0, <1>2, ClientAssumption DEF SendRequest, Requests
  <2>2. /\ command' = [command EXCEPT ![asked + 1] = c]
        /\ via' = [via EXCEPT ![asked + 1] = socket]
        /\ state' = [state EXCEPT ![asked + 1] = "waiting"]
        /\ pendingRequests' = pendingRequests \union {asked + 1}
        /\ socket # NoSocket
        /\ UNCHANGED <<protocolRuntime, loading, opened, socket, ready, heard, shake, hello,
                       answered, wire, outputs, overlapped, crashed>>
    BY <1>2 DEF SendRequest
  <2>3. pendingRequests' \subseteq 1..asked' /\ answered' \subseteq 1..asked'
    BY <1>0, <2>1, <2>2 DEF ClientInv, TypeOK
  <2>4. socket \in Sockets
    BY <1>0, <2>2, ClientAssumption DEF ClientInv, TypeOK, Sockets, NoSocket
  <2>5. /\ command' \in [Requests -> Commands]
        /\ via' \in [Requests -> Sockets \union {NoSocket}]
        /\ state' \in [Requests -> {"none", "waiting", "resolved", "rejected"}]
    BY <1>0, <2>1, <2>2, <2>4 DEF Rest, CallerStates
  <2>6. TypeOK'
    BY <2>1, <2>2, <2>3, <2>5 DEF ClientInv, TypeOK
  <2>7. NoLostPromise'
    BY <1>0, <2>1, <2>2 DEF NoLostPromise
  <2>8. PendingNeedsSocket' /\ OneCall'
    BY <2>2 DEF ClientInv, PendingNeedsSocket, OneCall
  <2>9. OneConnection'
    <3>1. \A r \in pendingRequests : r # asked + 1 /\ r \in Requests
      BY <1>0, ClientAssumption DEF ClientInv, TypeOK, Requests
    <3>2. via \in [Requests -> Sockets \union {NoSocket}]
      BY <1>0 DEF Rest
    <3> QED BY <2>1, <2>2, <3>1, <3>2 DEF ClientInv, OneConnection
  <2> QED BY <2>6, <2>7, <2>8, <2>9 DEF ClientInv
<1>3. ASSUME NEW s \in Sockets, PushOutput(s)
      PROVE  ClientInv'
  <2> DEFINE m == [type |-> "output", id |-> NoRequest, body |-> "ok"]
  <2>1. m \in Message
    BY DEF Message
  <2>2. wire' = [wire EXCEPT ![s] = Append(@, m)]
    BY <1>3 DEF PushOutput
  <2> HIDE DEF m
  <2>3. wire' \in [Sockets -> Seq(Message)]
    BY <1>0, <2>1, <2>2
  <2>4. Rest'
    BY <1>0, <1>3, <2>3 DEF PushOutput, Rest, requestVars
  <2> QED BY <1>0, <1>3, <2>4, QuietStep DEF PushOutput, requestVars
<1>4. ASSUME NEW r \in Requests, RequestTimeout(r)
      PROVE  ClientInv'
  <2>1. r \in pendingRequests /\ Settle(r, "rejected")
    BY <1>4 DEF RequestTimeout
  <2>2. /\ UNCHANGED <<loading, opened, asked, via, overlapped>>
        /\ UNCHANGED <<protocolRuntime, command, answered, crashed, shake, wire, outputs>>
    BY <1>4 DEF RequestTimeout, requestVars
  <2>3. Rest'
    BY <1>0, <2>2 DEF Rest
  <2>4. asked' \in asked..MaxRequests
    BY <1>0, <2>2
  <2>5. CASE Cleared
    BY <2>2, <2>3, <2>4, <2>5, ClearedStep
  <2>6. CASE /\ state' = [state EXCEPT ![r] = "rejected"]
             /\ pendingRequests' = pendingRequests \ {r}
             /\ UNCHANGED <<ready, heard, socket, hello>>
    BY <2>1, <2>2, <2>3, <2>6, SettledStep
  <2> QED BY <2>1, <2>5, <2>6, SettleEffect
<1>5. ASSUME NEW r \in Requests, NEW body \in {"ok", "bad"}, Answer(r, body)
      PROVE  ClientInv'
  <2> DEFINE m == [type |-> "answer", id |-> r, body |-> body]
  <2>1. m \in Message
    BY DEF Message
  <2>2. /\ via[r] \in heard /\ r \in 1..asked
        /\ answered' = answered \union {r}
        /\ wire' = [wire EXCEPT ![via[r]] = Append(@, m)]
    BY <1>5 DEF Answer
  <2> HIDE DEF m
  <2>3. wire' \in [Sockets -> Seq(Message)]
    <3>1. via[r] \in Sockets
      <4>1. heard \subseteq 1..opened /\ opened \in 0..MaxSockets
        BY DEF ClientInv, TypeOK
      <4>2. 1..opened \subseteq Sockets
        BY <4>1, ClientAssumption DEF Sockets
      <4> QED BY <2>2, <4>1, <4>2
    <3> QED BY <1>0, <2>1, <2>2, <3>1
  <2>4. UNCHANGED <<asked, command, via, protocolRuntime, loading, opened, socket, ready,
                    heard, shake, hello, pendingRequests, state, outputs, overlapped, crashed>>
    BY <1>5 DEF Answer
  <2>5. Rest'
    BY <1>0, <2>2, <2>3, <2>4 DEF Rest
  <2> QED BY <1>0, <2>4, <2>5, QuietStep
<1> QED BY <1>1, <1>2, <1>3, <1>4, <1>5

\* connect(), what it awaits, and close() keep the invariant.
LEMMA ConnectionStep ==
  ASSUME ClientInv,
         Close \/ Connect \/ LoadProtocolRuntime \/ ConnectResumes \/ ConnectFails
  PROVE  ClientInv'
<1>0. /\ ready \in [Sockets -> ReadyStates] /\ Rest
      /\ state \in [Requests -> CallerStates]
      /\ asked \in asked..MaxRequests
      /\ \A r \in Requests : state[r] = "waiting" => r \in pendingRequests
  BY ClientAssumption DEF ClientInv, TypeOK, Rest, ReadyStates, CallerStates, NoLostPromise
<1>1. CASE Close
  <2>1. Cleared
    BY <1>0, <1>1, ClearSocketClears DEF Close
  <2>2. Rest'
    BY <1>0, <1>1 DEF Close, Rest, requestVars
  <2> QED BY <1>0, <1>1, <2>1, <2>2, ClearedStep DEF Close, requestVars
<1>2. CASE Connect
  <2>1. /\ socket = NoSocket /\ loading' = loading + 1 /\ loading \in Nat
        /\ overlapped' \in BOOLEAN
        /\ protocolRuntime' \in {"none", "loading", "loaded", "failed"}
    BY <1>0, <1>2 DEF Connect, Rest
  <2>2. ~overlapped' => ~overlapped /\ loading = 0
    <3>1. overlapped' = (overlapped \/ loading > 0 \/ Waiting # {})
      BY <1>2 DEF Connect
    <3>2. ~overlapped' => ~overlapped /\ ~(loading > 0)
      BY <3>1, Zenon
    <3> QED BY <2>1, <3>2
  <2>3. UNCHANGED <<asked, command, via, answered, opened, socket, ready, heard, shake,
                    hello, pendingRequests, state, wire, outputs, crashed>>
    BY <1>2 DEF Connect, requestVars
  <2>4. TypeOK'
    BY <2>1, <2>3 DEF ClientInv, TypeOK
  <2>5. NoLostPromise' /\ PendingNeedsSocket' /\ OneConnection'
    BY <2>2, <2>3 DEF ClientInv, NoLostPromise, PendingNeedsSocket, OneConnection
  <2>6. OneCall'
    BY <2>1, <2>2, <2>3 DEF OneCall
  <2> QED BY <2>4, <2>5, <2>6 DEF ClientInv
<1>3. CASE LoadProtocolRuntime
  <2>1. Rest'
    BY <1>0, <1>3 DEF LoadProtocolRuntime, Rest, requestVars
  <2> QED BY <1>0, <1>3, <2>1, QuietStep DEF LoadProtocolRuntime, requestVars
<1>4. CASE ConnectResumes
  <2>1. /\ loading > 0 /\ loading' = loading - 1 /\ loading \in Nat
        /\ opened' = opened + 1 /\ opened \in Nat /\ opened + 1 \in Sockets
        /\ opened' \in 0..MaxSockets
    BY <1>0, <1>4, ClientAssumption DEF ConnectResumes, Rest, Sockets
  <2>2. /\ socket' = opened + 1
        /\ ready' = [ready EXCEPT ![opened + 1] = "connecting"]
        /\ heard' = heard \union {opened + 1}
        /\ shake' = [shake EXCEPT ![opened + 1] = "waiting"]
        /\ UNCHANGED <<asked, command, via, answered, protocolRuntime, hello,
                       pendingRequests, state, wire, outputs, overlapped, crashed>>
    BY <1>4 DEF ConnectResumes, requestVars
  <2>3. /\ heard' \subseteq 1..opened' /\ socket' \in 0..opened' /\ hello' \in 0..opened'
        /\ loading' \in Nat
    BY <2>1, <2>2 DEF ClientInv, TypeOK
  <2>4. /\ ready' \in [Sockets -> {"none", "connecting", "open", "aborted", "closing", "closed"}]
        /\ shake' \in [Sockets -> {"none", "waiting", "resolved", "rejected"}]
    BY <2>1, <2>2 DEF ClientInv, TypeOK
  <2>5. TypeOK'
    BY <2>1, <2>2, <2>3, <2>4 DEF ClientInv, TypeOK
  <2>6. NoLostPromise' /\ PendingNeedsSocket'
    BY <2>1, <2>2 DEF ClientInv, NoLostPromise, PendingNeedsSocket, NoSocket
  <2>7. ASSUME ~overlapped
        PROVE  /\ loading = 1 /\ socket = NoSocket
               /\ heard = {} /\ hello = NoSocket /\ pendingRequests = {}
    <3>1. loading = 1 /\ socket = NoSocket
      BY <2>1, <2>7 DEF ClientInv, OneCall
    <3>2. heard = {}
      BY <2>1, <2>7, <3>1 DEF ClientInv, TypeOK, OneConnection, NoSocket
    <3> QED BY <2>7, <3>1, <3>2 DEF ClientInv, OneConnection, PendingNeedsSocket
  <2>8. OneConnection'
    BY <2>2, <2>7 DEF OneConnection
  <2>9. OneCall'
    BY <2>1, <2>2, <2>7 DEF OneCall
  <2> QED BY <2>5, <2>6, <2>8, <2>9 DEF ClientInv
<1>5. CASE ConnectFails
  <2>1. /\ loading > 0 /\ loading' = loading - 1 /\ loading \in Nat
        /\ UNCHANGED <<asked, command, via, answered, protocolRuntime, opened, socket, ready,
                       heard, shake, hello, pendingRequests, state, wire, outputs,
                       overlapped, crashed>>
    BY <1>0, <1>5 DEF ConnectFails, Rest, requestVars
  <2>2. TypeOK'
    BY <2>1 DEF ClientInv, TypeOK
  <2>3. NoLostPromise' /\ PendingNeedsSocket' /\ OneConnection'
    BY <2>1 DEF ClientInv, NoLostPromise, PendingNeedsSocket, OneConnection
  <2>4. OneCall'
    BY <2>1 DEF ClientInv, OneCall
  <2> QED BY <2>2, <2>3, <2>4 DEF ClientInv
<1> QED BY <1>1, <1>2, <1>3, <1>4, <1>5

-----------------------------------------------------------------------------
\* The invariant holds of a client just constructed.
LEMMA ClientInit == Init => ClientInv
<1> SUFFICES ASSUME Init PROVE ClientInv
  OBVIOUS
<1>1. TypeOK
  <2>1. wire \in [Sockets -> Seq(Message)]
    <3>1. << >> \in Seq(Message)
      OBVIOUS
    <3> QED BY <3>1 DEF Init
  <2>2. /\ opened \in 0..MaxSockets /\ asked \in 0..MaxRequests
        /\ socket \in 0..opened /\ hello \in 0..opened /\ loading \in Nat
        /\ outputs \in [received : Nat, emitted : Nat]
    BY ClientAssumption DEF Init, NoSocket
  <2>3. /\ command \in [Requests -> Commands]
        /\ via \in [Requests -> Sockets \union {NoSocket}]
    BY DEF Init, Commands
  <2> QED BY <2>1, <2>2, <2>3 DEF Init, TypeOK
<1>2. NoLostPromise /\ PendingNeedsSocket /\ OneConnection /\ OneCall
  BY DEF Init, NoLostPromise, PendingNeedsSocket, OneConnection, OneCall
<1> QED BY <1>1, <1>2 DEF ClientInv

\* Every step of the client, its sockets and the gateway keeps the invariant.
LEMMA ClientNext == ClientInv /\ [Next]_vars => ClientInv'
<1> SUFFICES ASSUME ClientInv, [Next]_vars PROVE ClientInv'
  OBVIOUS
<1>1. CASE Next
  <2>1. CASE Close \/ Connect \/ LoadProtocolRuntime \/ ConnectResumes \/ ConnectFails
    BY <2>1, ConnectionStep
  <2>2. CASE \/ SendThrows
             \/ \E c \in Commands : SendRequest(c)
             \/ \E s \in Sockets : PushOutput(s)
             \/ \E r \in Requests : \/ RequestTimeout(r)
                                    \/ \E body \in {"ok", "bad"} : Answer(r, body)
    BY <2>2, RequestStep
  <2>3. ASSUME NEW s \in Sockets,
               HandshakeTimeout(s) \/ SocketOpen(s) \/ SocketError(s) \/ SocketClose(s)
        PROVE  ClientInv'
    BY <2>3, SocketEventStep
  <2>4. ASSUME NEW s \in Sockets, Receive(s)
        PROVE  ClientInv'
    BY <2>4, ReceiveStep
  <2> QED BY <1>1, <2>1, <2>2, <2>3, <2>4 DEF Next
<1>2. CASE UNCHANGED vars
  <2>1. Rest' /\ ready' \in [Sockets -> ReadyStates]
    BY <1>2 DEF ClientInv, TypeOK, Rest, ReadyStates, vars
  <2> QED BY <1>2, <2>1, QuietStep DEF vars
<1> QED BY <1>1, <1>2

\* The inductive invariant holds in every behaviour of the client library.
THEOREM ClientInvariant == Spec => []ClientInv
BY ClientInit, ClientNext, PTL DEF Spec

\* The state of the client keeps its types, for every bound.
THEOREM ClientTypeOK == Spec => []TypeOK
<1>1. ClientInv => TypeOK
  BY DEF ClientInv
<1> QED BY <1>1, ClientInvariant, PTL

\* A caller waits exactly while its request is in the map: no answer, timeout,
\* failed send or end of a connection drops a promise.
THEOREM ClientNoLostPromise == Spec => []NoLostPromise
<1>1. ClientInv => NoLostPromise
  BY DEF ClientInv
<1> QED BY <1>1, ClientInvariant, PTL

\* Requests are pending only while there is a connection.
THEOREM ClientPendingNeedsSocket == Spec => []PendingNeedsSocket
<1>1. ClientInv => PendingNeedsSocket
  BY DEF ClientInv
<1> QED BY <1>1, ClientInvariant, PTL

\* Without overlapping connect() calls the client has one connection, to which
\* its greeting and its requests belong.
THEOREM ClientOneConnection == Spec => []OneConnection
<1>1. ClientInv => OneConnection
  BY DEF ClientInv
<1> QED BY <1>1, ClientInvariant, PTL

-----------------------------------------------------------------------------
(* The web page.  Its invariants are about one page state and the sockets   *)
(* that are not closed yet; Calm and Tame say what most of the page's       *)
(* functions leave alone, so that an action is the sum of the functions it  *)
(* calls.                                                                   *)

\* The requests fit the bound, so that there is an id for a new one.
Roomy(st) == IsFiniteSet(st.pending) /\ Cardinality(st.pending) <= MaxPending

\* No socket is made, ended or replaced, and no wish or retry appears or is
\* dropped but for a connection that is there or not wanted.
Calm(r, st) ==
  /\ r \in WebState /\ IsFiniteSet(r.pending)
  /\ r.ws = st.ws
  /\ \A w \in WebSocket : r.sock[w] = "closed" <=> st.sock[w] = "closed"
  /\ r.desired => st.desired
  /\ r.manualClose => st.manualClose \/ ~r.desired
  /\ st.reconnectTimer => r.reconnectTimer \/ ~r.desired \/ Alive(st) # {}

\* Nor is input allowed or a pane attached.
Tame(r, st) ==
  /\ Calm(r, st)
  /\ r.inputEnabled => st.inputEnabled
  /\ r.activePane \in {st.activePane, Null}

\* No command is sent.
NoInput(r, st) == \A q \in r.pending \ st.pending : q.type = "input" => ~q.waits

\* What the two properties rest on.  While no two sockets have overlapped,
\* the only socket alive is the page's own, and what the page believes of
\* input and pane is what this very connection was told.
WebInv ==
  /\ WebTypeOK
  /\ Roomy(S) /\ IsFiniteSet(Alive(S))
  /\ S.manualClose => ~S.desired
  /\ S.ws # Null => S.ws \in Alive(S)
  /\ Alive(S) = {} => ~doubled
  /\ ~doubled =>
       /\ Alive(S) \subseteq {S.ws}
       /\ S.inputEnabled => S.ws \in told
       /\ S.activePane # Null => S.ws # Null /\ S.activePane \in acked[S.ws]
  /\ WebRetries

-----------------------------------------------------------------------------
(* Functions of the page *)

\* Fewer requests than ids: one is free.
LEMMA FreeIdFacts ==
  ASSUME NEW st, Roomy(st)
  PROVE  FreeId(st) \in 0..MaxPending
<1> DEFINE P == st.pending
           f == [q \in P |-> q.id]
           T == {f[q] : q \in P}
<1>1. IsFiniteSet(P) /\ Cardinality(P) <= MaxPending /\ MaxPending \in Nat
      /\ Cardinality(P) \in Nat
  BY WebAssumption, FS_CardinalityType DEF Roomy
<1>2. IsFiniteSet(T) /\ Cardinality(T) <= Cardinality(P) /\ Cardinality(T) \in Nat
  <2>1. f \in Surjection(P, T)
    BY DEF Surjection
  <2>2. IsFiniteSet(T) /\ Cardinality(T) <= Cardinality(P)
    BY <1>1, <2>1, FS_Surjection
  <2> QED
    BY <2>2, FS_CardinalityType
<1>3. \E n \in 0..MaxPending : \A q \in P : q.id # n
  <2> SUFFICES ASSUME \A n \in 0..MaxPending : \E q \in P : q.id = n
               PROVE  FALSE
    OBVIOUS
  <2>1. 0..MaxPending \in SUBSET T
    OBVIOUS
  <2>2. Cardinality(0..MaxPending) <= Cardinality(T)
    BY <2>1, <1>2, FS_Subset
  <2>3. Cardinality(0..MaxPending) = MaxPending + 1
    BY <1>1, FS_Interval
  <2> QED
    BY <2>2, <2>3, <1>1, <1>2
<1> QED
  BY <1>3 DEF FreeId

LEMMA SendRequestFacts ==
  ASSUME NEW st \in WebState, Roomy(st),
         NEW type \in RequestType, NEW arg \in Token \union WebPane \union {Null},
         type = "attach" => arg \in WebPane
  PROVE  /\ Tame(sendRequest(st, type, arg), st)
         /\ \A q \in sendRequest(st, type, arg).pending \ st.pending :
              q.type = type /\ q.arg = arg /\ q.ws = st.ws
<1> DEFINE r == sendRequest(st, type, arg)
           new == [id |-> FreeId(st), type |-> type, arg |-> arg, ws |-> st.ws, waits |-> TRUE]
<1>1. CASE ~SocketIsOpen(st)
  BY <1>1 DEF sendRequest, Tame, Calm, Roomy
<1>2. CASE SocketIsOpen(st)
  <2>1. st.ws \in WebSocket
    BY <1>2 DEF SocketIsOpen, WebState
  <2>2. FreeId(st) \in 0..MaxPending
    BY FreeIdFacts
  <2> HIDE DEF new
  <2>3. r = [st EXCEPT !.pending = st.pending \union {new}]
    BY <1>2 DEF sendRequest, new
  <2>4. new \in WebRequest
    BY <2>1, <2>2 DEF new, WebRequest
  <2>5. r \in WebState /\ r.pending = st.pending \union {new}
    BY <2>3, <2>4 DEF WebState
  <2>6. IsFiniteSet(r.pending)
    BY <2>5, FS_AddElement DEF Roomy
  <2>7. /\ r.ws = st.ws /\ r.sock = st.sock /\ r.desired = st.desired
        /\ r.manualClose = st.manualClose /\ r.reconnectTimer = st.reconnectTimer
        /\ r.inputEnabled = st.inputEnabled /\ r.activePane = st.activePane
    BY <2>3 DEF WebState
  <2>8. new.type = type /\ new.arg = arg /\ new.ws = st.ws
    BY DEF new
  <2> QED
    BY <2>5, <2>6, <2>7, <2>8 DEF Tame, Calm
<1> QED
  BY <1>1, <1>2

LEMMA CloseSocketFacts ==
  ASSUME NEW st \in WebState, IsFiniteSet(st.pending)
  PROVE  /\ Tame(closeSocket(st), st) /\ closeSocket(st).pending = st.pending
         /\ closeSocket(st).activePane = st.activePane
         /\ closeSocket(st).inputEnabled = st.inputEnabled
<1>1. CASE ~SocketActive(st)
  BY <1>1 DEF closeSocket, Tame, Calm
<1>2. CASE SocketActive(st)
  <2>1. st.ws \in WebSocket /\ st.sock[st.ws] \in {"connecting", "open"}
    BY <1>2 DEF SocketActive, WebState
  <2>2. closeSocket(st) = [st EXCEPT !.sock = [st.sock EXCEPT ![st.ws] = "closing"]]
    BY <1>2 DEF closeSocket
  <2>3. [st.sock EXCEPT ![st.ws] = "closing"]
          \in [WebSocket -> {"connecting", "open", "closing", "closed"}]
    BY DEF WebState
  <2> QED
    BY <2>1, <2>2, <2>3 DEF Tame, Calm, WebState
<1> QED
  BY <1>1, <1>2

LEMMA TameTransitive ==
  ASSUME NEW r, NEW t, NEW st, Tame(r, t), Tame(t, st), NoInput(r, t), NoInput(t, st)
  PROVE  Tame(r, st) /\ NoInput(r, st)
<1>1. Alive(t) = Alive(st)
  BY DEF Tame, Calm, Alive
<1> QED
  BY <1>1 DEF Tame, Calm, NoInput

\* sendRequest of anything but a command, as attachPane and requestAuth call it.
LEMMA SendTame ==
  ASSUME NEW st \in WebState, Roomy(st),
         NEW type \in RequestType \ {"input"}, NEW arg \in Token \union WebPane \union {Null},
         type = "attach" => arg \in WebPane
  PROVE  Tame(sendRequest(st, type, arg), st) /\ NoInput(sendRequest(st, type, arg), st)
BY SendRequestFacts DEF NoInput

LEMMA TameItself ==
  ASSUME NEW st \in WebState, Roomy(st)
  PROVE  Tame(st, st) /\ NoInput(st, st)
BY DEF Tame, Calm, NoInput, Roomy

LEMMA RequestAuthFacts ==
  ASSUME NEW st \in WebState, Roomy(st), NEW token \in Token \union {Null}
  PROVE  Tame(requestAuth(st, token), st) /\ NoInput(requestAuth(st, token), st)
BY SendTame, TameItself DEF requestAuth, RequestType

LEMMA AttachPaneFacts ==
  ASSUME NEW st \in WebState, Roomy(st), NEW p \in WebPane
  PROVE  Tame(attachPane(st, p), st) /\ NoInput(attachPane(st, p), st)
BY SendTame, TameItself DEF attachPane, RequestType

\* The welcome drops a retry, on a connection that is there.
LEMMA OnAuthenticatedFacts ==
  ASSUME NEW st \in WebState, Roomy(st), Alive(st) # {}
  PROVE  Tame(onAuthenticated(st), st) /\ NoInput(onAuthenticated(st), st)
<1> DEFINE on == [st EXCEPT !.ready = TRUE, !.reconnectTimer = FALSE, !.heartbeatTimer = TRUE]
<1>1. CASE st.ready
  BY <1>1, TameItself DEF onAuthenticated
<1>2. CASE ~st.ready
  <2>1. /\ on \in WebState /\ on.pending = st.pending /\ on.ws = st.ws /\ on.sock = st.sock
        /\ on.desired = st.desired /\ on.manualClose = st.manualClose
        /\ on.inputEnabled = st.inputEnabled /\ on.activePane = st.activePane
    BY DEF WebState
  <2>2. onAuthenticated(st) = IF st.activePane = Null THEN on ELSE attachPane(on, st.activePane)
    BY <1>2 DEF onAuthenticated
  <2> HIDE DEF on
  <2>3. Tame(on, st) /\ NoInput(on, st) /\ Roomy(on)
    BY <2>1 DEF Tame, Calm, NoInput, Roomy
  <2>4. CASE st.activePane = Null
    BY <2>2, <2>3, <2>4
  <2>5. CASE st.activePane # Null
    <3>1. st.activePane \in WebPane
      BY <2>5 DEF WebState
    <3>2. Tame(attachPane(on, st.activePane), on) /\ NoInput(attachPane(on, st.activePane), on)
      BY <3>1, <2>1, <2>3, AttachPaneFacts
    <3> QED
      BY <2>2, <2>3, <2>5, <3>2, TameTransitive
  <2> QED
    BY <2>4, <2>5
<1> QED
  BY <1>1, <1>2

\* What follows a promise that is settled, but for a pane that was attached.
LEMMA ContinueFacts ==
  ASSUME NEW st \in WebState, Roomy(st), NEW q, NEW ok \in BOOLEAN, NEW stale \in BOOLEAN,
         ~(q.type = "attach" /\ ok)
  PROVE  Tame(continueAfter(st, q, ok, stale), st) /\ NoInput(continueAfter(st, q, ok, stale), st)
<1> DEFINE r == continueAfter(st, q, ok, stale)
           c == closeSocket(st)
<1>1. Tame(c, st) /\ NoInput(c, st) /\ c \in WebState
  BY CloseSocketFacts DEF NoInput, Roomy, Tame, Calm
<1>2. r = c \/ r = [c EXCEPT !.activePane = Null] \/ r = st
  BY DEF continueAfter
<1>3. CASE r = [c EXCEPT !.activePane = Null]
  <2> HIDE DEF c, r
  <2>1. /\ r \in WebState /\ r.pending = c.pending /\ r.ws = c.ws /\ r.sock = c.sock
        /\ r.desired = c.desired /\ r.manualClose = c.manualClose /\ r.activePane = Null
        /\ r.inputEnabled = c.inputEnabled /\ r.reconnectTimer = c.reconnectTimer
    BY <1>1, <1>3 DEF WebState
  <2>2. Tame(r, st) /\ NoInput(r, st)
    BY <1>1, <2>1 DEF Tame, Calm, NoInput
  <2> QED
    BY <2>2 DEF r
<1> QED
  BY <1>1, <1>2, <1>3, TameItself

-----------------------------------------------------------------------------
(* Events *)

\* WebInputAsTold, of one step.
InputAsTold ==
  \A sent \in S'.pending \ S.pending :
    sent.type = "input" /\ sent.waits /\ ~doubled'
      => sent.ws \in told /\ sent.arg \in acked[sent.ws]

\* WebInv but for the wish to be connected.
SocketInv ==
  /\ WebTypeOK
  /\ Roomy(S) /\ IsFiniteSet(Alive(S))
  /\ S.ws # Null => S.ws \in Alive(S)
  /\ Alive(S) = {} => ~doubled
  /\ ~doubled =>
       /\ Alive(S) \subseteq {S.ws}
       /\ S.inputEnabled => S.ws \in told
       /\ S.activePane # Null => S.ws # Null /\ S.activePane \in acked[S.ws]

\* A step that neither makes nor ends a socket.
LEMMA SocketsKept ==
  ASSUME WebInv, Page, S' \in WebState, IsFiniteSet(S'.pending), S'.ws = S.ws,
         \A w \in WebSocket : S'.sock[w] = "closed" <=> S.sock[w] = "closed",
         greeted' \subseteq WebSocket, told' \subseteq WebSocket,
         acked' \in [WebSocket -> SUBSET WebPane], gaveUp' \in BOOLEAN,
         ~doubled => /\ S'.inputEnabled => S.ws \in told'
                     /\ S'.activePane # Null => S.ws # Null /\ S'.activePane \in acked'[S.ws]
  PROVE  SocketInv' /\ Alive(S)' = Alive(S) /\ (~doubled' => ~doubled)
<1>1. Alive(S)' = Alive(S)
  BY DEF Alive
<1>2. doubled' \in BOOLEAN /\ (~doubled' => ~doubled) /\ (Alive(S) = {} => ~doubled')
  <2>1. Alive(S') = Alive(S)
    BY <1>1
  <2>2. /\ doubled' \in BOOLEAN
        /\ doubled' <=> (Cardinality(Alive(S)) > 1 \/ (doubled /\ Alive(S) # {}))
    <3>1. doubled' = (Cardinality(Alive(S')) > 1 \/ (doubled /\ Alive(S') # {}))
      BY Zenon DEF Page
    <3> QED
      BY <2>1, <3>1, Zenon
  <2>3. Alive(S) = {} => ~doubled
    BY DEF WebInv
  <2>4. Alive(S) = {} => ~(Cardinality(Alive(S)) > 1)
    BY FS_EmptySet
  <2> QED
    BY <2>2, <2>3, <2>4
<1>3. WebTypeOK' /\ Roomy(S)'
  <2>1. gateway' = gateway /\ Cardinality(S'.pending) <= MaxPending
    BY DEF Page
  <2> QED
    BY <2>1, <1>2 DEF WebInv, WebTypeOK, Roomy
<1> QED
  BY <1>1, <1>2, <1>3 DEF WebInv, SocketInv

LEMMA CalmKeeps ==
  ASSUME WebInv, Page, Calm(S', S), gaveUp' = gaveUp,
         greeted' \subseteq WebSocket, told' \subseteq WebSocket,
         acked' \in [WebSocket -> SUBSET WebPane],
         ~doubled => /\ S'.inputEnabled => S.ws \in told'
                     /\ S'.activePane # Null => S.ws # Null /\ S'.activePane \in acked'[S.ws]
  PROVE  WebInv'
<1>1. SocketInv' /\ Alive(S)' = Alive(S)
  BY SocketsKept DEF Calm, WebInv, WebTypeOK
<1>2. S'.manualClose => ~S'.desired
  BY DEF Calm, WebInv
<1>3. WebRetries'
  BY <1>1 DEF WebRetries, Calm, WebInv
<1> QED
  BY <1>1, <1>2, <1>3 DEF WebInv, SocketInv

LEMMA TameKeeps ==
  ASSUME WebInv, Page, Tame(S', S), NoInput(S', S), UNCHANGED <<told, acked, gaveUp>>,
         greeted' \subseteq WebSocket
  PROVE  WebInv' /\ InputAsTold
<1>1. WebInv'
  BY CalmKeeps DEF Tame, WebInv, WebTypeOK
<1> QED
  BY <1>1 DEF NoInput, InputAsTold

\* What the lemmas on the page's functions ask of the page's state.
LEMMA StateFacts ==
  ASSUME WebInv
  PROVE  S \in WebState /\ Roomy(S) /\ greeted \subseteq WebSocket
BY DEF WebInv, WebTypeOK

\* connect() from the state itself, or from one whose timer has just fired.
LEMMA ConnectKeeps ==
  ASSUME WebInv, NEW st, st = S \/ st = [S EXCEPT !.reconnectTimer = FALSE], connect(st)
  PROVE  WebInv' /\ InputAsTold
<1> DEFINE started == [st EXCEPT !.desired = TRUE, !.manualClose = FALSE, !.ready = FALSE]
<1>1. /\ st \in WebState /\ st.ws = S.ws /\ st.sock = S.sock /\ st.desired = S.desired
      /\ st.manualClose = S.manualClose /\ st.pending = S.pending
      /\ st.inputEnabled = S.inputEnabled /\ st.activePane = S.activePane
  BY StateFacts DEF WebState
<1>2. /\ started \in WebState /\ started.ws = S.ws /\ started.sock = S.sock
      /\ started.desired = TRUE /\ started.manualClose = FALSE /\ started.pending = S.pending
      /\ started.inputEnabled = S.inputEnabled /\ started.activePane = S.activePane
  BY <1>1 DEF WebState
<1>3. Page /\ UNCHANGED <<greeted, told, acked>>
  BY DEF connect
<1>4. Alive(st) = Alive(S)
  BY <1>1 DEF Alive
<1>5. CASE SocketActive(st)
  <2>1. S' = st /\ gaveUp' = gaveUp
    BY <1>5 DEF connect
  <2>2. Alive(S) # {}
    BY <1>1, <1>5 DEF SocketActive, Alive, WebState
  <2>3. Tame(S', S) /\ NoInput(S', S)
    BY <1>1, <2>1, <2>2, StateFacts DEF Tame, Calm, NoInput, Roomy
  <2> QED
    BY <1>3, <2>1, <2>3, TameKeeps, StateFacts
<1>6. ASSUME NEW w \in WebSocket \ Alive(st),
             S' = [started EXCEPT !.ws = w, !.sock[w] = "connecting"], gaveUp' = FALSE
      PROVE  WebInv' /\ InputAsTold
  <2> HIDE DEF started
  <2>1. [started.sock EXCEPT ![w] = "connecting"]
          \in [WebSocket -> {"connecting", "open", "closing", "closed"}]
    BY <1>2 DEF WebState
  <2>2. /\ S' \in WebState /\ S'.ws = w /\ S'.sock = [S.sock EXCEPT ![w] = "connecting"]
        /\ S'.desired = TRUE /\ S'.manualClose = FALSE /\ S'.pending = S.pending
        /\ S'.inputEnabled = S.inputEnabled /\ S'.activePane = S.activePane
    BY <1>2, <1>6, <2>1 DEF WebState
  <2>3. Alive(S)' = Alive(S) \union {w} /\ w \notin Alive(S)
    BY <1>4, <2>2 DEF Alive, WebInv, WebTypeOK, WebState
  <2>4. /\ IsFiniteSet(Alive(S)') /\ Cardinality(Alive(S)') = Cardinality(Alive(S)) + 1
        /\ Cardinality(Alive(S)) \in Nat
    BY <2>3, FS_AddElement, FS_CardinalityType DEF WebInv
  <2>5. Alive(S') = Alive(S)'
    OBVIOUS
  <2>6. /\ doubled' \in BOOLEAN
        /\ doubled' <=> (Cardinality(Alive(S)') > 1 \/ (doubled /\ Alive(S)' # {}))
    <3>1. doubled' = (Cardinality(Alive(S')) > 1 \/ (doubled /\ Alive(S') # {}))
      BY <1>3, Zenon DEF Page
    <3> QED
      BY <2>5, <3>1, Zenon
  <2>7. ~doubled' => Alive(S) = {}
    <3>1. Alive(S) # {} => Cardinality(Alive(S)) # 0
      BY FS_EmptySet DEF WebInv
    <3> QED
      BY <3>1, <2>4, <2>6
  <2>8. ~doubled' => S.ws = Null /\ ~S.inputEnabled /\ S.activePane = Null
    <3>1. Null \notin told
      BY WebAssumption DEF WebInv, WebTypeOK
    <3> QED
      BY <2>7, <3>1 DEF WebInv
  <2>9. WebTypeOK' /\ Roomy(S)'
    <3>1. doubled' \in BOOLEAN
      BY <2>6
    <3> QED
      BY <1>3, <1>6, <2>2, <3>1 DEF WebInv, WebTypeOK, Roomy, Page
  <2>10. WebInv'
    BY <2>2, <2>3, <2>4, <2>7, <2>8, <2>9 DEF WebInv, WebRetries
  <2> QED
    BY <2>2, <2>10 DEF InputAsTold
<1>7. ASSUME NEW auto \in BOOLEAN, S' = scheduleReconnect(started, auto), gaveUp' = ~auto
      PROVE  WebInv' /\ InputAsTold
  <2> HIDE DEF started
  <2>1. S' = [started EXCEPT !.reconnectTimer = auto]
    BY <1>2, <1>7 DEF scheduleReconnect
  <2>2. /\ S' \in WebState /\ S'.ws = S.ws /\ S'.sock = S.sock /\ S'.reconnectTimer = auto
        /\ S'.desired = TRUE /\ S'.manualClose = FALSE /\ S'.pending = S.pending
        /\ S'.inputEnabled = S.inputEnabled /\ S'.activePane = S.activePane
    BY <1>2, <2>1 DEF WebState
  <2>3. SocketInv'
    BY <1>3, <1>7, <2>2, SocketsKept DEF WebInv, WebTypeOK, Roomy
  <2>4. WebRetries'
    BY <1>7, <2>2 DEF WebRetries
  <2> QED
    BY <2>2, <2>3, <2>4 DEF WebInv, SocketInv, InputAsTold
<1>8. CASE S' = st /\ gaveUp' = TRUE
  <2>1. SocketInv'
    BY <1>1, <1>3, <1>8, SocketsKept DEF WebInv, WebTypeOK, Roomy
  <2>2. WebRetries' /\ (S'.manualClose => ~S'.desired)
    BY <1>1, <1>8 DEF WebRetries, WebInv
  <2> QED
    BY <1>1, <1>8, <2>1, <2>2 DEF WebInv, SocketInv, InputAsTold
<1> QED
  BY <1>5, <1>6, <1>7, <1>8 DEF connect

\* onClose, of whichever socket.
LEMMA SocketClosesKeeps ==
  ASSUME WebInv, NEW w \in WebSocket, NEW auto \in BOOLEAN, SocketCloses(w, auto)
  PROVE  WebInv' /\ InputAsTold
<1> DEFINE others == {q \in S.pending : q.ws # w}
           kept == {[q EXCEPT !.waits = FALSE] : q \in others}
           lost == [S EXCEPT
             !.sock[w] = "closed", !.ws = Null, !.ready = FALSE, !.activePane = Null,
             !.heartbeatTimer = FALSE, !.inputEnabled = FALSE, !.globalInputDisabled = FALSE,
             !.pending = kept]
<1>1. S \in WebState /\ S.pending \in SUBSET WebRequest /\ IsFiniteSet(S.pending)
  BY DEF WebInv, WebTypeOK, WebState, Roomy
<1>2. kept \in SUBSET WebRequest /\ IsFiniteSet(kept) /\ \A q \in kept : ~q.waits
  <2>1. ASSUME NEW q \in WebRequest
        PROVE  [q EXCEPT !.waits = FALSE] \in WebRequest /\ ~[q EXCEPT !.waits = FALSE].waits
    BY DEF WebRequest
  <2>2. IsFiniteSet(others)
    BY <1>1, FS_Subset
  <2>3. IsFiniteSet(kept)
    <3> DEFINE f == [q \in others |-> [q EXCEPT !.waits = FALSE]]
    <3>1. f \in Surjection(others, kept)
      BY DEF Surjection
    <3> QED
      BY <2>2, <3>1, FS_Surjection
  <2> QED
    BY <1>1, <2>1, <2>3
<1> HIDE DEF kept
<1>3. [S.sock EXCEPT ![w] = "closed"] \in [WebSocket -> {"connecting", "open", "closing", "closed"}]
  BY <1>1 DEF WebState
<1>4. /\ lost \in WebState /\ lost.ws = Null /\ lost.sock = [S.sock EXCEPT ![w] = "closed"]
      /\ lost.desired = S.desired /\ lost.manualClose = S.manualClose /\ lost.pending = kept
      /\ lost.inputEnabled = FALSE /\ lost.activePane = Null
  BY <1>1, <1>2, <1>3 DEF WebState
<1>5. /\ w \in Alive(S) /\ Page
      /\ greeted' = greeted \ {w} /\ told' = told \ {w} /\ acked' = [acked EXCEPT ![w] = {}]
      /\ gaveUp' = IF S.manualClose \/ ~S.desired THEN gaveUp ELSE ~auto
      /\ S' = IF S.manualClose \/ ~S.desired THEN [lost EXCEPT !.manualClose = FALSE]
              ELSE scheduleReconnect(lost, auto)
  BY DEF SocketCloses, onClose, kept
<1> HIDE DEF lost
<1>6. /\ S' \in WebState /\ S'.ws = Null /\ S'.sock = [S.sock EXCEPT ![w] = "closed"]
      /\ S'.desired = S.desired /\ S'.pending = kept
      /\ S'.inputEnabled = FALSE /\ S'.activePane = Null
      /\ S'.manualClose => ~S'.desired
      /\ S.desired => gaveUp' = ~auto /\ S'.reconnectTimer = auto
      /\ gaveUp' \in BOOLEAN
  <2>1. CASE S.manualClose \/ ~S.desired
    <3>1. ~S.desired /\ S' = [lost EXCEPT !.manualClose = FALSE] /\ gaveUp' = gaveUp
      BY <1>5, <2>1 DEF WebInv
    <3> QED
      BY <1>4, <3>1 DEF WebState, WebInv, WebTypeOK
  <2>2. CASE ~(S.manualClose \/ ~S.desired)
    <3>1. S' = [lost EXCEPT !.reconnectTimer = auto] /\ gaveUp' = ~auto
      BY <1>4, <1>5, <2>2, <1>1 DEF scheduleReconnect, WebState
    <3> QED
      BY <1>4, <2>2, <3>1 DEF WebState
  <2> QED
    BY <2>1, <2>2
<1>7. Alive(S)' = Alive(S) \ {w} /\ IsFiniteSet(Alive(S)')
  <2>1. Alive(S)' = Alive(S) \ {w}
    BY <1>1, <1>6 DEF Alive, WebState
  <2> QED
    BY <2>1, FS_RemoveElement DEF WebInv
<1>8. /\ doubled' \in BOOLEAN
      /\ doubled' <=> (Cardinality(Alive(S)') > 1 \/ (doubled /\ Alive(S)' # {}))
  <2>1. doubled' = (Cardinality(Alive(S')) > 1 \/ (doubled /\ Alive(S') # {}))
    BY <1>5, Zenon DEF Page
  <2>2. Alive(S') = Alive(S)'
    OBVIOUS
  <2> QED
    BY <2>1, <2>2, Zenon
<1>9. Alive(S)' = {} => ~doubled'
  <2>1. Alive(S)' = {} => ~(Cardinality(Alive(S)') > 1)
    BY FS_EmptySet
  <2> QED
    BY <2>1, <1>8
<1>10. ~doubled' => Alive(S)' = {}
  <2>1. ~doubled => Alive(S) \subseteq {S.ws}
    BY DEF WebInv
  <2>2. ~doubled => Alive(S)' = {}
    BY <2>1, <1>5, <1>7
  <2> QED
    BY <2>2, <1>8
<1>11. WebTypeOK' /\ Roomy(S)'
  <2>1. gateway' = gateway /\ Cardinality(S'.pending) <= MaxPending
    BY <1>5 DEF Page
  <2> QED
    BY <2>1, <1>2, <1>5, <1>6, <1>8 DEF WebInv, WebTypeOK, Roomy
<1>12. WebRetries'
  BY <1>6 DEF WebRetries
<1>13. WebInv'
  BY <1>6, <1>7, <1>9, <1>10, <1>11, <1>12 DEF WebInv
<1> QED
  BY <1>2, <1>6, <1>13 DEF InputAsTold

LEMMA SocketOpensKeeps ==
  ASSUME WebInv, NEW w \in WebSocket, SocketOpens(w)
  PROVE  WebInv' /\ InputAsTold
<1>1. S \in WebState /\ S.sock[w] = "connecting" /\ Roomy(S)
  BY StateFacts DEF SocketOpens
<1>2. [S.sock EXCEPT ![w] = "open"] \in [WebSocket -> {"connecting", "open", "closing", "closed"}]
  BY <1>1 DEF WebState
<1>3. S' = [S EXCEPT !.sock = [S.sock EXCEPT ![w] = "open"]]
  BY DEF SocketOpens
<1>4. Tame(S', S) /\ NoInput(S', S)
  BY <1>1, <1>2, <1>3 DEF WebState, Tame, Calm, NoInput, Roomy
<1> QED
  BY <1>4, TameKeeps, StateFacts DEF SocketOpens, PageOnly

LEMMA PageHelloKeeps ==
  ASSUME WebInv, NEW w \in WebSocket, NEW token \in Token \union {Null}, PageHello(w, token)
  PROVE  WebInv' /\ InputAsTold
<1> DEFINE polite == applyPolicy(S, FALSE)
<1>1. S \in WebState /\ Roomy(S) /\ S.sock[w] = "open" /\ gateway.globalInputDisabled \in BOOLEAN
  BY StateFacts DEF PageHello, WebInv, WebTypeOK
<1>2. /\ polite \in WebState /\ polite.pending = S.pending /\ polite.sock = S.sock
      /\ polite.ws = S.ws /\ polite.desired = S.desired /\ polite.manualClose = S.manualClose
      /\ polite.reconnectTimer = S.reconnectTimer /\ polite.activePane = S.activePane
      /\ polite.inputEnabled = FALSE
  BY <1>1 DEF applyPolicy, WebState
<1>3. S' = IF gateway.requiresAuth THEN requestAuth(polite, token) ELSE onAuthenticated(polite)
  BY DEF PageHello
<1> HIDE DEF polite
<1>4. Tame(polite, S) /\ NoInput(polite, S) /\ Roomy(polite) /\ Alive(polite) # {}
  BY <1>1, <1>2 DEF Tame, Calm, NoInput, Roomy, Alive
<1>5. Tame(S', polite) /\ NoInput(S', polite)
  BY <1>2, <1>3, <1>4, RequestAuthFacts, OnAuthenticatedFacts
<1>6. Tame(S', S) /\ NoInput(S', S)
  BY <1>4, <1>5, TameTransitive
<1> QED
  BY <1>6, TameKeeps, StateFacts DEF PageHello

\* An answer, to a request that may be of another connection than the page's.
LEMMA PageAnswerKeeps ==
  ASSUME WebInv, NEW q \in S.pending, NEW ok \in BOOLEAN, NEW stale \in BOOLEAN,
         PageAnswer(q, ok, stale)
  PROVE  WebInv' /\ InputAsTold
<1> DEFINE settled == [S EXCEPT !.pending = S.pending \ {q}]
           allows == q.type = "enable_input" /\ ok
<1>1. /\ S \in WebState /\ Roomy(S) /\ q \in WebRequest /\ q.ws \in WebSocket
      /\ S.sock[q.ws] = "open" /\ gateway.globalInputDisabled \in BOOLEAN
  BY StateFacts DEF PageAnswer, WebState, WebRequest, WebInv, WebTypeOK
<1>2. /\ settled \in WebState /\ settled.pending = S.pending \ {q} /\ settled.sock = S.sock
      /\ settled.ws = S.ws /\ settled.desired = S.desired /\ settled.manualClose = S.manualClose
      /\ settled.reconnectTimer = S.reconnectTimer /\ settled.activePane = S.activePane
      /\ settled.inputEnabled = S.inputEnabled
  BY <1>1 DEF WebState
<1>3. /\ S' = CASE q.type = "auth" /\ ok -> onAuthenticated(settled)
                [] q.type = "auth" /\ ~ok -> [settled EXCEPT !.desired = FALSE]
                [] q.type \in {"enable_input", "disable_input"} /\ ok -> applyPolicy(settled, allows)
                [] OTHER -> IF q.waits THEN continueAfter(settled, q, ok, stale) ELSE settled
      /\ told' = IF q.type = "disable_input" /\ ok THEN told \ {q.ws}
                 ELSE IF allows THEN told \union {q.ws} ELSE told
      /\ acked' = IF q.type = "attach" /\ ok THEN [acked EXCEPT ![q.ws] = @ \union {q.arg}] ELSE acked
      /\ Page /\ UNCHANGED <<greeted, gaveUp>>
  BY DEF PageAnswer
<1> HIDE DEF settled
<1>4. IsFiniteSet(settled.pending) /\ Cardinality(settled.pending) <= MaxPending
  <2>1. /\ IsFiniteSet(S.pending) /\ Cardinality(S.pending) <= MaxPending
        /\ Cardinality(S.pending) \in Nat /\ MaxPending \in Nat
    BY <1>1, FS_CardinalityType, WebAssumption DEF Roomy
  <2>2. /\ IsFiniteSet(S.pending \ {q}) /\ Cardinality(S.pending \ {q}) \in Nat
        /\ Cardinality(S.pending \ {q}) <= Cardinality(S.pending)
    BY <2>1, FS_Subset, FS_CardinalityType
  <2> QED
    BY <1>2, <2>1, <2>2
<1>5. Tame(settled, S) /\ NoInput(settled, S) /\ Roomy(settled) /\ Alive(settled) # {}
  BY <1>1, <1>2, <1>4 DEF Tame, Calm, NoInput, Roomy, Alive
<1>6. CASE q.type \in {"enable_input", "disable_input"} /\ ok
  <2>1. S' = applyPolicy(settled, allows)
    BY <1>3, <1>6
  <2>2. /\ S' \in WebState /\ S'.pending = settled.pending /\ S'.sock = S.sock
        /\ S'.ws = S.ws /\ S'.desired = S.desired /\ S'.manualClose = S.manualClose
        /\ S'.reconnectTimer = S.reconnectTimer /\ S'.activePane = S.activePane
        /\ S'.inputEnabled = allows
    BY <1>1, <1>2, <2>1 DEF applyPolicy, WebState
  <2>3. Calm(S', S) /\ NoInput(S', S)
    BY <1>1, <1>2, <1>4, <2>2 DEF Calm, NoInput
  <2>4. ~doubled => q.ws = S.ws
    BY <1>1 DEF WebInv, Alive
  <2>5. ~doubled /\ S'.inputEnabled => S.ws \in told'
    BY <1>3, <2>2, <2>4
  <2>6. acked' = acked /\ told' \subseteq WebSocket
    BY <1>1, <1>3, <1>6 DEF WebInv, WebTypeOK
  <2>7. ~doubled => (S'.activePane # Null => S.ws # Null /\ S'.activePane \in acked'[S.ws])
    BY <2>2, <2>6 DEF WebInv
  <2>8. WebInv'
    BY <1>3, <2>3, <2>5, <2>6, <2>7, CalmKeeps DEF WebInv, WebTypeOK
  <2> QED
    BY <2>3, <2>8 DEF NoInput, InputAsTold
<1>7. CASE q.type = "attach" /\ ok
  <2>1. q.arg \in WebPane
    BY <1>1, <1>7 DEF WebRequest
  <2>2. S' = [settled EXCEPT !.activePane = q.arg] \/ S' = settled
    BY <1>3, <1>7 DEF continueAfter
  <2>3. /\ S' \in WebState /\ S'.pending = settled.pending /\ S'.sock = S.sock
        /\ S'.ws = S.ws /\ S'.desired = S.desired /\ S'.manualClose = S.manualClose
        /\ S'.reconnectTimer = S.reconnectTimer /\ S'.activePane \in {S.activePane, q.arg}
        /\ S'.inputEnabled = S.inputEnabled
    BY <1>2, <2>1, <2>2 DEF WebState
  <2>4. Calm(S', S) /\ NoInput(S', S)
    BY <1>1, <1>2, <1>4, <2>3 DEF Calm, NoInput
  <2>5. ~doubled => q.ws = S.ws
    BY <1>1 DEF WebInv, Alive
  <2>6. told' = told /\ acked' = [acked EXCEPT ![q.ws] = acked[q.ws] \union {q.arg}]
    BY <1>3, <1>7
  <2>7. acked' \in [WebSocket -> SUBSET WebPane]
    BY <1>1, <2>1, <2>6 DEF WebInv, WebTypeOK
  <2>8. ~doubled => (S'.activePane # Null => S.ws # Null /\ S'.activePane \in acked'[S.ws])
    <3>1. ~doubled => S.ws \in WebSocket /\ S.ws # Null
                      /\ acked'[S.ws] = acked[S.ws] \union {q.arg}
      BY <1>1, <2>5, <2>6, WebAssumption DEF WebInv, WebTypeOK
    <3> QED
      BY <2>3, <3>1 DEF WebInv
  <2>9. ~doubled => (S'.inputEnabled => S.ws \in told')
    BY <2>3, <2>6 DEF WebInv
  <2>10. WebInv'
    BY <1>3, <2>4, <2>6, <2>7, <2>8, <2>9, CalmKeeps DEF WebInv, WebTypeOK
  <2> QED
    BY <2>4, <2>10 DEF NoInput, InputAsTold
<1>8. CASE ~(q.type \in {"enable_input", "disable_input"} /\ ok) /\ ~(q.type = "attach" /\ ok)
  <2>1. told' = told /\ acked' = acked
    BY <1>3, <1>8
  <2>2. Tame(S', settled) /\ NoInput(S', settled)
    <3>1. CASE q.type = "auth" /\ ok
      BY <1>2, <1>3, <1>5, <3>1, OnAuthenticatedFacts
    <3>2. CASE q.type = "auth" /\ ~ok
      <4>1. S' = [settled EXCEPT !.desired = FALSE]
        BY <1>3, <3>2
      <4> QED
        BY <4>1, <1>2, <1>4 DEF WebState, Tame, Calm, NoInput
    <3>3. CASE q.type # "auth"
      <4>1. S' = continueAfter(settled, q, ok, stale) \/ S' = settled
        BY <1>3, <1>8, <3>3
      <4> QED
        BY <4>1, <1>2, <1>5, <1>8, ContinueFacts, TameItself
    <3> QED
      BY <3>1, <3>2, <3>3
  <2>3. Tame(S', S) /\ NoInput(S', S)
    BY <1>5, <2>2, TameTransitive
  <2> QED
    BY <1>3, <2>1, <2>3, TameKeeps, StateFacts
<1> QED
  BY <1>6, <1>7, <1>8

LEMMA PageTimeoutKeeps ==
  ASSUME WebInv, NEW q \in S.pending, NEW stale \in BOOLEAN, PageTimeout(q, stale)
  PROVE  WebInv' /\ InputAsTold
<1> DEFINE late == [q EXCEPT !.waits = FALSE]
           rest == (S.pending \ {q}) \union {late}
           st == [S EXCEPT !.pending = rest]
<1>1. S \in WebState /\ Roomy(S) /\ q \in WebRequest /\ IsFiniteSet(S.pending)
  BY StateFacts DEF WebState, Roomy
<1>2. late \in WebRequest /\ ~late.waits
  BY <1>1 DEF WebRequest
<1>3. rest \in SUBSET WebRequest /\ IsFiniteSet(rest) /\ \A p \in rest \ S.pending : ~p.waits
  <2>1. IsFiniteSet(S.pending \ {q})
    BY <1>1, FS_RemoveElement
  <2> HIDE DEF late
  <2>2. IsFiniteSet(rest)
    BY <2>1, FS_AddElement
  <2> QED
    BY <1>1, <1>2, <2>2 DEF WebState
<1>4. Cardinality(rest) <= MaxPending
  <2> HIDE DEF late
  <2>1. /\ Cardinality(S.pending) \in Nat /\ Cardinality(S.pending) <= MaxPending
        /\ Cardinality(S.pending \ {q}) = Cardinality(S.pending) - 1
        /\ IsFiniteSet(S.pending \ {q}) /\ MaxPending \in Nat
    BY <1>1, FS_RemoveElement, FS_CardinalityType, WebAssumption DEF Roomy
  <2>2. Cardinality(rest) = IF late \in S.pending \ {q} THEN Cardinality(S.pending \ {q})
                            ELSE Cardinality(S.pending \ {q}) + 1
    BY <2>1, FS_AddElement
  <2> QED
    BY <2>1, <2>2
<1>5. S' = continueAfter(st, q, FALSE, stale)
  BY DEF PageTimeout
<1> HIDE DEF rest
<1>6. /\ st \in WebState /\ st.pending = rest /\ st.sock = S.sock
      /\ st.ws = S.ws /\ st.desired = S.desired /\ st.manualClose = S.manualClose
      /\ st.reconnectTimer = S.reconnectTimer /\ st.activePane = S.activePane
      /\ st.inputEnabled = S.inputEnabled
  BY <1>1, <1>3 DEF WebState
<1> HIDE DEF st
<1>7. Tame(st, S) /\ NoInput(st, S) /\ Roomy(st)
  BY <1>3, <1>4, <1>6 DEF Tame, Calm, NoInput, Roomy
<1>8. Tame(S', st) /\ NoInput(S', st)
  BY <1>5, <1>6, <1>7, ContinueFacts
<1>9. Tame(S', S) /\ NoInput(S', S)
  BY <1>7, <1>8, TameTransitive
<1> QED
  BY <1>9, TameKeeps, StateFacts DEF PageTimeout, PageOnly

\* sendCommand: input was enabled and the pane attached on the connection the
\* command goes out on.
LEMMA SendCommandKeeps ==
  ASSUME WebInv, sendCommand
  PROVE  WebInv' /\ InputAsTold
<1>1. /\ S \in WebState /\ Roomy(S) /\ S.activePane \in WebPane /\ S.inputEnabled
      /\ S.activePane # Null /\ Page /\ UNCHANGED <<greeted, told, acked, gaveUp>>
      /\ S' = sendRequest(S, "input", S.activePane)
  BY StateFacts DEF sendCommand, WebState, PageOnly
<1>2. /\ Tame(S', S)
      /\ \A q \in S'.pending \ S.pending : q.arg = S.activePane /\ q.ws = S.ws
  BY <1>1, SendRequestFacts DEF RequestType
<1>3. WebInv'
  BY <1>1, <1>2, CalmKeeps DEF Tame, WebInv, WebTypeOK
<1>4. ~doubled' => ~doubled
  BY <1>1, <1>2, SocketsKept DEF Tame, Calm, WebInv, WebTypeOK
<1>5. ~doubled => S.ws \in told /\ S.activePane \in acked[S.ws]
  BY <1>1 DEF WebInv
<1> QED
  BY <1>2, <1>3, <1>4, <1>5 DEF InputAsTold

\* The other buttons and the heartbeat.
LEMMA ButtonKeeps ==
  ASSUME WebInv,
         \/ Beat \/ disconnect \/ Unload
         \/ \E p \in WebPane : AttachClicked(p)
         \/ \E type \in {"enable_input", "disable_input"} : requestPolicy(type)
  PROVE  WebInv' /\ InputAsTold
<1>1. S \in WebState /\ Roomy(S) /\ greeted \subseteq WebSocket
  BY StateFacts
<1>2. PageOnly
  BY DEF Beat, disconnect, Unload, AttachClicked, requestPolicy
<1>3. Tame(S', S) /\ NoInput(S', S)
  <2>1. CASE Beat
    BY <1>1, <2>1, SendTame DEF Beat, RequestType
  <2>2. ASSUME NEW p \in WebPane, AttachClicked(p)
        PROVE  Tame(S', S) /\ NoInput(S', S)
    BY <1>1, <2>2, AttachPaneFacts DEF AttachClicked
  <2>3. ASSUME NEW type \in {"enable_input", "disable_input"}, requestPolicy(type)
        PROVE  Tame(S', S) /\ NoInput(S', S)
    BY <1>1, <2>3, SendTame DEF requestPolicy, RequestType
  <2>4. CASE Unload
    <3> DEFINE st == [S EXCEPT !.desired = FALSE, !.manualClose = TRUE, !.heartbeatTimer = FALSE]
    <3>1. Tame(st, S) /\ NoInput(st, S) /\ st \in WebState /\ IsFiniteSet(st.pending)
      BY <1>1 DEF WebState, Tame, Calm, NoInput, Roomy
    <3>2. S' = closeSocket(st)
      BY <2>4 DEF Unload
    <3> HIDE DEF st
    <3>3. Tame(S', st) /\ NoInput(S', st)
      BY <3>1, <3>2, CloseSocketFacts DEF NoInput
    <3> QED
      BY <3>1, <3>3, TameTransitive
  <2>5. CASE disconnect
    <3> DEFINE leaving == [S EXCEPT !.desired = FALSE, !.manualClose = TRUE,
                                    !.reconnectTimer = FALSE, !.heartbeatTimer = FALSE]
               c == closeSocket(leaving)
    <3>1. Tame(leaving, S) /\ NoInput(leaving, S) /\ leaving \in WebState /\ Roomy(leaving)
      BY <1>1 DEF WebState, Tame, Calm, NoInput, Roomy
    <3>2. S' = sendRequest(leaving, "disconnect", Null) \/ S' = [c EXCEPT !.activePane = Null]
      BY <2>5 DEF disconnect
    <3> HIDE DEF leaving
    <3>3. Tame(c, leaving) /\ NoInput(c, leaving) /\ c \in WebState
      BY <3>1, CloseSocketFacts DEF NoInput, Roomy, Tame, Calm
    <3> HIDE DEF c
    <3>4. CASE S' = [c EXCEPT !.activePane = Null]
      <4>1. Tame(S', c) /\ NoInput(S', c)
        BY <3>3, <3>4 DEF WebState, Tame, Calm, NoInput
      <4> QED
        BY <3>1, <3>3, <4>1, TameTransitive
    <3>5. CASE S' = sendRequest(leaving, "disconnect", Null)
      <4>1. Tame(S', leaving) /\ NoInput(S', leaving)
        BY <3>1, <3>5, SendTame DEF RequestType
      <4> QED
        BY <3>1, <4>1, TameTransitive
    <3> QED
      BY <3>2, <3>4, <3>5
  <2> QED
    BY <2>1, <2>2, <2>3, <2>4, <2>5
<1> QED
  BY <1>1, <1>2, <1>3, TameKeeps DEF PageOnly

-----------------------------------------------------------------------------
(* The page's theorems *)

LEMMA WebInitInv == WebInit => WebInv
<1> SUFFICES ASSUME WebInit PROVE WebInv
  OBVIOUS
<1>1. WebTypeOK
  BY DEF WebInit, WebTypeOK, WebState
<1>2. /\ S.pending = {} /\ S.ws = Null /\ ~S.desired /\ ~S.manualClose /\ ~S.inputEnabled
      /\ S.activePane = Null
  BY DEF WebInit
<1>3. Alive(S) = {}
  BY DEF WebInit, Alive
<1>4. Roomy(S) /\ IsFiniteSet(Alive(S))
  BY <1>2, <1>3, FS_EmptySet, WebAssumption DEF Roomy
<1> QED
  BY <1>1, <1>2, <1>3, <1>4 DEF WebInv, WebRetries, WebInit

LEMMA WebNextInv == WebInv /\ [WebNext]_webVars => WebInv' /\ InputAsTold
<1> SUFFICES ASSUME WebInv, [WebNext]_webVars PROVE WebInv' /\ InputAsTold
  OBVIOUS
<1>1. CASE ReconnectTimerFires
  BY <1>1, ConnectKeeps DEF ReconnectTimerFires
<1>2. CASE sendCommand
  BY <1>2, SendCommandKeeps
<1>3. ASSUME NEW w \in WebSocket, SocketOpens(w) PROVE WebInv' /\ InputAsTold
  BY <1>3, SocketOpensKeeps
<1>4. ASSUME NEW w \in WebSocket, NEW auto \in BOOLEAN, SocketCloses(w, auto)
      PROVE  WebInv' /\ InputAsTold
  BY <1>4, SocketClosesKeeps
<1>5. ASSUME NEW w \in WebSocket, NEW token \in Token \union {Null}, PageHello(w, token)
      PROVE  WebInv' /\ InputAsTold
  BY <1>5, PageHelloKeeps
<1>6. ASSUME NEW q \in S.pending, NEW stale \in BOOLEAN,
             PageTimeout(q, stale) \/ \E ok \in BOOLEAN : PageAnswer(q, ok, stale)
      PROVE  WebInv' /\ InputAsTold
  BY <1>6, PageAnswerKeeps, PageTimeoutKeeps
<1>7. ASSUME NEW token \in Token \union {Null}, Submit(token) PROVE WebInv' /\ InputAsTold
  <2>1. CASE SocketIsOpen(S)
    <3>1. Tame(S', S) /\ NoInput(S', S)
      BY <1>7, <2>1, RequestAuthFacts, StateFacts DEF Submit
    <3> QED
      BY <1>7, <2>1, <3>1, TameKeeps, StateFacts DEF Submit, PageOnly
  <2>2. CASE ~SocketIsOpen(S)
    BY <1>7, <2>2, ConnectKeeps DEF Submit
  <2> QED
    BY <2>1, <2>2
<1>8. CASE \/ Beat \/ disconnect \/ Unload
           \/ \E p \in WebPane : AttachClicked(p)
           \/ \E type \in {"enable_input", "disable_input"} : requestPolicy(type)
  BY <1>8, ButtonKeeps
<1>9. CASE UNCHANGED webVars
  BY <1>9 DEF webVars, WebInv, WebTypeOK, WebRetries, Roomy, Alive, InputAsTold
<1> QED
  BY <1>1, <1>2, <1>3, <1>4, <1>5, <1>6, <1>7, <1>8, <1>9, Zenon DEF WebNext

THEOREM WebInvariant == WebSpec => []WebInv
BY WebInitInv, WebNextInv, PTL DEF WebSpec

\* Every variable of the page keeps its type.
THEOREM WebTypeCorrect == WebSpec => []WebTypeOK
<1>1. WebInv => WebTypeOK
  BY DEF WebInv
<1> QED
  BY <1>1, WebInvariant, PTL

\* onClose, scheduleReconnect and connect: for any number of sockets, late
\* close events and timers, a page that wants to be connected has a retry
\* armed or a socket left whose close will arm one.
THEOREM WebPageRetries == WebSpec => []WebRetries
<1>1. WebInv => WebRetries
  BY DEF WebInv
<1> QED
  BY <1>1, WebInvariant, PTL

\* sendCommand: unless two connections overlap, a command goes out only as the
\* policy of its own connection allows and to a pane this one has attached.
THEOREM WebPageInputAsTold == WebSpec => WebInputAsTold
<1>1. WebInv /\ [WebNext]_webVars => InputAsTold
  BY WebNextInv
<1>2. InputAsTold =>
        [\A sent \in S'.pending \ S.pending :
           sent.type = "input" /\ sent.waits /\ ~doubled'
             => sent.ws \in told /\ sent.arg \in acked[sent.ws]]_webVars
  BY DEF InputAsTold
<1> QED
  BY <1>1, <1>2, WebInvariant, PTL DEF WebSpec, WebInputAsTold

=============================================================================
