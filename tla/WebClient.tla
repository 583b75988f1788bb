----------------------------- MODULE WebClient -----------------------------
(***************************************************************************)
(* The web client (apps/web/app.js): the page's one state object S, the    *)
(* sockets it opens, its requests and their promises, its timers, and the  *)
(* user at its buttons.  Each function of the page is an operator from one *)
(* state of S to the next; what runs in microtasks after a handler is part *)
(* of its step.  The handlers do not ask which socket an event is of, so   *)
(* that a socket that is still closing, or was left behind, acts on the    *)
(* state of its successor.                                                 *)
(*                                                                         *)
(* Left out: the list of sessions, the text and cursor of output, the      *)
(* history of commands, S.authed, which no line reads, and the requests    *)
(* whose answer only redraws or does nothing (list_sessions, detach).      *)
(***************************************************************************)
EXTENDS Naturals, FiniteSets

CONSTANTS WebSocket,   \* sockets, free again once they are closed
          WebPane,
          Null,
          MaxPending   \* bound: requests that wait for an answer or are owed one

ASSUME WebAssumption == Null \notin WebSocket \union WebPane /\ MaxPending \in Nat

VARIABLES
  S,                   \* the page's state; sock has the readyState of its sockets
  gateway,             \* what the gateway demands and forbids
  greeted,             \* sockets on which the gateway has said hello
  told,                \* history: sockets whose last policy allows input
  acked,               \* history: socket -> panes the gateway has attached, even if later detached
  doubled,             \* history: since no socket was alive, two have been
  gaveUp               \* history: a loss met an unchecked box or an empty address

webVars == <<S, gateway, greeted, told, acked, doubled, gaveUp>>

Token == {"good", "bad"}

WebInit ==
  /\ S = [ws |-> Null, sock |-> [w \in WebSocket |-> "closed"], desired |-> FALSE,
          manualClose |-> FALSE, ready |-> FALSE, reconnectTimer |-> FALSE,
          heartbeatTimer |-> FALSE, pending |-> {}, activePane |-> Null,
          inputEnabled |-> FALSE, globalInputDisabled |-> FALSE]
  /\ gateway \in [requiresAuth : BOOLEAN, globalInputDisabled : BOOLEAN]
  /\ greeted = {} /\ told = {} /\ acked = [w \in WebSocket |-> {}]
  /\ doubled = FALSE /\ gaveUp = FALSE

Alive(st) == {w \in WebSocket : st.sock[w] # "closed"}
SocketActive(st) == st.ws # Null /\ st.sock[st.ws] \in {"connecting", "open"}
SocketIsOpen(st) == st.ws # Null /\ st.sock[st.ws] = "open"

----------------------------------------------------------------------------
(* The functions of the page.  A request waits while its promise does; it  *)
(* stays in the Map as long as the gateway may still answer it.            *)

\* The id of a new request: one that no pending request has.
FreeId(st) == CHOOSE n \in 0..MaxPending : \A q \in st.pending : q.id # n

sendRequest(st, type, arg) ==
  IF ~SocketIsOpen(st) THEN st
  ELSE [st EXCEPT !.pending = @ \union {[id |-> FreeId(st), type |-> type, arg |-> arg,
                                         ws |-> st.ws, waits |-> TRUE]}]

closeSocket(st) == IF SocketActive(st) THEN [st EXCEPT !.sock[st.ws] = "closing"] ELSE st

\* The detach of the pane shown before, which goes out first, is left out: the
\* page does nothing with its answer.
attachPane(st, p) == IF st.ready THEN sendRequest(st, "attach", p) ELSE st

requestAuth(st, token) == IF token = Null THEN st ELSE sendRequest(st, "auth", token)

onAuthenticated(st) ==
  IF st.ready THEN st
  ELSE LET on == [st EXCEPT !.ready = TRUE, !.reconnectTimer = FALSE, !.heartbeatTimer = TRUE]
       IN  IF st.activePane = Null THEN on ELSE attachPane(on, st.activePane)

applyPolicy(st, enabled) ==
  [st EXCEPT !.inputEnabled = enabled, !.globalInputDisabled = gateway.globalInputDisabled]

scheduleReconnect(st, autoReconnect) ==
  [st EXCEPT !.reconnectTimer = st.desired /\ autoReconnect]

\* What the function that awaits a request does once its promise is settled;
\* a heartbeat that fails closes the socket when the last ack is too old.
continueAfter(st, request, ok, stale) ==
  CASE request.type = "attach" /\ ok -> [st EXCEPT !.activePane = request.arg]
    [] request.type = "heartbeat" /\ ~ok /\ stale -> closeSocket(st)
    [] request.type = "disconnect" -> [closeSocket(st) EXCEPT !.activePane = Null]
    [] OTHER -> st

\* Mutant: only the current socket's close is taken for a loss.
OnCloseOfCurrent(st, w, autoReconnect) ==
  LET others == {q \in st.pending : q.ws # w}
      lost == [st EXCEPT
        !.sock[w] = "closed", !.ws = Null, !.ready = FALSE, !.activePane = Null,
        !.heartbeatTimer = FALSE, !.inputEnabled = FALSE, !.globalInputDisabled = FALSE,
        !.pending = {[q EXCEPT !.waits = FALSE] : q \in others}]
  IN  IF st.ws # w THEN lost
      ELSE IF st.manualClose \/ ~st.desired THEN [lost EXCEPT !.manualClose = FALSE]
      ELSE scheduleReconnect(lost, autoReconnect)

\* Mutant: the pane is kept for the next connection.
OnCloseKeepsPane(st, w, autoReconnect) ==
  LET others == {q \in st.pending : q.ws # w}
      lost == [st EXCEPT
        !.sock[w] = "closed", !.ws = Null, !.ready = FALSE,
        !.heartbeatTimer = FALSE, !.inputEnabled = FALSE, !.globalInputDisabled = FALSE,
        !.pending = {[q EXCEPT !.waits = FALSE] : q \in others}]
  IN  IF st.manualClose \/ ~st.desired THEN [lost EXCEPT !.manualClose = FALSE]
      ELSE scheduleReconnect(lost, autoReconnect)

\* The close event of any socket clears the state of the current one and
\* rejects every pending request.  The functions that awaited one find no
\* current socket: of them only disconnect changes anything, the pane.
onClose(st, w, autoReconnect) ==
  LET others == {q \in st.pending : q.ws # w}
      lost == [st EXCEPT
        !.sock[w] = "closed", !.ws = Null, !.ready = FALSE, !.activePane = Null,
        !.heartbeatTimer = FALSE, !.inputEnabled = FALSE, !.globalInputDisabled = FALSE,
        !.pending = {[q EXCEPT !.waits = FALSE] : q \in others}]
  IN  IF st.manualClose \/ ~st.desired THEN [lost EXCEPT !.manualClose = FALSE]
      ELSE scheduleReconnect(lost, autoReconnect)

----------------------------------------------------------------------------
(* Events.  A step that would exceed the bound on requests waits for one.  *)

Page ==
  /\ Cardinality(S'.pending) <= MaxPending
  /\ doubled' = \/ Cardinality(Alive(S')) > 1
                \/ doubled /\ Alive(S') # {}
  /\ UNCHANGED gateway

PageOnly == Page /\ UNCHANGED <<greeted, told, acked, gaveUp>>

\* connect(), from the state st: while a socket is active nothing happens; an
\* empty address is reported, one that the constructor cannot read throws.
connect(st) ==
  LET started == [st EXCEPT !.desired = TRUE, !.manualClose = FALSE, !.ready = FALSE] IN
  /\ IF SocketActive(st) THEN S' = st /\ UNCHANGED gaveUp
     ELSE \/ \E w \in WebSocket \ Alive(st) :
               /\ S' = [started EXCEPT !.ws = w, !.sock[w] = "connecting"]
               /\ gaveUp' = FALSE
          \/ \E auto \in BOOLEAN : S' = scheduleReconnect(started, auto) /\ gaveUp' = ~auto
          \/ S' = st /\ gaveUp' = TRUE
  /\ Page /\ UNCHANGED <<greeted, told, acked>>

ReconnectTimerFires == S.reconnectTimer /\ connect([S EXCEPT !.reconnectTimer = FALSE])

SocketOpens(w) ==
  /\ S.sock[w] = "connecting"
  /\ S' = [S EXCEPT !.sock[w] = "open"]
  /\ PageOnly

SocketCloses(w, auto) ==
  /\ w \in Alive(S)
  /\ S' = onClose(S, w, auto)
  /\ gaveUp' = IF S.manualClose \/ ~S.desired THEN gaveUp ELSE ~auto
  /\ greeted' = greeted \ {w} /\ told' = told \ {w}
  /\ acked' = [acked EXCEPT ![w] = {}]
  /\ Page

\* The greeting of a connection: its input is off.  The answer goes out on the
\* current socket, which may be another.
PageHello(w, token) ==
  /\ S.sock[w] = "open" /\ w \notin greeted
  /\ LET polite == applyPolicy(S, FALSE)
     IN  S' = IF gateway.requiresAuth THEN requestAuth(polite, token) ELSE onAuthenticated(polite)
  /\ greeted' = greeted \union {w}
  /\ Page /\ UNCHANGED <<told, acked, gaveUp>>

\* settlePending, then the effect of the message, whether or not the request
\* still waits.  The gateway enables no input while its kill switch is on.
PageAnswer(q, ok, stale) ==
  LET settled == [S EXCEPT !.pending = @ \ {q}]
      resumed == IF q.waits THEN continueAfter(settled, q, ok, stale) ELSE settled
      allows == q.type = "enable_input" /\ ok
  IN  /\ S.sock[q.ws] = "open"
      /\ q.type = "auth" => ok = (q.arg = "good")
      /\ allows => ~gateway.globalInputDisabled
      /\ S' = CASE q.type = "auth" /\ ok -> onAuthenticated(settled)
                [] q.type = "auth" /\ ~ok -> [settled EXCEPT !.desired = FALSE]
                [] q.type \in {"enable_input", "disable_input"} /\ ok -> applyPolicy(settled, allows)
                [] OTHER -> resumed
      /\ told' = IF q.type = "disable_input" /\ ok THEN told \ {q.ws}
                 ELSE IF allows THEN told \union {q.ws} ELSE told
      /\ acked' = IF q.type = "attach" /\ ok THEN [acked EXCEPT ![q.ws] = @ \union {q.arg}] ELSE acked
      /\ Page /\ UNCHANGED <<greeted, gaveUp>>

PageTimeout(q, stale) ==
  /\ q.waits
  /\ S' = continueAfter([S EXCEPT !.pending = (@ \ {q}) \union {[q EXCEPT !.waits = FALSE]}],
                        q, FALSE, stale)
  /\ PageOnly

\* The heartbeat's interval.
Beat ==
  /\ S.heartbeatTimer /\ S.ready /\ SocketIsOpen(S)
  /\ S' = sendRequest(S, "heartbeat", Null)
  /\ PageOnly

----------------------------------------------------------------------------
(* The user: a button that updateControls disables is not pressed.         *)

Submit(token) ==
  /\ ~(S.ws # Null /\ S.sock[S.ws] = "connecting") /\ ~(SocketActive(S) /\ S.ready)
  /\ IF SocketIsOpen(S)
     THEN S' = requestAuth(S, token) /\ PageOnly
     ELSE connect(S)

AttachClicked(p) ==
  /\ p # S.activePane
  /\ S' = attachPane(S, p)
  /\ PageOnly

requestPolicy(type) ==
  /\ S.ready
  /\ IF type = "enable_input" THEN ~S.globalInputDisabled ELSE S.inputEnabled
  /\ S' = sendRequest(S, type, Null)
  /\ PageOnly

sendCommand ==
  /\ S.ready /\ S.activePane # Null
  /\ S.inputEnabled /\ ~S.globalInputDisabled
  /\ S' = sendRequest(S, "input", S.activePane)
  /\ PageOnly

\* disconnect() up to its await, or to its end when there is none.
disconnect ==
  LET leaving == [S EXCEPT !.desired = FALSE, !.manualClose = TRUE,
                           !.reconnectTimer = FALSE, !.heartbeatTimer = FALSE]
  IN  /\ SocketActive(S)
      /\ S' = IF S.ready /\ SocketIsOpen(S) THEN sendRequest(leaving, "disconnect", Null)
              ELSE [closeSocket(leaving) EXCEPT !.activePane = Null]
      /\ PageOnly

\* The beforeunload listener; a page may outlive it.
Unload ==
  /\ S' = closeSocket([S EXCEPT !.desired = FALSE, !.manualClose = TRUE, !.heartbeatTimer = FALSE])
  /\ PageOnly

WebNext ==
  \/ ReconnectTimerFires \/ Beat \/ sendCommand \/ disconnect \/ Unload
  \/ \E w \in WebSocket :
       \/ SocketOpens(w)
       \/ \E auto \in BOOLEAN : SocketCloses(w, auto)
       \/ \E token \in Token \union {Null} : PageHello(w, token)
  \/ \E q \in S.pending :
       \E stale \in BOOLEAN :
         PageTimeout(q, stale) \/ \E ok \in BOOLEAN : PageAnswer(q, ok, stale)
  \/ \E token \in Token \union {Null} : Submit(token)
  \/ \E p \in WebPane : AttachClicked(p)
  \/ \E type \in {"enable_input", "disable_input"} : requestPolicy(type)

WebSpec == WebInit /\ [][WebNext]_webVars

----------------------------------------------------------------------------
(* Properties *)

RequestType == {"auth", "attach", "heartbeat", "enable_input", "disable_input", "input",
                "disconnect"}

WebRequest == {q \in [id : 0..MaxPending, type : RequestType,
                      arg : Token \union WebPane \union {Null},
                      ws : WebSocket, waits : BOOLEAN] : q.type = "attach" => q.arg \in WebPane}

WebState ==
  [ws : WebSocket \union {Null},
   sock : [WebSocket -> {"connecting", "open", "closing", "closed"}],
   desired : BOOLEAN, manualClose : BOOLEAN, ready : BOOLEAN, reconnectTimer : BOOLEAN,
   heartbeatTimer : BOOLEAN, pending : SUBSET WebRequest, activePane : WebPane \union {Null},
   inputEnabled : BOOLEAN, globalInputDisabled : BOOLEAN]

\* The values each variable ranges over.
WebTypeOK ==
  /\ S \in WebState
  /\ gateway \in [requiresAuth : BOOLEAN, globalInputDisabled : BOOLEAN]
  /\ greeted \subseteq WebSocket /\ told \subseteq WebSocket
  /\ acked \in [WebSocket -> SUBSET WebPane]
  /\ doubled \in BOOLEAN /\ gaveUp \in BOOLEAN

\* A page that wants to be connected is not stuck: unless the user unchecked
\* auto-reconnect or emptied the address, a retry is armed or some socket is
\* left whose close will arm one, whichever sockets the events were of
\* (onClose, scheduleReconnect, connect).
WebRetries == S.desired /\ ~gaveUp => S.reconnectTimer \/ Alive(S) # {}

\* A command goes out only on a connection whose own last policy allows input
\* and for a pane that this connection has attached: nothing of an earlier
\* connection survives into the next one, as long as no two of them overlap.
\* The pane may since have been detached for another one that is not acked yet
\* (sendCommand, onClose, applyPolicy, attachPane).
WebInputAsTold ==
  [][\A sent \in S'.pending \ S.pending :
       sent.type = "input" /\ sent.waits /\ ~doubled'
         => sent.ws \in told /\ sent.arg \in acked[sent.ws]]_webVars
============================================================================
