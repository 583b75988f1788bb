---------------------------- MODULE MCRelayProxy ----------------------------
(***************************************************************************)
(* The relay composed for TLC: the process of RelayProcess and, once it is *)
(* listening, the sessions of RelayProxy.  A signal that reaches an open   *)
(* relay runs close(), which ends the sessions.  Sessions are explored for *)
(* one command line, PlainArgv: no other setting reaches them.             *)
(***************************************************************************)
EXTENDS RelayProxy, RelayProcess

\* One client sends two messages, the others one.
MCMaxMessages ==
  LET busy == CHOOSE c \in Conn : TRUE IN [c \in Conn |-> IF c = busy THEN 2 ELSE 1]

Flag(flag, value) == [flag |-> flag, value |-> value]
Versions == <<Flag("minVersion", 2), Flag("maxVersion", 3)>>
PlainArgv == Append(Versions, Flag("maxConnections", maxConnections))

PlainEnv == [s \in Setting |-> None]

Ca == "ca"
MCFile == {Ca, "cert", "key", "pfx"}

\* Values that take a setting out of its default.
Odd(s) ==
  CASE s = "listenPort" -> {Junk, 0, 9000}
    [] s \in {"maxConnections", "idleTimeoutMs", "shutdownTimeoutMs"} -> {2000000}
    [] s = "relayPath" -> {<<"/">>, <<"relay", "/">>}
    [] s = "healthPath" -> {<<"/", "/">>, <<"/", "status">>}
    [] s = "listenHost" -> {Blank}
    [] s = "upstreamUrl" -> {Blank, "wss:", "http:"}
    [] s \in {"rejectUnauthorized", "restartOnChange"} -> {Blank, Junk, TRUE, FALSE}
    [] s = "watchIntervalMs" -> {Junk, 10, 750}
    [] s = "requiredToken" -> {Blank, "t1"}
    [] s = "allowedOrigins" -> {{"o"}}
    [] s \in {"minVersion", "maxVersion"} -> {Junk, 1, 3}
    [] s = "caFile" -> {{Ca}, {Ca, "cert"}}
    [] s = "certFile" -> {"cert"}
    [] s = "keyFile" -> {"key"}
    [] s = "pfxFile" -> {"pfx"}

\* Every setting with each of three that the rest may depend on, and a client
\* identity of certificate and key.
MCEnv ==
  LET bases == {PlainEnv, [PlainEnv EXCEPT !["certFile"] = "cert", !["keyFile"] = "key"]} IN
  UNION {{[base EXCEPT ![s] = v, ![t] = w] : v \in Odd(s), w \in Odd(t)} :
           base \in bases, s \in Setting,
           t \in {"watchIntervalMs", "requiredToken", "pfxFile"}}
    \union bases

MCArgv ==
  {PlainArgv, << >>, Versions,
   Versions \o <<Flag("requiredToken", "t2"), Flag("watchIntervalMs", 100)>>,
   Versions \o <<Flag("tokenFromEnv", "t3"), Flag("listenPort", 70000)>>,
   Versions \o <<Flag("tokenFromEnv", Blank)>>, <<Flag("listenPort", None)>>,
   <<Flag("idleTimeoutMs", 0)>>, <<Flag("help", None), Flag("unknown", None)>>}

MCRequest ==
  [upgrade : BOOLEAN, method : {"GET", "POST"},
   path : {<<"/", "ws">>, <<"/", "relay">>, <<"/", "health">>, <<"/", "status">>, <<"/">>},
   origin : {None, "o"}, bearer : {Empty, "t1", "t2", "t3"}]

RelayInit == Init /\ ProcessInit

Stopping == phase = "open" /\ Signal /\ Close
Process == ProcessNext /\ ~(phase = "open" /\ phase' = "closing") /\ UNCHANGED vars
Sessions ==
  /\ phase \in {"open", "closing"} /\ argv = PlainArgv /\ env = PlainEnv
  /\ unreadable = {}
  /\ SessionNext /\ UNCHANGED processVars

RelaySpec ==
  /\ RelayInit /\ [][~crashed /\ (Stopping \/ Process \/ Sessions)]_<<vars, processVars>>
  /\ SessionFairness /\ ProcessFairness
=============================================================================
