---------------------------- MODULE MCRelayClient ----------------------------
(***************************************************************************)
(* The two clients of the gateway's protocol for TLC: a behaviour is one   *)
(* of the client library or one of the web page, which share nothing.      *)
(***************************************************************************)
EXTENDS RelayClient, WebClient

VARIABLE client   \* the one that runs

ClientsInit ==
  /\ client \in {"library", "page"}
  /\ Init /\ WebInit
  /\ client = "library" => ~gateway.requiresAuth /\ ~gateway.globalInputDisabled

Library == client = "library" /\ Next /\ UNCHANGED <<client, webVars>>
WebPage == client = "page" /\ WebNext /\ UNCHANGED <<client, vars>>

ClientsSpec ==
  ClientsInit /\ [][Library \/ WebPage]_<<client, vars, webVars>> /\ Fairness
=============================================================================
