----------------------------- MODULE InputLane -----------------------------
(***************************************************************************)
(* What the input arbitration of the gateway promises, without its leases, *)
(* clock readings and lazily expired map entries: every pane has at most   *)
(* one holder, who keeps the lane by writing, loses it by leaving or by    *)
(* being silent for Lease ticks, and can be displaced only by a takeover.  *)
(***************************************************************************)
EXTENDS Naturals

CONSTANTS Client, Pane, NoOne, Lease, AllowOverride

VARIABLES
  holder,  \* pane -> who may write, NoOne when the lane is free
  idle     \* pane -> ticks since the holder's last accepted input

vars == <<holder, idle>>

Init ==
  /\ holder = [p \in Pane |-> NoOne]
  /\ idle = [p \in Pane |-> 0]

\* An input is accepted: from the holder, on a free lane, or as a takeover.
Write(c, p) ==
  /\ holder[p] \in {NoOne, c} \/ AllowOverride
  /\ holder' = [holder EXCEPT ![p] = c]
  /\ idle' = [idle EXCEPT ![p] = 0]

\* A client leaves a pane, or all of them.
Leave(c, P) ==
  /\ holder' = [p \in Pane |-> IF p \in P /\ holder[p] = c THEN NoOne ELSE holder[p]]
  /\ idle' = [p \in Pane |-> IF p \in P /\ holder[p] = c THEN 0 ELSE idle[p]]

\* Time passes; a lane that was silent for the whole lease becomes free.
Tick ==
  LET lapses(p) == holder[p] = NoOne \/ idle[p] + 1 = Lease IN
  /\ holder' = [p \in Pane |-> IF lapses(p) THEN NoOne ELSE holder[p]]
  /\ idle' = [p \in Pane |-> IF lapses(p) THEN 0 ELSE idle[p] + 1]

Next ==
  \/ Tick
  \/ \E c \in Client, p \in Pane : Write(c, p)
  \/ \E c \in Client, P \in SUBSET Pane : Leave(c, P)

Spec == Init /\ [][Next]_vars
=============================================================================
