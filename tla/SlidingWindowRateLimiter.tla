---------------------- MODULE SlidingWindowRateLimiter ----------------------
(***************************************************************************)
(* The per-connection limiter of messages and of inputs                    *)
(* (src/src/server/rate-limiter.ts).  Each key has a queue of the times of *)
(* its granted events; a request first drops the times that have left the  *)
(* window and is granted when fewer than maxEvents remain.                 *)
(***************************************************************************)
EXTENDS Integers, Sequences

CONSTANTS
  Key,        \* client ids
  maxEvents,  \* events allowed in a window
  windowMs,   \* length of the window
  MaxTime     \* bound: the last instant of the clock

ASSUME LimiterAssumption ==
  /\ maxEvents \in Nat \ {0}
  /\ windowMs \in Nat
  /\ MaxTime \in Nat

VARIABLES
  now,         \* the clock
  timestamps,  \* the Map: key -> times of granted events, oldest first
  decision,    \* key -> what the last consume returned, and when
  granted      \* history variable: key -> all grants since the key's clear

vars == <<now, timestamps, decision, granted>>

Decision == [allowed : BOOLEAN, retryAfterMs : Nat, at : 0..MaxTime]
Fresh == [allowed |-> TRUE, retryAfterMs |-> 0, at |-> 0]

TypeOK ==
  /\ now \in 0..MaxTime
  /\ timestamps \in [Key -> Seq(0..MaxTime)]
  /\ decision \in [Key -> Decision]
  /\ granted \in [Key -> Seq(0..MaxTime)]

Init ==
  /\ now = 0
  /\ timestamps = [k \in Key |-> << >>]
  /\ decision = [k \in Key |-> Fresh]
  /\ granted = [k \in Key |-> << >>]

\* The shift loop of consume stops after n shifts.
Shifts(history, minTs, n) ==
  /\ \A i \in 1..n : history[i] < minTs
  /\ n < Len(history) => history[n + 1] >= minTs

Remaining(history, n) == SubSeq(history, n + 1, Len(history))

\* Mutant: one event too many fits into the window.
GrantOneMore(k, n) ==
  LET history == Remaining(timestamps[k], n) IN
  /\ Shifts(timestamps[k], now - windowMs, n)
  /\ Len(history) <= maxEvents
  /\ timestamps' = [timestamps EXCEPT ![k] = Append(history, now)]
  /\ decision' = [decision EXCEPT ![k] =
                   [allowed |-> TRUE, retryAfterMs |-> 0, at |-> now]]
  /\ granted' = [granted EXCEPT ![k] = Append(@, now)]
  /\ UNCHANGED now

\* consume on a key with room in the window.
Grant(k, n) ==
  LET history == Remaining(timestamps[k], n) IN
  /\ Shifts(timestamps[k], now - windowMs, n)
  /\ Len(history) < maxEvents
  /\ timestamps' = [timestamps EXCEPT ![k] = Append(history, now)]
  /\ decision' = [decision EXCEPT ![k] =
                   [allowed |-> TRUE, retryAfterMs |-> 0, at |-> now]]
  /\ granted' = [granted EXCEPT ![k] = Append(@, now)]
  /\ UNCHANGED now

\* Mutant: the wait is one too short.
retryAfterShort(history) ==
  LET wait == history[1] + windowMs - now - 1 IN IF wait > 0 THEN wait ELSE 0

retryAfterMs(history) ==
  LET wait == history[1] + windowMs - now IN IF wait > 0 THEN wait ELSE 0

\* consume on a key whose window is full.
Deny(k, n) ==
  LET history == Remaining(timestamps[k], n) IN
  /\ Shifts(timestamps[k], now - windowMs, n)
  /\ Len(history) >= maxEvents
  /\ timestamps' = [timestamps EXCEPT ![k] = history]
  /\ decision' = [decision EXCEPT ![k] =
                   [allowed |-> FALSE, retryAfterMs |-> retryAfterMs(history), at |-> now]]
  /\ UNCHANGED <<now, granted>>

\* clear(key): the connection closed.
Clear(k) ==
  /\ timestamps' = [timestamps EXCEPT ![k] = << >>]
  /\ decision' = [decision EXCEPT ![k] = Fresh]
  /\ granted' = [granted EXCEPT ![k] = << >>]
  /\ UNCHANGED now

Tick ==
  /\ now < MaxTime
  /\ now' = now + 1
  /\ UNCHANGED <<timestamps, decision, granted>>

Next ==
  \/ Tick
  \/ \E k \in Key : \E n \in 0..Len(timestamps[k]) : Grant(k, n) \/ Deny(k, n)
  \/ \E k \in Key : Clear(k)

Spec == Init /\ [][Next]_vars

-----------------------------------------------------------------------------
(* Properties *)

\* No window of windowMs, both ends included, ever holds more than maxEvents
\* grants of a key: two grants maxEvents apart are further apart in time.
WindowBound ==
  \A k \in Key : \A i \in 1..Len(granted[k]) :
    i + maxEvents <= Len(granted[k]) =>
      granted[k][i + maxEvents] - granted[k][i] > windowMs

\* A request is denied only when the window that ends now is full.
DeniedOnlyWhenFull ==
  \A k \in Key : ~decision[k].allowed =>
    LET g == granted[k]
        n == Len(g)
    IN n >= maxEvents /\ g[n - maxEvents + 1] >= decision[k].at - windowMs

\* A client that waits longer than retryAfterMs is not denied again.
RetryAfterSuffices ==
  [][\A k \in Key :
       ~decision[k].allowed /\ ~decision'[k].allowed =>
         decision'[k].at <= decision[k].at + decision[k].retryAfterMs]_vars

=============================================================================
