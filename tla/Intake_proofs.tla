--------------------------- MODULE Intake_proofs ---------------------------
(***************************************************************************)
(* How the server takes a message: the limiter in front, for every limit,  *)
(* window and set of keys, and the handlers behind it, for any number of   *)
(* connections, panes and overlapping handlers, any frames and any errors. *)
(* And what it measures meanwhile, for rings of any size.                  *)
(*                                                                         *)
(* None of the limiter's properties is inductive: they follow from how the *)
(* queue of a key relates to all grants of the key (IInv) and from what a  *)
(* denial leaves behind (DInv).  The handlers' rest on what a handler has  *)
(* left to do (IntakeInv).  The telemetry's rest on how a ring lies over   *)
(* the newest samples (TelemetryInv).                                      *)
(***************************************************************************)
EXTENDS SlidingWindowRateLimiter, MessageIntake, BridgeTelemetry, SequenceTheorems,
        FiniteSetTheorems, WellFoundedInduction, TLAPS

\* The queue is the newest part of the grants ...
QueueIsSuffix ==
  \A k \in Key :
    /\ Len(timestamps[k]) <= Len(granted[k])
    /\ \A i \in 1..Len(timestamps[k]) :
         timestamps[k][i] = granted[k][Len(granted[k]) - Len(timestamps[k]) + i]

\* ... and what it no longer holds has left the window.
DroppedIsOld ==
  \A k \in Key : \A i \in 1..(Len(granted[k]) - Len(timestamps[k])) :
    granted[k][i] < now - windowMs

IInv == TypeOK /\ QueueIsSuffix /\ DroppedIsOld /\ WindowBound

\* The queue is no longer than the limit.
QueueBounded == \A k \in Key : Len(timestamps[k]) <= maxEvents

\* After a denial the queue stays full until the next consume, and the oldest
\* time in it leaves the window once the announced delay is over.
DenialFacts ==
  \A k \in Key : ~decision[k].allowed =>
    /\ Len(timestamps[k]) = maxEvents
    /\ timestamps[k][1] >= decision[k].at - windowMs
    /\ timestamps[k][1] + windowMs <= decision[k].at + decision[k].retryAfterMs

DInv == IInv /\ QueueBounded /\ DenialFacts

-----------------------------------------------------------------------------
(* Sequences *)

\* Remaining drops n elements from the front.
LEMMA RemainingProperties ==
  ASSUME NEW S, NEW h \in Seq(S), NEW n \in 0..Len(h)
  PROVE  /\ Remaining(h, n) \in Seq(S)
         /\ Len(Remaining(h, n)) = Len(h) - n
         /\ \A i \in 1..(Len(h) - n) : Remaining(h, n)[i] = h[n + i]
  BY DEF Remaining

-----------------------------------------------------------------------------
(* Every state satisfies the invariant *)

LEMMA InitIInv == Init => IInv
  BY LimiterAssumption DEF Init, IInv, TypeOK, QueueIsSuffix, DroppedIsOld,
     WindowBound, Decision, Fresh

\* A step of consume: what the shifts leave is still a suffix of the grants,
\* and everything before it is older than the window.
LEMMA ShiftedQueue ==
  ASSUME IInv, NEW k \in Key, NEW n \in 0..Len(timestamps[k]),
         Shifts(timestamps[k], now - windowMs, n)
  PROVE  LET h == Remaining(timestamps[k], n)
             g == granted[k]
         IN /\ h \in Seq(0..MaxTime)
            /\ Len(h) <= Len(g)
            /\ \A i \in 1..Len(h) : h[i] = g[Len(g) - Len(h) + i]
            /\ \A i \in 1..(Len(g) - Len(h)) : g[i] < now - windowMs
  <1> DEFINE t == timestamps[k]
             g == granted[k]
             h == Remaining(t, n)
  <1>1. /\ t \in Seq(0..MaxTime) /\ g \in Seq(0..MaxTime)
        /\ now \in Int /\ windowMs \in Int
    BY LimiterAssumption DEF IInv, TypeOK
  <1>2. /\ h \in Seq(0..MaxTime)
        /\ Len(h) = Len(t) - n
        /\ \A i \in 1..(Len(t) - n) : h[i] = t[n + i]
    BY <1>1, RemainingProperties
  <1>3. /\ Len(t) <= Len(g)
        /\ \A i \in 1..Len(t) : t[i] = g[Len(g) - Len(t) + i]
        /\ \A i \in 1..(Len(g) - Len(t)) : g[i] < now - windowMs
    BY DEF IInv, QueueIsSuffix, DroppedIsOld
  <1>4. \A i \in 1..n : t[i] < now - windowMs
    BY DEF Shifts
  <1> HIDE DEF t, g, h
  <1>5. Len(h) <= Len(g)
    BY <1>1, <1>2, <1>3
  <1>6. ASSUME NEW i \in 1..Len(h)
        PROVE  h[i] = g[Len(g) - Len(h) + i]
    <2>1. /\ n + i \in 1..Len(t)
          /\ Len(g) - Len(t) + (n + i) = Len(g) - Len(h) + i
      BY <1>1, <1>2
    <2> QED BY <2>1, <1>2, <1>3
  <1>7. ASSUME NEW i \in 1..(Len(g) - Len(h))
        PROVE  g[i] < now - windowMs
    <2>1. CASE i <= Len(g) - Len(t)
      BY <2>1, <1>1, <1>3
    <2>2. CASE i > Len(g) - Len(t)
      <3>1. /\ i - (Len(g) - Len(t)) \in 1..n
            /\ i - (Len(g) - Len(t)) \in 1..Len(t)
            /\ Len(g) - Len(t) + (i - (Len(g) - Len(t))) = i
        BY <2>2, <1>1, <1>2
      <3> QED BY <3>1, <1>3, <1>4
    <2> QED BY <2>1, <2>2, <1>1
  <1> QED BY <1>2, <1>5, <1>6, <1>7 DEF t, g, h

LEMMA NextIInv == IInv /\ [Next]_vars => IInv'
  <1> SUFFICES ASSUME IInv, [Next]_vars PROVE IInv'
    OBVIOUS
  <1> USE LimiterAssumption
  <1>1. CASE Tick
    BY <1>1 DEF Tick, IInv, TypeOK, QueueIsSuffix, DroppedIsOld, WindowBound
  <1>2. ASSUME NEW k \in Key, NEW n \in 0..Len(timestamps[k]), Grant(k, n)
        PROVE  IInv'
    <2> DEFINE h == Remaining(timestamps[k], n)
               g == granted[k]
    <2>1. /\ h \in Seq(0..MaxTime) /\ g \in Seq(0..MaxTime)
          /\ Len(h) <= Len(g) /\ Len(h) < maxEvents
          /\ \A i \in 1..Len(h) : h[i] = g[Len(g) - Len(h) + i]
          /\ \A i \in 1..(Len(g) - Len(h)) : g[i] < now - windowMs
      BY <1>2, ShiftedQueue DEF Grant, IInv, TypeOK
    <2>2. /\ timestamps' = [timestamps EXCEPT ![k] = Append(h, now)]
          /\ granted' = [granted EXCEPT ![k] = Append(g, now)]
          /\ now' = now
      BY <1>2 DEF Grant
    <2> HIDE DEF h, g
    <2>a. /\ Append(h, now) \in Seq(0..MaxTime) /\ Append(g, now) \in Seq(0..MaxTime)
          /\ Len(Append(h, now)) = Len(h) + 1 /\ Len(Append(g, now)) = Len(g) + 1
          /\ \A i \in 1..Len(h) : Append(h, now)[i] = h[i]
          /\ \A i \in 1..Len(g) : Append(g, now)[i] = g[i]
          /\ Append(h, now)[Len(h) + 1] = now /\ Append(g, now)[Len(g) + 1] = now
      <3>1. now \in 0..MaxTime
        BY DEF IInv, TypeOK
      <3> QED BY <2>1, <3>1, AppendProperties
    <2>b. Len(h) \in Nat /\ Len(g) \in Nat /\ maxEvents \in Nat
      BY <2>1
    <2>3. TypeOK'
      <3>1. decision' \in [Key -> Decision]
        BY <1>2 DEF Grant, IInv, TypeOK, Decision
      <3> QED BY <3>1, <2>2, <2>a DEF IInv, TypeOK
    <2>4. /\ timestamps'[k] = Append(h, now)
          /\ granted'[k] = Append(g, now)
          /\ \A q \in Key \ {k} :
               timestamps'[q] = timestamps[q] /\ granted'[q] = granted[q]
      BY <2>2 DEF IInv, TypeOK
    <2>5. QueueIsSuffix'
      <3> SUFFICES ASSUME NEW q \in Key
                   PROVE  /\ Len(timestamps'[q]) <= Len(granted'[q])
                          /\ \A i \in 1..Len(timestamps'[q]) :
                               timestamps'[q][i] =
                                 granted'[q][Len(granted'[q]) - Len(timestamps'[q]) + i]
        BY DEF QueueIsSuffix
      <3>1. CASE q = k
        <4>1. Len(h) + 1 <= Len(g) + 1
          BY <2>1
        <4>2. ASSUME NEW i \in 1..(Len(h) + 1)
              PROVE  Append(h, now)[i] = Append(g, now)[(Len(g) + 1) - (Len(h) + 1) + i]
          <5>1. CASE i = Len(h) + 1
            BY <5>1, <2>1, <2>a
          <5>2. CASE i \in 1..Len(h)
            BY <5>2, <2>1, <2>a
          <5>3. i = Len(h) + 1 \/ i \in 1..Len(h)
            BY <2>b
          <5> QED BY <5>1, <5>2, <5>3
        <4>3. /\ timestamps'[q] = Append(h, now) /\ Len(timestamps'[q]) = Len(h) + 1
              /\ granted'[q] = Append(g, now) /\ Len(granted'[q]) = Len(g) + 1
          BY <3>1, <2>4, <2>a
        <4> QED BY <4>1, <4>2, <4>3
      <3>2. CASE q # k
        BY <3>2, <2>4 DEF IInv, QueueIsSuffix
      <3> QED BY <3>1, <3>2
    <2>6. DroppedIsOld'
      <3> SUFFICES ASSUME NEW q \in Key,
                          NEW i \in 1..(Len(granted'[q]) - Len(timestamps'[q]))
                   PROVE  granted'[q][i] < now - windowMs
        BY <2>2 DEF DroppedIsOld
      <3>1. CASE q = k
        BY <3>1, <2>1, <2>4 DEF IInv, TypeOK
      <3>2. CASE q # k
        BY <3>2, <2>4 DEF IInv, DroppedIsOld
      <3> QED BY <3>1, <3>2
    <2>7. WindowBound'
      <3> SUFFICES ASSUME NEW q \in Key, NEW i \in 1..Len(granted'[q]),
                          i + maxEvents <= Len(granted'[q])
                   PROVE  granted'[q][i + maxEvents] - granted'[q][i] > windowMs
        BY DEF WindowBound
      <3>1. CASE q # k
        BY <3>1, <2>4 DEF IInv, WindowBound
      <3>2. CASE q = k /\ i + maxEvents <= Len(g)
        <4>1. /\ granted'[q][i + maxEvents] = g[i + maxEvents]
              /\ granted'[q][i] = g[i]
              /\ i \in 1..Len(g)
          BY <3>2, <2>1, <2>4, SMTT(60)
        <4> QED BY <4>1, <3>2 DEF IInv, WindowBound, g
      \* The new grant and the one maxEvents before it, which was dropped.
      <3>3. CASE q = k /\ i + maxEvents = Len(g) + 1
        <4>1. /\ i \in 1..(Len(g) - Len(h))
              /\ i \in 1..Len(g)
          BY <3>3, <2>1
        <4>2. /\ granted'[q][i + maxEvents] = now
              /\ granted'[q][i] = g[i]
          BY <4>1, <3>3, <2>4, <2>a
        <4>3. g[i] < now - windowMs /\ g[i] \in Int
          BY <4>1, <2>1, SMTT(60)
        <4> QED BY <4>2, <4>3 DEF IInv, TypeOK
      <3>4. q = k => i + maxEvents <= Len(g) \/ i + maxEvents = Len(g) + 1
        <4>1. q = k => Len(granted'[q]) = Len(g) + 1
          BY <2>4, <2>a
        <4> QED BY <4>1, <2>b
      <3> QED BY <3>1, <3>2, <3>3, <3>4
    <2> QED BY <2>3, <2>5, <2>6, <2>7 DEF IInv
  <1>3. ASSUME NEW k \in Key, NEW n \in 0..Len(timestamps[k]), Deny(k, n)
        PROVE  IInv'
    <2> DEFINE h == Remaining(timestamps[k], n)
               g == granted[k]
    <2>1. /\ h \in Seq(0..MaxTime) /\ g \in Seq(0..MaxTime)
          /\ Len(h) <= Len(g) /\ Len(h) >= maxEvents
          /\ \A i \in 1..Len(h) : h[i] = g[Len(g) - Len(h) + i]
          /\ \A i \in 1..(Len(g) - Len(h)) : g[i] < now - windowMs
      BY <1>3, ShiftedQueue DEF Deny, IInv, TypeOK
    <2>2. /\ timestamps' = [timestamps EXCEPT ![k] = h]
          /\ granted' = granted
          /\ now' = now
      BY <1>3 DEF Deny
    <2>3. decision' \in [Key -> Decision]
      <3>1. retryAfterMs(h) \in Nat
        BY <2>1, SMTT(60) DEF retryAfterMs, IInv, TypeOK
      <3> QED BY <3>1, <1>3 DEF Deny, IInv, TypeOK, Decision
    <2> HIDE DEF h
    <2>4. TypeOK'
      BY <2>1, <2>2, <2>3 DEF IInv, TypeOK
    <2>5. QueueIsSuffix'
      BY <2>1, <2>2 DEF IInv, TypeOK, QueueIsSuffix
    <2>6. DroppedIsOld'
      BY <2>1, <2>2 DEF IInv, TypeOK, DroppedIsOld
    <2>7. WindowBound'
      BY <2>2 DEF IInv, WindowBound
    <2> QED BY <2>4, <2>5, <2>6, <2>7 DEF IInv
  <1>4. ASSUME NEW k \in Key, Clear(k)
        PROVE  IInv'
    BY <1>4 DEF Clear, IInv, TypeOK, QueueIsSuffix, DroppedIsOld, WindowBound,
       Decision, Fresh
  <1>5. CASE UNCHANGED vars
    BY <1>5 DEF vars, IInv, TypeOK, QueueIsSuffix, DroppedIsOld, WindowBound
  <1> QED BY <1>1, <1>2, <1>3, <1>4, <1>5 DEF Next

-----------------------------------------------------------------------------
(* Denials *)

\* The queue a step of consume works on, seen from its oldest time.
LEMMA FullQueue ==
  ASSUME DInv, NEW k \in Key, NEW n \in 0..Len(timestamps[k]),
         Shifts(timestamps[k], now - windowMs, n),
         Len(Remaining(timestamps[k], n)) >= maxEvents
  PROVE  /\ n = 0
         /\ Len(timestamps[k]) = maxEvents
         /\ Remaining(timestamps[k], n) = timestamps[k]
         /\ timestamps[k][1] >= now - windowMs
         /\ timestamps[k][1] \in Int
  <1> DEFINE t == timestamps[k]
  <1>1. t \in Seq(0..MaxTime) /\ Len(t) \in Nat /\ Len(t) <= maxEvents
    BY DEF DInv, IInv, TypeOK, QueueBounded
  <1>2. Len(Remaining(t, n)) = Len(t) - n
    BY <1>1, RemainingProperties
  <1>3. n = 0 /\ Len(t) = maxEvents /\ Len(t) >= 1
    BY <1>1, <1>2, LimiterAssumption
  <1>4. Remaining(t, n) = t
    BY <1>1, <1>3, SubSeqFull DEF Remaining
  <1>5. t[1] >= now - windowMs
    BY <1>3 DEF Shifts
  <1>6. t[1] \in Int
    <2>1. 1 \in 1..Len(t)
      BY <1>1, <1>3
    <2>2. t[1] \in 0..MaxTime
      BY <1>1, <2>1, ElementOfSeq
    <2> QED BY <2>2
  <1> QED BY <1>3, <1>4, <1>5, <1>6

LEMMA InitDInv == Init => DInv
  <1> SUFFICES ASSUME Init PROVE DInv
    OBVIOUS
  <1>1. IInv
    BY InitIInv
  <1>2. QueueBounded /\ DenialFacts
    BY LimiterAssumption DEF Init, QueueBounded, DenialFacts, Fresh
  <1> QED BY <1>1, <1>2 DEF DInv

LEMMA NextDInv == DInv /\ [Next]_vars => DInv'
  <1> SUFFICES ASSUME DInv, [Next]_vars PROVE DInv'
    OBVIOUS
  <1> USE LimiterAssumption
  <1>0. IInv' /\ TypeOK
    BY NextIInv DEF DInv, IInv
  <1>1. CASE Tick \/ UNCHANGED vars
    BY <1>0, <1>1 DEF Tick, vars, DInv, QueueBounded, DenialFacts
  <1>2. ASSUME NEW k \in Key, NEW n \in 0..Len(timestamps[k]), Grant(k, n)
        PROVE  DInv'
    <2> DEFINE h == Remaining(timestamps[k], n)
    <2>1. /\ h \in Seq(0..MaxTime) /\ Len(h) < maxEvents /\ Len(h) \in Nat
          /\ now \in 0..MaxTime
      BY <1>0, <1>2, RemainingProperties DEF Grant, TypeOK
    <2> HIDE DEF h
    <2>2. Len(Append(h, now)) = Len(h) + 1
      BY <2>1, AppendProperties
    <2>3. /\ timestamps' = [timestamps EXCEPT ![k] = Append(h, now)]
          /\ decision' = [decision EXCEPT ![k] =
                           [allowed |-> TRUE, retryAfterMs |-> 0, at |-> now]]
      BY <1>2 DEF Grant, h
    <2>4. QueueBounded'
      BY <1>0, <2>1, <2>2, <2>3 DEF DInv, QueueBounded, TypeOK
    <2>5. DenialFacts'
      BY <1>0, <2>3 DEF DInv, DenialFacts, TypeOK
    <2> QED BY <1>0, <2>4, <2>5 DEF DInv
  <1>3. ASSUME NEW k \in Key, NEW n \in 0..Len(timestamps[k]), Deny(k, n)
        PROVE  DInv'
    <2>1. /\ Remaining(timestamps[k], n) = timestamps[k]
          /\ Len(timestamps[k]) = maxEvents
          /\ timestamps[k][1] >= now - windowMs
          /\ timestamps[k][1] \in Int
      BY <1>3, FullQueue DEF Deny
    <2>2. /\ timestamps' = timestamps
          /\ decision' = [decision EXCEPT ![k] =
                           [allowed |-> FALSE,
                            retryAfterMs |-> retryAfterMs(timestamps[k]), at |-> now]]
      BY <1>0, <1>3, <2>1 DEF Deny, TypeOK
    <2>3. timestamps[k][1] + windowMs <= now + retryAfterMs(timestamps[k])
      BY <1>0, <2>1 DEF retryAfterMs, TypeOK
    <2>4. DenialFacts'
      BY <1>0, <2>1, <2>2, <2>3 DEF DInv, DenialFacts, TypeOK
    <2> QED BY <1>0, <2>2, <2>4 DEF DInv, QueueBounded
  <1>4. ASSUME NEW k \in Key, Clear(k)
        PROVE  DInv'
    BY <1>0, <1>4 DEF Clear, DInv, QueueBounded, DenialFacts, TypeOK, Fresh
  <1> QED BY <1>1, <1>2, <1>3, <1>4 DEF Next

\* The full queue of a denied key is the newest maxEvents of its grants.
LEMMA DInvDenied == DInv => DeniedOnlyWhenFull
  <1> SUFFICES ASSUME DInv, NEW k \in Key, ~decision[k].allowed
               PROVE  /\ Len(granted[k]) >= maxEvents
                      /\ granted[k][Len(granted[k]) - maxEvents + 1]
                           >= decision[k].at - windowMs
    BY DEF DeniedOnlyWhenFull
  <1>1. /\ Len(timestamps[k]) = maxEvents
        /\ timestamps[k][1] >= decision[k].at - windowMs
    BY DEF DInv, DenialFacts
  <1>2. 1 \in 1..Len(timestamps[k])
    BY <1>1, LimiterAssumption
  <1>3. /\ Len(timestamps[k]) <= Len(granted[k])
        /\ timestamps[k][1] = granted[k][Len(granted[k]) - Len(timestamps[k]) + 1]
    BY <1>2 DEF DInv, IInv, QueueIsSuffix
  <1> QED BY <1>1, <1>3

\* A second denial finds the same oldest time still in the window.
LEMMA StepRetryAfter ==
  ASSUME DInv, [Next]_vars, NEW k \in Key,
         ~decision[k].allowed, ~decision'[k].allowed
  PROVE  decision'[k].at <= decision[k].at + decision[k].retryAfterMs
  <1> USE LimiterAssumption
  <1>0. TypeOK
    BY DEF DInv, IInv
  <1>1. CASE decision'[k] = decision[k]
    BY <1>0, <1>1 DEF TypeOK, Decision
  <1>2. ASSUME NEW n \in 0..Len(timestamps[k]), Deny(k, n)
        PROVE  decision'[k].at <= decision[k].at + decision[k].retryAfterMs
    <2>1. /\ timestamps[k][1] >= now - windowMs
          /\ timestamps[k][1] \in Int
      BY <1>2, FullQueue DEF Deny
    <2>2. decision'[k].at = now
      BY <1>0, <1>2 DEF Deny, TypeOK
    <2>3. timestamps[k][1] + windowMs <= decision[k].at + decision[k].retryAfterMs
      BY DEF DInv, DenialFacts
    <2> QED BY <1>0, <2>1, <2>2, <2>3 DEF TypeOK, Decision
  <1>3. ASSUME NEW q \in Key, NEW n \in 0..Len(timestamps[q]), Grant(q, n)
        PROVE  decision'[k] = decision[k]
    BY <1>0, <1>3 DEF Grant, TypeOK
  <1>4. ASSUME NEW q \in Key, q # k, NEW n \in 0..Len(timestamps[q]), Deny(q, n)
        PROVE  decision'[k] = decision[k]
    BY <1>0, <1>4 DEF Deny, TypeOK
  <1>5. ASSUME NEW q \in Key, Clear(q)
        PROVE  decision'[k] = decision[k]
    BY <1>0, <1>5 DEF Clear, TypeOK, Fresh
  <1>6. CASE Tick \/ UNCHANGED vars
    BY <1>1, <1>6 DEF Tick, vars
  <1> QED BY <1>1, <1>2, <1>3, <1>4, <1>5, <1>6 DEF Next

-----------------------------------------------------------------------------
(* Theorems *)

\* The limiter's state stays well formed, whatever the order of its calls.
THEOREM LimiterTypeCorrect == Spec => []TypeOK
  BY InitIInv, NextIInv, PTL DEF Spec, IInv

\* No window of consume's clock ever holds more than maxEvents grants of a key.
THEOREM LimiterWindowBound == Spec => []WindowBound
  BY InitIInv, NextIInv, PTL DEF Spec, IInv

\* consume denies a request only when maxEvents grants lie in its window.
THEOREM LimiterDeniedOnlyWhenFull == Spec => []DeniedOnlyWhenFull
  BY InitDInv, NextDInv, DInvDenied, PTL DEF Spec

\* A denied key is not denied again after the delay consume announced.
THEOREM LimiterRetryAfter == Spec => RetryAfterSuffices
  <1>1. DInv /\ [Next]_vars =>
          [\A k \in Key : ~decision[k].allowed /\ ~decision'[k].allowed =>
             decision'[k].at <= decision[k].at + decision[k].retryAfterMs]_vars
    BY StepRetryAfter
  <1> QED BY <1>1, InitDInv, NextDInv, PTL DEF Spec, RetryAfterSuffices

-----------------------------------------------------------------------------
(* The handlers *)

\* A handler that has started calls the runtime at most once, before anything
\* else, then audits and at last answers.
Plan(todo) ==
  /\ todo \in Seq(Await) /\ todo # <<>>
  /\ \A i \in 1..Len(todo) :
       /\ todo[i].do = "reply" <=> i = Len(todo)
       /\ todo[i].do \in {"list", "attach", "send"} => i = 1

\* An audit line that is still to be written.
Due(todo, action) == \E i \in 1..Len(todo) : todo[i] = Audit(action)

\* An input that reached its pane has its lines written or still to be
\* written, and nobody else has such a line; a handler that has typed makes no
\* call that could throw.
SlotInv(s) ==
  /\ s \in Slot
  /\ s.todo # <<>> => Plan(s.todo) /\ s.client \in Client
  /\ s.typed =>
       /\ "input_allowed" \in s.audited \/ Due(s.todo, "input_allowed")
       /\ s.took => "input_takeover" \in s.audited \/ Due(s.todo, "input_takeover")
       /\ s.todo # <<>> => s.todo[1].do \in {"audit", "reply"}
  /\ "input_allowed" \in s.audited \/ Due(s.todo, "input_allowed") => s.typed

\* A policy_update that nothing but audit lines can keep back.
PolicyDue(todo) ==
  /\ todo # <<>> /\ todo[Len(todo)] = Reply("policy_update")
  /\ todo[1].do \in {"audit", "reply"}

\* What a connection may do is what it wished for; what it was told of input
\* holds, or an answer that will tell it is under way.
WishOK(c) ==
  /\ inputEnabled[c] => wish[c].enable /\ ~config.globalInputDisabled
  /\ authenticated[c] => wish[c].proved
  /\ attachedPanes[c] \subseteq wish[c].panes

PolicyOK(c) ==
  \/ told[c] \in {None, inputEnabled[c]}
  \/ phase[c] \in {"closing", "closed"}
  \/ phase[c] = "open" /\ \E h \in Handler : slot[h].client = c /\ PolicyDue(slot[h].todo)

IntakeInv ==
  /\ IntakeTypeOK
  /\ \A h \in Handler : SlotInv(slot[h])
  /\ \A c \in Client : WishOK(c) /\ PolicyOK(c)

\* A handler that does nothing.
LEMMA IdleFacts ==
  /\ None \in PaneId /\ None \in Cursor /\ <<>> \in Seq(Await)
  /\ Idle \in Slot /\ SlotInv(Idle)
<1>1. None \in PaneId /\ None \in Cursor
  BY DEF PaneId, Cursor
<1>2. <<>> \in Seq(Await)
  OBVIOUS
<1>3. Idle \in Slot
  BY <1>1, <1>2 DEF Idle, Slot
<1>4. /\ Idle.todo = <<>> /\ Idle.typed = FALSE /\ Idle.audited = {}
  BY DEF Idle
<1>5. \A action : ~Due(<<>>, action)
  BY DEF Due
<1> QED
  BY <1>1, <1>2, <1>3, <1>4, <1>5 DEF SlotInv

LEMMA IntakeInitInv == IntakeInit => IntakeInv
<1> SUFFICES ASSUME IntakeInit PROVE IntakeInv
  OBVIOUS
<1>1. IntakeTypeOK
  <2>1. Idle \in Slot /\ NoWish \in [proved : BOOLEAN, enable : BOOLEAN, panes : SUBSET PaneId]
    BY IdleFacts DEF NoWish
  <2> QED
    BY <2>1 DEF IntakeInit, IntakeTypeOK
<1>2. ASSUME NEW h \in Handler PROVE SlotInv(slot[h])
  <2>1. slot[h] = Idle
    BY DEF IntakeInit
  <2> QED
    BY <2>1, IdleFacts
<1>3. ASSUME NEW c \in Client PROVE WishOK(c) /\ PolicyOK(c)
  BY DEF IntakeInit, WishOK, PolicyOK, NoWish
<1> QED
  BY <1>1, <1>2, <1>3 DEF IntakeInv

-----------------------------------------------------------------------------
(* Plans *)

LEMMA AwaitFacts ==
  ASSUME NEW w \in Word
  PROVE  /\ Audit(w) \in Await /\ Audit(w).do = "audit"
         /\ Reply(w) \in Await /\ Reply(w).do = "reply"
         /\ w \in {"list", "attach", "send"} => Call(w) \in Await /\ Call(w).do = w
BY DEF Audit, Reply, Call, Await

\* An answer alone.
LEMMA ReplyPlan ==
  ASSUME NEW w \in Word
  PROVE  /\ Plan(<<Reply(w)>>) /\ <<Reply(w)>>[1].do = "reply"
         /\ \A action : ~Due(<<Reply(w)>>, action)
         /\ <<Reply(w)>>[Len(<<Reply(w)>>)] = Reply(w)
<1> DEFINE t == <<Reply(w)>>
<1>1. t \in Seq(Await) /\ Len(t) = 1 /\ t[1] = Reply(w)
  BY AwaitFacts
<1>2. 1..1 = {1}
  OBVIOUS
<1> QED
  <2>1. Reply(w).do = "reply" /\ \A action : Reply(w) # Audit(action)
    BY DEF Reply, Audit
  <2>2. t # <<>>
    BY <1>1
  <2> QED
    BY <1>1, <1>2, <2>1, <2>2 DEF Plan, Due

\* One more line or call in front.
LEMMA LongerPlan ==
  ASSUME NEW t, Plan(t), t[1].do \in {"audit", "reply"},
         NEW a \in Await, a.do # "reply"
  PROVE  /\ Plan(<<a>> \o t) /\ (<<a>> \o t)[1] = a
         /\ Len(<<a>> \o t) = Len(t) + 1
         /\ (<<a>> \o t)[Len(<<a>> \o t)] = t[Len(t)]
         /\ \A action : Due(<<a>> \o t, action) <=> a = Audit(action) \/ Due(t, action)
<1> DEFINE u == <<a>> \o t
<1>1. t \in Seq(Await) /\ t # <<>>
  BY DEF Plan
<1>2. Len(t) \in Nat /\ Len(t) > 0
  BY <1>1, EmptySeq, LenProperties
<1>3. u \in Seq(Await) /\ Len(u) = Len(t) + 1 /\ u[1] = a
  BY <1>1, <1>2
<1>4. \A i \in 1..Len(t) : u[i + 1] = t[i]
  BY <1>1, <1>2
<1>5. \A i \in 1..Len(u) : i # 1 => i - 1 \in 1..Len(t) /\ u[i] = t[i - 1]
  BY <1>2, <1>3, <1>4
<1>6. \A i \in 1..Len(t) : /\ t[i].do = "reply" <=> i = Len(t)
                           /\ t[i].do \in {"list", "attach", "send"} => i = 1
  BY DEF Plan
<1>7. Plan(u)
  <2>1. u # <<>>
    BY <1>2, <1>3
  <2>2. ASSUME NEW i \in 1..Len(u)
        PROVE  /\ u[i].do = "reply" <=> i = Len(u)
               /\ u[i].do \in {"list", "attach", "send"} => i = 1
    <3>1. CASE i = 1
      BY <3>1, <1>2, <1>3
    <3>2. CASE i # 1
      <4>1. i - 1 \in 1..Len(t) /\ u[i] = t[i - 1]
        BY <1>5, <3>2
      <4>2. u[i].do = "reply" <=> i = Len(u)
        BY <4>1, <1>2, <1>3, <1>6
      <4>3. u[i].do \in {"list", "attach", "send"} => i - 1 = 1
        BY <4>1, <1>6
      <4>4. u[i].do \in {"list", "attach", "send"} => FALSE
        BY <4>1, <4>3
      <4> QED
        BY <4>2, <4>4
    <3> QED
      BY <3>1, <3>2
  <2> QED
    BY <2>1, <2>2, <1>3 DEF Plan
<1>8. u[Len(u)] = t[Len(t)]
  BY <1>2, <1>3, <1>4
<1>9. ASSUME NEW action PROVE Due(u, action) <=> a = Audit(action) \/ Due(t, action)
  <2>1. ASSUME Due(u, action) PROVE a = Audit(action) \/ Due(t, action)
    <3>1. PICK i \in 1..Len(u) : u[i] = Audit(action)
      BY <2>1 DEF Due
    <3> QED
      BY <3>1, <1>3, <1>5 DEF Due
  <2>2. ASSUME a = Audit(action) PROVE Due(u, action)
    <3>1. 1 \in 1..Len(u)
      BY <1>2, <1>3
    <3> QED
      BY <3>1, <2>2, <1>3 DEF Due
  <2>3. ASSUME Due(t, action) PROVE Due(u, action)
    <3>1. PICK i \in 1..Len(t) : t[i] = Audit(action)
      BY <2>3 DEF Due
    <3>2. i + 1 \in 1..Len(u)
      BY <1>2, <1>3
    <3> QED
      BY <3>1, <3>2, <1>4 DEF Due
  <2> QED
    BY <2>1, <2>2, <2>3
<1> QED
  BY <1>3, <1>7, <1>8, <1>9

\* What is left of a plan behind its first await.
LEMMA ShorterPlan ==
  ASSUME NEW t, Plan(t), t[1].do # "reply"
  PROVE  /\ Plan(Tail(t)) /\ Tail(t)[1].do \in {"audit", "reply"}
         /\ Tail(t)[Len(Tail(t))] = t[Len(t)]
         /\ \A action : Due(t, action) <=> t[1] = Audit(action) \/ Due(Tail(t), action)
<1> DEFINE u == Tail(t)
<1>1. t \in Seq(Await) /\ t # <<>>
  BY DEF Plan
<1>2. Len(t) \in Nat /\ Len(t) > 0
  BY <1>1, EmptySeq, LenProperties
<1>3. \A i \in 1..Len(t) : /\ t[i].do = "reply" <=> i = Len(t)
                           /\ t[i].do \in {"list", "attach", "send"} => i = 1
  BY DEF Plan
<1>4. Len(t) > 1
  BY <1>2, <1>3
<1>5. u \in Seq(Await) /\ Len(u) = Len(t) - 1
  BY <1>1, <1>2
<1>6. \A i \in 1..Len(u) : u[i] = t[i + 1] /\ i + 1 \in 1..Len(t) /\ u[i] \in Await
  BY <1>1, <1>2, <1>5
<1>7. \A i \in 1..Len(u) : /\ u[i].do = "reply" <=> i = Len(u)
                           /\ u[i].do \notin {"list", "attach", "send"}
  <2> TAKE i \in 1..Len(u)
  <2>1. u[i] = t[i + 1] /\ i + 1 \in 1..Len(t) /\ i \in Nat /\ i + 1 # 1
    BY <1>6
  <2>2. t[i + 1].do = "reply" <=> i + 1 = Len(t)
    BY <1>3, <2>1
  <2>3. t[i + 1].do \notin {"list", "attach", "send"}
    BY <1>3, <2>1
  <2>4. i + 1 = Len(t) <=> i = Len(u)
    BY <1>2, <1>5
  <2> QED
    BY <2>1, <2>2, <2>3, <2>4
<1>8. \A a \in Await : a.do \in {"audit", "reply", "list", "attach", "send"}
  BY DEF Await
<1>9. Plan(u) /\ u[1].do \in {"audit", "reply"}
  <2>1. 1 \in 1..Len(u) /\ u # <<>>
    BY <1>4, <1>5
  <2>2. u[1].do \in {"audit", "reply"}
    BY <2>1, <1>6, <1>7, <1>8
  <2> QED
    BY <2>1, <2>2, <1>5, <1>7 DEF Plan
<1>10. u[Len(u)] = t[Len(t)]
  BY <1>4, <1>5, <1>6
<1>11. ASSUME NEW action PROVE Due(t, action) <=> t[1] = Audit(action) \/ Due(u, action)
  <2>1. \A i \in 1..Len(t) : i # 1 => i - 1 \in 1..Len(u) /\ t[i] = u[i - 1]
    BY <1>2, <1>4, <1>5, <1>6
  <2>2. 1 \in 1..Len(t)
    BY <1>2
  <2> QED
    BY <2>1, <2>2, <1>6 DEF Due
<1> QED
  BY <1>9, <1>10, <1>11

-----------------------------------------------------------------------------
(* Going on *)

\* A handler with an answer as its next step has nothing else left.
LEMMA LastPlan ==
  ASSUME NEW t, Plan(t), t[1].do = "reply"
  PROVE  /\ Len(t) = 1 /\ t[Len(t)] = t[1]
         /\ \A action : ~Due(t, action)
<1>1. t \in Seq(Await) /\ t # <<>>
  BY DEF Plan
<1>2. Len(t) \in Nat /\ Len(t) > 0
  BY <1>1, EmptySeq, LenProperties
<1>3. Len(t) = 1
  <2>1. 1 \in 1..Len(t)
    BY <1>2
  <2>2. t[1].do = "reply" <=> 1 = Len(t)
    BY <2>1 DEF Plan
  <2> QED
    BY <2>2
<1>4. \A action : t[1] # Audit(action)
  BY DEF Audit
<1> QED
  BY <1>3, <1>4 DEF Due

LEMMA FinishedInv ==
  ASSUME NEW s \in Slot, NEW sent \in BOOLEAN,
         "input_allowed" \in s.audited => s.typed,
         s.typed => "input_allowed" \in s.audited /\ (s.took => "input_takeover" \in s.audited)
  PROVE  SlotInv(Finished(s, sent)) /\ Finished(s, sent).todo = <<>>
<1>1. \A action : ~Due(<<>>, action)
  BY DEF Due
<1> DEFINE r == Finished(s, sent)
<1>4. /\ r \in Slot /\ r.todo = <<>> /\ r.typed = s.typed /\ r.took = s.took
      /\ r.audited = IF s.typed \/ s.took THEN s.audited ELSE {}
  <2>1. /\ r.todo = <<>> /\ r.typed = s.typed /\ r.took = s.took
        /\ r.audited = IF s.typed \/ s.took THEN s.audited ELSE {}
        /\ r.answer = IF sent THEN "sent" ELSE "unsent"
    BY DEF Finished, Idle
  <2>2. r \in Slot
    <3>1. Idle \in Slot
      BY IdleFacts
    <3>2. s.typed \in BOOLEAN /\ s.took \in BOOLEAN /\ s.audited \subseteq Word
      BY DEF Slot
    <3> QED
      BY <3>1, <3>2, ZenonT(60) DEF Slot, Finished
  <2> QED
    BY <2>1, <2>2
<1> HIDE DEF r
<1>5. SlotInv(r)
  BY <1>1, <1>4 DEF SlotInv
<1> QED
  BY <1>4, <1>5 DEF r

\* The slots after a step of a handler.
LEMMA ProceedSlots ==
  ASSUME IntakeInv, NEW h \in Handler, NEW s \in Slot, NEW rest, Proceed(h, s, rest),
         SlotInv([s EXCEPT !.todo = rest]), Plan(rest)
  PROVE  /\ slot' = [k \in Handler |-> slot'[k]]
         /\ \A k \in Handler : SlotInv(slot'[k])
         /\ \A k \in Handler \ {h} : slot'[k] = slot[k]
         /\ rest[1].do # "reply" => slot'[h] = [s EXCEPT !.todo = rest]
         /\ rest[1].do = "reply" => slot'[h].todo = <<>>
<1> DEFINE sent == rest[1].do = "reply" /\ sendEnvelope(s.client)
           new == IF rest[1].do # "reply" THEN [s EXCEPT !.todo = rest] ELSE Finished(s, sent)
<1>1. slot' = [slot EXCEPT ![h] = new]
  BY DEF Proceed
<1>2. slot = [k \in Handler |-> slot[k]]
  BY DEF IntakeInv, IntakeTypeOK
<1>3. SlotInv(new) /\ (rest[1].do = "reply" => new.todo = <<>>)
  <2>1. CASE rest[1].do # "reply"
    BY <2>1
  <2>2. CASE rest[1].do = "reply"
    <3>1. ~Due(rest, "input_allowed") /\ ~Due(rest, "input_takeover")
      BY <2>2, LastPlan
    <3>2. /\ [s EXCEPT !.todo = rest].typed = s.typed /\ [s EXCEPT !.todo = rest].took = s.took
          /\ [s EXCEPT !.todo = rest].audited = s.audited /\ [s EXCEPT !.todo = rest].todo = rest
      BY DEF Slot
    <3>3. "input_allowed" \in s.audited => s.typed
      BY <3>2 DEF SlotInv
    <3>4. s.typed => "input_allowed" \in s.audited /\ (s.took => "input_takeover" \in s.audited)
      BY <3>1, <3>2 DEF SlotInv
    <3>5. sent \in BOOLEAN
      OBVIOUS
    <3>6. new = Finished(s, sent)
      BY <2>2
    <3> QED
      BY <3>3, <3>4, <3>5, <3>6, FinishedInv
  <2> QED
    BY <2>1, <2>2
<1>4. slot'[h] = new /\ \A k \in Handler \ {h} : slot'[k] = slot[k]
  BY <1>1, <1>2
<1>5. slot' = [k \in Handler |-> slot'[k]]
  BY <1>1, <1>2
<1>6. \A k \in Handler : SlotInv(slot[k])
  BY DEF IntakeInv
<1> QED
  BY <1>3, <1>4, <1>5, <1>6

\* What a client is told after a step that changes no policy: either nothing
\* new or what holds.
LEMMA ProceedPolicy ==
  ASSUME IntakeInv, NEW h \in Handler, NEW s, NEW rest, Proceed(h, s, rest),
         s.client \in Client, UNCHANGED <<phase, inputEnabled>>,
         \A k \in Handler \ {h} : slot'[k] = slot[k],
         rest[1].do # "reply" => slot'[h].client = s.client /\ slot'[h].todo = rest,
         PolicyDue(slot[h].todo) => /\ slot[h].client = s.client /\ PolicyDue(rest)
                                    /\ rest[1].do = "reply" => rest[Len(rest)] = rest[1]
  PROVE  told' \in [Client -> BOOLEAN \cup {None}] /\ \A c \in Client : PolicyOK(c)'
<1> DEFINE c0 == s.client
           policy == /\ rest[1].do = "reply" /\ sendEnvelope(c0)
                     /\ rest[1].code = "policy_update"
<1>1. told \in [Client -> BOOLEAN \cup {None}] /\ inputEnabled \in [Client -> BOOLEAN]
  BY DEF IntakeInv, IntakeTypeOK
<1>2. isInputAllowed(c0) = inputEnabled[c0]
  <2>1. inputEnabled[c0] \in BOOLEAN
    BY <1>1
  <2>2. inputEnabled[c0] => ~config.globalInputDisabled
    BY DEF IntakeInv, WishOK
  <2> QED
    BY <2>1, <2>2 DEF isInputAllowed
<1>3. told' = IF policy THEN [told EXCEPT ![c0] = inputEnabled[c0]] ELSE told
  BY <1>2 DEF Proceed, buildInputPolicyState
<1>4. told' \in [Client -> BOOLEAN \cup {None}]
  BY <1>1, <1>3
<1>5. \A c \in Client : told'[c] = told[c] \/ told'[c] = inputEnabled[c]
  BY <1>1, <1>3
<1>6. policy => told'[c0] = inputEnabled[c0]
  BY <1>1, <1>3
<1>7. ASSUME NEW c \in Client PROVE PolicyOK(c)'
  <2>1. phase' = phase /\ inputEnabled' = inputEnabled
    OBVIOUS
  <2>2. PolicyOK(c)
    BY DEF IntakeInv
  <2>3. CASE told[c] \in {None, inputEnabled[c]}
    BY <2>3, <1>5, <2>1 DEF PolicyOK
  <2>4. CASE phase[c] \in {"closing", "closed"}
    BY <2>4, <2>1 DEF PolicyOK
  <2>5. CASE phase[c] = "open" /\ \E k \in Handler : slot[k].client = c /\ PolicyDue(slot[k].todo)
    <3>1. PICK k \in Handler : slot[k].client = c /\ PolicyDue(slot[k].todo)
      BY <2>5
    <3>2. CASE k # h
      BY <3>1, <3>2, <2>5, <2>1 DEF PolicyOK, PolicyDue
    <3>3. CASE k = h /\ rest[1].do # "reply"
      <4>1. slot'[h].client = c /\ PolicyDue(slot'[h].todo)
        BY <3>1, <3>3
      <4> QED
        BY <4>1, <2>1, <2>5 DEF PolicyOK, PolicyDue
    <3>4. CASE k = h /\ rest[1].do = "reply"
      <4>1. rest[1] = Reply("policy_update") /\ c = c0
        BY <3>1, <3>4 DEF PolicyDue
      <4>2. policy
        BY <4>1, <3>4, <2>5 DEF sendEnvelope, Reply
      <4> QED
        BY <4>1, <4>2, <1>6, <2>1 DEF PolicyOK
    <3> QED
      BY <3>2, <3>3, <3>4
  <2> QED
    BY <2>2, <2>3, <2>4, <2>5 DEF PolicyOK
<1> QED
  BY <1>4, <1>7

\* What a step of a handler keeps, and SendsOnlyAsWished of one handler.
HandlersKept ==
  /\ slot' \in [Handler -> Slot] /\ \A k \in Handler : SlotInv(slot'[k])
  /\ told' \in [Client -> BOOLEAN \cup {None}] /\ \A c \in Client : PolicyOK(c)'

SendOK(h) ==
  ~Awaits(h, "send") /\ Awaits(h, "send")' =>
    LET w == wish[slot'[h].client] IN
    /\ w.proved /\ w.enable /\ slot'[h].pane \in w.panes
    /\ ~config.globalInputDisabled

\* A handler that does not come to send.
LEMMA NoSend ==
  ASSUME NEW h \in Handler,
         slot'[h] = slot[h] \/ slot'[h].todo = <<>> \/ Head(slot'[h].todo).do # "send"
  PROVE  SendOK(h)
BY DEF SendOK, Awaits

LEMMA HandlerStep ==
  ASSUME IntakeInv, NEW h \in Handler, NEW s \in Slot, NEW rest, Proceed(h, s, rest),
         Plan(rest), SlotInv([s EXCEPT !.todo = rest]), s.client \in Client,
         UNCHANGED <<phase, inputEnabled>>,
         PolicyDue(slot[h].todo) => slot[h].client = s.client /\ PolicyDue(rest)
  PROVE  /\ HandlersKept
         /\ \A k \in Handler \ {h} : SendOK(k)
         /\ rest[1].do # "send" => SendOK(h)
         /\ rest[1].do # "reply" => slot'[h] = [s EXCEPT !.todo = rest]
<1>1. /\ slot' = [k \in Handler |-> slot'[k]]
      /\ \A k \in Handler : SlotInv(slot'[k])
      /\ \A k \in Handler \ {h} : slot'[k] = slot[k]
      /\ rest[1].do # "reply" => slot'[h] = [s EXCEPT !.todo = rest]
      /\ rest[1].do = "reply" => slot'[h].todo = <<>>
  BY ProceedSlots
<1>2. [s EXCEPT !.todo = rest].client = s.client /\ [s EXCEPT !.todo = rest].todo = rest
  BY DEF Slot
<1>3. rest[1].do = "reply" => rest[Len(rest)] = rest[1]
  BY LastPlan
<1>4. told' \in [Client -> BOOLEAN \cup {None}] /\ \A c \in Client : PolicyOK(c)'
  BY <1>1, <1>2, <1>3, ProceedPolicy
<1>5. \A k \in Handler : slot'[k] \in Slot
  BY <1>1 DEF SlotInv
<1>6. slot' \in [Handler -> Slot]
  BY <1>1, <1>5
<1>7. \A k \in Handler \ {h} : SendOK(k)
  BY <1>1, NoSend
<1>8. rest[1].do # "send" => SendOK(h)
  <2>1. rest # <<>> /\ Head(rest) = rest[1]
    BY DEF Plan
  <2>2. CASE rest[1].do = "reply"
    BY <2>2, <1>1, NoSend
  <2>3. CASE rest[1].do \notin {"reply", "send"}
    <3>1. slot'[h].todo = rest
      BY <2>3, <1>1, <1>2
    <3> QED
      BY <3>1, <2>1, <2>3, NoSend
  <2> QED
    BY <2>2, <2>3
<1> QED
  BY <1>1, <1>4, <1>6, <1>7, <1>8 DEF HandlersKept

\* What a handler needs to go on with the rest of its awaits.
LEMMA PlanFits ==
  ASSUME NEW s \in Slot, s.client \in Client, NEW rest, Plan(rest),
         s.typed => /\ "input_allowed" \in s.audited \/ Due(rest, "input_allowed")
                    /\ s.took => "input_takeover" \in s.audited \/ Due(rest, "input_takeover")
                    /\ rest[1].do \in {"audit", "reply"},
         "input_allowed" \in s.audited \/ Due(rest, "input_allowed") => s.typed
  PROVE  SlotInv([s EXCEPT !.todo = rest])
<1> DEFINE r == [s EXCEPT !.todo = rest]
<1>1. rest \in Seq(Await)
  BY DEF Plan
<1>2. /\ r \in Slot /\ r.client = s.client /\ r.todo = rest /\ r.typed = s.typed
      /\ r.took = s.took /\ r.audited = s.audited
  BY <1>1 DEF Slot
<1> HIDE DEF r
<1>3. SlotInv(r)
  BY <1>2 DEF SlotInv
<1> QED
  BY <1>3 DEF r

\* A new handler, in a free slot.
LEMMA StartStep ==
  ASSUME IntakeInv, NEW h \in Handler, slot[h].todo = <<>>,
         NEW s \in Slot, s.client \in Client, s.todo = <<>>, ~s.typed, s.audited = {},
         NEW rest, Plan(rest), ~Due(rest, "input_allowed"),
         Proceed(h, s, rest), UNCHANGED <<phase, inputEnabled>>
  PROVE  /\ HandlersKept
         /\ \A k \in Handler \ {h} : SendOK(k)
         /\ rest[1].do # "send" => SendOK(h)
         /\ rest[1].do # "reply" => slot'[h] = [s EXCEPT !.todo = rest]
<1>1. ~PolicyDue(slot[h].todo)
  BY DEF PolicyDue
<1>2. SlotInv([s EXCEPT !.todo = rest])
  BY PlanFits
<1> QED
  BY <1>1, <1>2, HandlerStep

\* A request that is answered at once.
LEMMA AnswerStep ==
  ASSUME IntakeInv, NEW h \in Handler, slot[h].todo = <<>>, NEW c \in Client, NEW code,
         Answer(h, c, code), UNCHANGED <<config, phase>>
  PROVE  IntakeInv' /\ \A k \in Handler : SendOK(k)
<1> DEFINE s == [Idle EXCEPT !.client = c]
           rest == <<Reply(code)>>
           sent == rest[1].do = "reply" /\ sendEnvelope(s.client)
<1>1. Proceed(h, s, rest)
  BY DEF Answer
<1>2. UNCHANGED <<config, phase, authenticated, inputEnabled, attachedPanes, paneOwners, streamed,
                  pendingAttachLag, wish>>
  BY DEF Answer, sessionVars
<1>3. /\ s.client = c /\ s.todo = <<>> /\ s.typed = FALSE /\ s.audited = {}
      /\ s \in Slot
  BY IdleFacts DEF Idle, Slot
<1>6. rest[1].do = "reply" /\ Len(rest) = 1 /\ rest[1] = Reply(code)
  BY DEF Reply
<1> HIDE DEF s, rest
<1>7. slot' = [slot EXCEPT ![h] = Finished(s, sent)]
  BY <1>1, <1>6 DEF Proceed
<1>8. sent \in BOOLEAN
  OBVIOUS
<1> HIDE DEF sent
<1>9. SlotInv(Finished(s, sent)) /\ Finished(s, sent).todo = <<>>
  BY <1>3, <1>8, FinishedInv
<1>10. slot \in [Handler -> Slot] /\ \A k \in Handler : SlotInv(slot[k])
  BY DEF IntakeInv, IntakeTypeOK
<1>11. /\ slot'[h] = Finished(s, sent) /\ \A k \in Handler \ {h} : slot'[k] = slot[k]
  BY <1>7, <1>10
<1>12. slot' \in [Handler -> Slot] /\ \A k \in Handler : SlotInv(slot'[k])
  <2>1. Finished(s, sent) \in Slot
    BY <1>9 DEF SlotInv
  <2> QED
    BY <2>1, <1>7, <1>9, <1>10, <1>11
<1>13. told' \in [Client -> BOOLEAN \cup {None}] /\ \A d \in Client : PolicyOK(d)'
  <2>1. ~PolicyDue(slot[h].todo)
    BY DEF PolicyDue
  <2> QED
    BY <2>1, <1>1, <1>2, <1>3, <1>6, <1>11, ProceedPolicy
<1>14. \A d \in Client : WishOK(d)'
  BY <1>2 DEF IntakeInv, WishOK
<1>15. \A k \in Handler : SendOK(k)
  BY <1>9, <1>11, NoSend
<1>16. IntakeTypeOK'
  BY <1>2, <1>12, <1>13 DEF IntakeInv, IntakeTypeOK
<1>17. (\A k \in Handler : SlotInv(slot[k]))'
  BY <1>12 DEF SlotInv
<1> QED
  BY <1>13, <1>14, <1>15, <1>16, <1>17 DEF IntakeInv

-----------------------------------------------------------------------------
(* Messages *)

\* The variables that are not about handlers.
RestOK ==
  /\ config \in Config
  /\ phase \in [Client -> {"new", "open", "closing", "closed"}]
  /\ authenticated \in [Client -> BOOLEAN] /\ inputEnabled \in [Client -> BOOLEAN]
  /\ attachedPanes \in [Client -> SUBSET PaneId] /\ streamed \in [Client -> SUBSET PaneId]
  /\ paneOwners \in [Pane -> Client \cup {Rival, None}]
  /\ pendingAttachLag \subseteq Client \X PaneId
  /\ wish \in [Client -> [proved : BOOLEAN, enable : BOOLEAN, panes : SUBSET PaneId]]

LEMMA Together ==
  ASSUME HandlersKept, RestOK', \A c \in Client : WishOK(c)'
  PROVE  IntakeInv'
<1>1. IntakeTypeOK'
  BY DEF HandlersKept, RestOK, IntakeTypeOK
<1>2. (\A k \in Handler : SlotInv(slot[k]))'
  BY DEF HandlersKept, SlotInv
<1> QED
  BY <1>1, <1>2 DEF IntakeInv, HandlersKept

LEMMA RestFacts == IntakeInv => RestOK
BY DEF IntakeInv, IntakeTypeOK, RestOK

LEMMA JoinFacts ==
  ASSUME NEW a, NEW b, NEW c
  PROVE  /\ <<a>> \o <<b>> = <<a, b>> /\ <<>> \o <<a>> = <<a>>
         /\ <<a>> \o <<b>> \o <<c>> = <<a, b, c>>
         /\ <<a>> \o <<>> \o <<b>> = <<a, b>>
<1> DEFINE S == {a, b, c}
<1>0. a \in S /\ b \in S /\ c \in S
  OBVIOUS
<1> HIDE DEF S
<1>1. <<a>> \o <<b>> = <<a, b>>
  <2> DEFINE u == <<a>> \o <<b>>
             v == <<a, b>>
  <2>1. u \in Seq(S) /\ v \in Seq(S) /\ Len(u) = 2 /\ Len(v) = 2
    BY <1>0
  <2>2. u[1] = v[1] /\ u[2] = v[2]
    BY <1>0
  <2>3. 1..2 = {1, 2}
    OBVIOUS
  <2> HIDE DEF u, v
  <2>4. u = v
    BY <2>1, <2>2, <2>3, SeqEqual
  <2> QED
    BY <2>4 DEF u, v
<1>2. <<>> \o <<a>> = <<a>>
  BY ConcatEmptySeq
<1>3. <<a, b>> \o <<c>> = <<a, b, c>>
  <2> DEFINE u == <<a, b>> \o <<c>>
             v == <<a, b, c>>
  <2>1. u \in Seq(S) /\ v \in Seq(S) /\ Len(u) = 3 /\ Len(v) = 3
    BY <1>0
  <2>2. u[1] = v[1] /\ u[2] = v[2] /\ u[3] = v[3]
    BY <1>0
  <2>3. 1..3 = {1, 2, 3}
    OBVIOUS
  <2> HIDE DEF u, v
  <2>4. u = v
    BY <2>1, <2>2, <2>3, SeqEqual
  <2> QED
    BY <2>4 DEF u, v
<1>4. <<a>> \o <<>> = <<a>>
  BY ConcatEmptySeq
<1> QED
  BY <1>1, <1>2, <1>3, <1>4, Zenon

LEMMA TwoPlan ==
  ASSUME NEW a \in Await, a.do # "reply", NEW w \in Word
  PROVE  /\ Plan(<<a, Reply(w)>>) /\ <<a, Reply(w)>>[1] = a
         /\ <<a, Reply(w)>>[Len(<<a, Reply(w)>>)] = Reply(w)
         /\ \A action : Due(<<a, Reply(w)>>, action) <=> a = Audit(action)
<1> DEFINE t == <<Reply(w)>>
<1>1. Plan(t) /\ t[1].do = "reply" /\ t[Len(t)] = Reply(w) /\ \A action : ~Due(t, action)
  BY ReplyPlan
<1>2. <<a, Reply(w)>> = <<a>> \o t
  OBVIOUS
<1> HIDE DEF t
<1>3. /\ Plan(<<a>> \o t) /\ (<<a>> \o t)[1] = a
      /\ (<<a>> \o t)[Len(<<a>> \o t)] = t[Len(t)]
      /\ \A action : Due(<<a>> \o t, action) <=> a = Audit(action) \/ Due(t, action)
  BY <1>1, LongerPlan
<1> QED
  BY <1>1, <1>2, <1>3

LEMMA CallerFacts ==
  ASSUME NEW c \in Client
  PROVE  LET s == [Idle EXCEPT !.client = c]
         IN  s \in Slot /\ s.client = c /\ s.todo = <<>> /\ ~s.typed /\ s.audited = {}
BY IdleFacts DEF Idle, Slot

\* A handler that audits one line and answers, or awaits a call and answers.
LEMMA CallerStep ==
  ASSUME IntakeInv, NEW h \in Handler, slot[h].todo = <<>>, NEW c \in Client,
         NEW a \in Await, a.do \notin {"reply", "send"}, a # Audit("input_allowed"), NEW w \in Word,
         Proceed(h, [Idle EXCEPT !.client = c], <<a, Reply(w)>>), UNCHANGED <<phase, inputEnabled>>
  PROVE  HandlersKept /\ \A k \in Handler : SendOK(k)
<1> DEFINE s == [Idle EXCEPT !.client = c]
           rest == <<a, Reply(w)>>
<1>1. s \in Slot /\ s.client = c /\ s.todo = <<>> /\ ~s.typed /\ s.audited = {}
  BY CallerFacts
<1>2. Plan(rest) /\ rest[1] = a /\ ~Due(rest, "input_allowed")
  BY TwoPlan
<1>3. Proceed(h, s, rest)
  OBVIOUS
<1> HIDE DEF s, rest
<1> QED
  BY <1>1, <1>2, <1>3, StartStep

LEMMA AuthStep ==
  ASSUME IntakeInv, NEW h \in Handler, slot[h].todo = <<>>, NEW c \in Client, NEW payload,
         Auth(h, c, payload), UNCHANGED <<config, phase>>
  PROVE  IntakeInv' /\ \A k \in Handler : SendOK(k)
<1>1. PICK accepted \in BOOLEAN, code \in {"auth_ok", "auth_error"} :
        /\ authenticated' = [authenticated EXCEPT ![c] = @ \/ accepted]
        /\ wish' = [wish EXCEPT ![c].proved = @ \/ accepted]
        /\ Proceed(h, [Idle EXCEPT !.client = c], <<Audit(code), Reply(code)>>)
  <2> DEFINE g == \/ config.authToken = None
                  \/ tokenEquals(config.authToken, parseNonEmptyString(payload.token))
             w == IF g THEN "auth_ok" ELSE "auth_error"
  <2>1. g \in BOOLEAN /\ w \in {"auth_ok", "auth_error"}
    OBVIOUS
  <2>2. /\ authenticated' = [authenticated EXCEPT ![c] = @ \/ g]
        /\ wish' = [wish EXCEPT ![c].proved = @ \/ g]
        /\ Proceed(h, [Idle EXCEPT !.client = c], <<Audit(w), Reply(w)>>)
    BY DEF Auth
  <2> HIDE DEF g, w
  <2> QED
    BY <2>1, <2>2
<1>2. UNCHANGED <<config, phase, inputEnabled, attachedPanes, paneOwners, streamed,
                  pendingAttachLag>>
  BY DEF Auth
<1>3. code \in Word /\ Audit(code) \in Await /\ Audit(code).do = "audit"
      /\ Audit(code) # Audit("input_allowed")
  <2>1. code \in Word /\ code # "input_allowed"
    BY DEF Word
  <2> QED
    BY <2>1, AwaitFacts DEF Audit
<1>4. HandlersKept /\ \A k \in Handler : SendOK(k)
  BY <1>1, <1>2, <1>3, CallerStep
<1>5. RestOK'
  BY <1>1, <1>2, RestFacts DEF RestOK
<1>6. \A d \in Client : WishOK(d)'
  BY <1>1, <1>2, RestFacts DEF IntakeInv, WishOK, RestOK
<1> QED
  BY <1>4, <1>5, <1>6, Together

LEMMA ListStep ==
  ASSUME IntakeInv, NEW h \in Handler, slot[h].todo = <<>>, NEW c \in Client,
         ListSessions(h, c), UNCHANGED <<config, phase>>
  PROVE  IntakeInv' /\ \A k \in Handler : SendOK(k)
<1>1. UNCHANGED <<config, phase, authenticated, inputEnabled, attachedPanes, paneOwners, streamed,
                  pendingAttachLag, wish>>
  BY DEF ListSessions, sessionVars
<1>2. "session_list" \in Word /\ Call("list") \in Await /\ Call("list").do = "list"
      /\ Call("list") # Audit("input_allowed")
  BY DEF Word, Await, Call, Audit
<1>3. HandlersKept /\ \A k \in Handler : SendOK(k)
  BY <1>1, <1>2, CallerStep DEF ListSessions
<1>4. RestOK'
  BY <1>1, RestFacts DEF RestOK
<1>5. \A d \in Client : WishOK(d)'
  BY <1>1 DEF IntakeInv, WishOK
<1> QED
  BY <1>3, <1>4, <1>5, Together

LEMMA AttachStep ==
  ASSUME IntakeInv, NEW h \in Handler, slot[h].todo = <<>>, NEW c \in Client, NEW payload,
         parseNonEmptyString(payload.paneId) \in PaneId,
         parseOptionalInt(payload.lastSeq) \in Cursor,
         Attach(h, c, payload), UNCHANGED <<config, phase>>
  PROVE  IntakeInv' /\ \A k \in Handler : SendOK(k)
<1> DEFINE p == parseNonEmptyString(payload.paneId)
           n == parseOptionalInt(payload.lastSeq)
           s == [Idle EXCEPT !.client = c, !.pane = p, !.lastSeq = n]
           rest == <<Call("attach"), Reply("ack")>>
<1>1. CASE \E code : Answer(h, c, code)
  BY <1>1, AnswerStep
<1>2. CASE /\ attachedPanes' = [attachedPanes EXCEPT ![c] = @ \cup {p}]
           /\ pendingAttachLag' = pendingAttachLag \cup {<<c, p>>}
           /\ streamed' = [streamed EXCEPT ![c] = @ \cup {p}]
           /\ wish' = [wish EXCEPT ![c].panes = @ \cup {p}]
           /\ Proceed(h, s, rest)
           /\ UNCHANGED <<authenticated, inputEnabled, paneOwners>>
  <2>1. s \in Slot /\ s.client = c /\ s.todo = <<>> /\ ~s.typed /\ s.audited = {}
    BY IdleFacts DEF Idle, Slot
  <2>2. Plan(rest) /\ rest[1].do = "attach" /\ ~Due(rest, "input_allowed")
    <3>1. "ack" \in Word /\ Call("attach") \in Await /\ Call("attach").do = "attach"
          /\ Call("attach") # Audit("input_allowed")
      BY DEF Word, Await, Call, Audit
    <3> QED
      BY <3>1, TwoPlan
  <2>3. Proceed(h, s, rest)
    BY <1>2
  <2>4. p \in PaneId
    OBVIOUS
  <2> HIDE DEF s, rest, p, n
  <2>5. HandlersKept /\ \A k \in Handler : SendOK(k)
    BY <1>2, <2>1, <2>2, <2>3, StartStep
  <2>6. RestOK'
    BY <1>2, <2>4, RestFacts DEF RestOK
  <2>7. \A d \in Client : WishOK(d)'
    BY <1>2, <2>4, RestFacts DEF IntakeInv, WishOK, RestOK
  <2> QED
    BY <2>5, <2>6, <2>7, Together
<1> QED
  BY <1>1, <1>2 DEF Attach

\* Two lines and an answer.
LEMMA ThreePlan ==
  ASSUME NEW u \in Word, NEW v \in Word, NEW w \in Word
  PROVE  LET t == <<Audit(u), Audit(v), Reply(w)>>
         IN  /\ Plan(t) /\ t[1] = Audit(u) /\ t[Len(t)] = Reply(w)
             /\ \A action : Due(t, action) <=> action \in {u, v}
<1> DEFINE t == <<Audit(v), Reply(w)>>
<1>1. /\ Audit(u) \in Await /\ Audit(u).do = "audit"
      /\ Audit(v) \in Await /\ Audit(v).do = "audit"
  BY AwaitFacts
<1>2. Plan(t) /\ t[1] = Audit(v) /\ t[Len(t)] = Reply(w)
      /\ \A action : Due(t, action) <=> Audit(v) = Audit(action)
  BY <1>1, TwoPlan
<1>3. <<Audit(u), Audit(v), Reply(w)>> = <<Audit(u)>> \o t
  OBVIOUS
<1>4. \A x, y : Audit(x) = Audit(y) <=> x = y
  BY DEF Audit
<1> HIDE DEF t
<1>5. /\ Plan(<<Audit(u)>> \o t) /\ (<<Audit(u)>> \o t)[1] = Audit(u)
      /\ (<<Audit(u)>> \o t)[Len(<<Audit(u)>> \o t)] = t[Len(t)]
      /\ \A action : Due(<<Audit(u)>> \o t, action) <=> Audit(u) = Audit(action) \/ Due(t, action)
  BY <1>1, <1>2, LongerPlan
<1> DEFINE all == <<Audit(u), Audit(v), Reply(w)>>
<1>6. all = <<Audit(u)>> \o t
  BY <1>3
<1> HIDE DEF all
<1>7. /\ Plan(all) /\ all[1] = Audit(u) /\ all[Len(all)] = Reply(w)
      /\ \A action : Due(all, action) <=> action \in {u, v}
  BY <1>2, <1>4, <1>5, <1>6
<1> QED
  BY <1>7 DEF all

LEMMA DetachStep ==
  ASSUME IntakeInv, NEW h \in Handler, slot[h].todo = <<>>, NEW c \in Client, NEW payload,
         parseNonEmptyString(payload.paneId) \in PaneId,
         Detach(h, c, payload), UNCHANGED <<config, phase>>
  PROVE  IntakeInv' /\ \A k \in Handler : SendOK(k)
<1> DEFINE p == parseNonEmptyString(payload.paneId)
           s == [Idle EXCEPT !.client = c]
           rest == <<Audit("detach")>>
                     \o (IF paneOwners[p] = c THEN <<Audit("lane_owner_released")>> ELSE <<>>)
                     \o <<Reply("ack")>>
<1>1. CASE Answer(h, c, "invalid_pane_id")
  BY <1>1, AnswerStep
<1>2. CASE /\ attachedPanes' = [attachedPanes EXCEPT ![c] = @ \ {p}]
           /\ paneOwners' = [paneOwners EXCEPT ![p] = IF @ = c THEN None ELSE @]
           /\ streamed' = [streamed EXCEPT ![c] = @ \ {p}]
           /\ wish' = [wish EXCEPT ![c].panes = @ \ {p}]
           /\ Proceed(h, s, rest)
           /\ UNCHANGED <<authenticated, inputEnabled, pendingAttachLag>>
  <2>1. s \in Slot /\ s.client = c /\ s.todo = <<>> /\ ~s.typed /\ s.audited = {}
    BY CallerFacts
  <2>2. Plan(rest) /\ rest[1].do = "audit" /\ ~Due(rest, "input_allowed")
    <3> DEFINE mid == IF paneOwners[p] = c THEN <<Audit("lane_owner_released")>> ELSE <<>>
    <3>1. /\ "ack" \in Word /\ "detach" \in Word /\ "lane_owner_released" \in Word
          /\ Audit("detach") \in Await /\ Audit("detach").do = "audit"
          /\ Audit("detach") # Audit("input_allowed")
      BY DEF Word, Await, Audit
    <3>2. CASE paneOwners[p] = c
      <4>1. mid = <<Audit("lane_owner_released")>>
        BY <3>2
      <4>2. rest = <<Audit("detach"), Audit("lane_owner_released"), Reply("ack")>>
        BY <4>1, JoinFacts, Zenon
      <4> HIDE DEF rest
      <4> QED
        BY <3>1, <4>2, ThreePlan
    <3>3. CASE paneOwners[p] # c
      <4>1. mid = <<>>
        BY <3>3
      <4>2. rest = <<Audit("detach"), Reply("ack")>>
        BY <4>1, JoinFacts, Zenon
      <4> HIDE DEF rest
      <4> QED
        BY <3>1, <4>2, TwoPlan
    <3> QED
      BY <3>2, <3>3
  <2>3. Proceed(h, s, rest)
    BY <1>2
  <2> HIDE DEF s, rest, p
  <2>5. HandlersKept /\ \A k \in Handler : SendOK(k)
    BY <1>2, <2>1, <2>2, <2>3, StartStep
  <2>6. RestOK'
    BY <1>2, RestFacts DEF RestOK
  <2>7. \A d \in Client : WishOK(d)'
    BY <1>2, RestFacts DEF IntakeInv, WishOK, RestOK
  <2> QED
    BY <2>5, <2>6, <2>7, Together
<1> QED
  BY <1>1, <1>2 DEF Detach

\* The one message that changes the policy leaves the answer that tells it.
LEMMA SetInputStep ==
  ASSUME IntakeInv, NEW h \in Handler, slot[h].todo = <<>>, NEW c \in Client,
         NEW type \in {"enable_input", "disable_input"}, phase[c] = "open",
         SetInput(h, c, type), UNCHANGED <<config, phase>>
  PROVE  IntakeInv' /\ \A k \in Handler : SendOK(k)
<1> DEFINE s == [Idle EXCEPT !.client = c]
           rest == <<Audit(type), Reply("policy_update")>>
<1>1. /\ inputEnabled' = [inputEnabled EXCEPT ![c] =
                            type = "enable_input" /\ ~config.globalInputDisabled]
      /\ wish' = [wish EXCEPT ![c].enable = type = "enable_input"]
      /\ Proceed(h, s, rest)
      /\ UNCHANGED <<config, phase, authenticated, attachedPanes, paneOwners, streamed,
                     pendingAttachLag>>
  BY DEF SetInput
<1>2. s \in Slot /\ s.client = c /\ s.todo = <<>> /\ ~s.typed /\ s.audited = {}
  BY CallerFacts
<1>3. /\ Plan(rest) /\ rest[1].do = "audit" /\ rest[Len(rest)] = Reply("policy_update")
      /\ ~Due(rest, "input_allowed")
  <2>1. type \in Word /\ "policy_update" \in Word /\ type # "input_allowed"
    BY DEF Word
  <2>2. Audit(type) \in Await /\ Audit(type).do = "audit" /\ Audit(type) # Audit("input_allowed")
    BY <2>1, AwaitFacts DEF Audit
  <2> QED
    BY <2>1, <2>2, TwoPlan
<1> HIDE DEF s, rest
<1>4. SlotInv([s EXCEPT !.todo = rest])
  BY <1>2, <1>3, PlanFits
<1>5. /\ slot' = [k \in Handler |-> slot'[k]]
      /\ \A k \in Handler : SlotInv(slot'[k])
      /\ \A k \in Handler \ {h} : slot'[k] = slot[k]
      /\ slot'[h] = [s EXCEPT !.todo = rest]
  BY <1>1, <1>2, <1>3, <1>4, ProceedSlots
<1>6. slot' \in [Handler -> Slot]
  BY <1>5 DEF SlotInv
<1>7. slot'[h].client = c /\ slot'[h].todo = rest
  BY <1>2, <1>5 DEF Slot
<1>8. told' = told
  BY <1>1, <1>3 DEF Proceed
<1>9. rest # <<>> /\ PolicyDue(rest)
  BY <1>3 DEF Plan, PolicyDue
<1>10. ASSUME NEW d \in Client PROVE PolicyOK(d)'
  <2>1. CASE d = c
    BY <2>1, <1>1, <1>7, <1>9 DEF PolicyOK, PolicyDue
  <2>2. CASE d # c
    <3>1. inputEnabled'[d] = inputEnabled[d] /\ told'[d] = told[d] /\ phase'[d] = phase[d]
      BY <2>2, <1>1, <1>8, RestFacts DEF RestOK
    <3>2. PolicyOK(d)
      BY DEF IntakeInv
    <3>3. \A k \in Handler : PolicyDue(slot[k].todo) => slot'[k] = slot[k]
      BY <1>5 DEF PolicyDue
    <3> QED
      BY <3>1, <3>2, <3>3 DEF PolicyOK, PolicyDue
  <2> QED
    BY <2>1, <2>2
<1>11. HandlersKept
  BY <1>5, <1>6, <1>8, <1>10 DEF HandlersKept, IntakeInv, IntakeTypeOK
<1>12. \A k \in Handler : SendOK(k)
  <2>1. Head(rest) = rest[1]
    BY <1>3 DEF Plan
  <2> QED
    BY <2>1, <1>3, <1>5, <1>7, NoSend
<1>13. RestOK'
  <2>1. (type = "enable_input" /\ ~config.globalInputDisabled) \in BOOLEAN
    OBVIOUS
  <2> QED
    BY <2>1, <1>1, RestFacts, ZenonT(60) DEF RestOK
<1>14. ASSUME NEW d \in Client PROVE WishOK(d)'
  <2>1. CASE d = c
    BY <2>1, <1>1, RestFacts DEF IntakeInv, WishOK, RestOK
  <2>2. CASE d # c
    BY <2>2, <1>1, RestFacts DEF IntakeInv, WishOK, RestOK
  <2> QED
    BY <2>1, <2>2
<1> QED
  BY <1>11, <1>12, <1>13, <1>14, Together

LEMMA RefuseStep ==
  ASSUME IntakeInv, NEW h \in Handler, slot[h].todo = <<>>, NEW c \in Client,
         NEW code, NEW audited \in BOOLEAN, audited => code \in Word,
         Refuse(h, c, code, audited), UNCHANGED <<config, phase>>
  PROVE  IntakeInv' /\ \A k \in Handler : SendOK(k)
<1>1. CASE ~audited
  <2> DEFINE none == IF audited THEN <<Audit("input_denied")>> ELSE <<>>
  <2>1. none = <<>>
    BY <1>1
  <2>2. none \o <<Reply(code)>> = <<Reply(code)>>
    BY <2>1, JoinFacts, Zenon
  <2>3. Answer(h, c, code)
    BY <2>2 DEF Refuse, Answer
  <2> QED
    BY <2>3, AnswerStep
<1>2. CASE audited
  <2> DEFINE line == IF audited THEN <<Audit("input_denied")>> ELSE <<>>
  <2>1. line = <<Audit("input_denied")>>
    BY <1>2
  <2>2. line \o <<Reply(code)>> = <<Audit("input_denied"), Reply(code)>>
    BY <2>1, JoinFacts, Zenon
  <2>3. Proceed(h, [Idle EXCEPT !.client = c], <<Audit("input_denied"), Reply(code)>>)
    BY <2>2 DEF Refuse
  <2>4. UNCHANGED <<config, phase, authenticated, inputEnabled, attachedPanes, paneOwners, streamed,
                    pendingAttachLag, wish>>
    BY DEF Refuse, sessionVars
  <2>5. /\ Audit("input_denied") \in Await /\ Audit("input_denied").do = "audit"
        /\ Audit("input_denied") # Audit("input_allowed")
    BY DEF Word, Await, Audit
  <2>6. HandlersKept /\ \A k \in Handler : SendOK(k)
    BY <1>2, <2>3, <2>4, <2>5, CallerStep
  <2>7. RestOK'
    BY <2>4, RestFacts DEF RestOK
  <2>8. \A d \in Client : WishOK(d)'
    BY <2>4 DEF IntakeInv, WishOK
  <2> QED
    BY <2>6, <2>7, <2>8, Together
<1> QED
  BY <1>1, <1>2

LEMMA InputStep ==
  ASSUME IntakeInv, NEW h \in Handler, slot[h].todo = <<>>, NEW c \in Client, NEW payload,
         parseNonEmptyString(payload.paneId) \in PaneId, authenticated[c],
         Input(h, c, payload), UNCHANGED <<config, phase>>
  PROVE  IntakeInv' /\ \A k \in Handler : SendOK(k)
<1> DEFINE p == parseNonEmptyString(payload.paneId)
           s == [Idle EXCEPT !.client = c, !.pane = p, !.took = paneOwners[p] \notin {None, c}]
           rest == <<Call("send"), Reply("ack")>>
<1>1. CASE \E code \in {"input_rate_limited", "input_disabled", "input_lane_conflict"} :
             Refuse(h, c, code, TRUE)
  <2>1. PICK code \in {"input_rate_limited", "input_disabled", "input_lane_conflict"} :
          Refuse(h, c, code, TRUE)
    BY <1>1
  <2>2. code \in Word
    BY DEF Word
  <2> QED
    BY <2>1, <2>2, RefuseStep
<1>2. CASE \E code : Refuse(h, c, code, FALSE)
  BY <1>2, RefuseStep
<1>3. CASE /\ isInputAllowed(c) /\ p \in attachedPanes[c]
           /\ paneOwners' = [paneOwners EXCEPT ![p] = c]
           /\ Proceed(h, s, rest)
           /\ UNCHANGED <<sessionVars, streamed, pendingAttachLag, wish>>
  <2>1. /\ s \in Slot /\ s.client = c /\ s.todo = <<>> /\ ~s.typed /\ s.audited = {}
        /\ s.pane = p
    BY IdleFacts DEF Idle, Slot
  <2>2. Plan(rest) /\ rest[1].do = "send" /\ ~Due(rest, "input_allowed")
    <3>1. "ack" \in Word /\ Call("send") \in Await /\ Call("send").do = "send"
          /\ Call("send") # Audit("input_allowed")
      BY DEF Word, Await, Call, Audit
    <3> QED
      BY <3>1, TwoPlan
  <2>3. Proceed(h, s, rest)
    BY <1>3
  <2>4. UNCHANGED <<config, phase, authenticated, inputEnabled, attachedPanes, streamed,
                    pendingAttachLag, wish>>
    BY <1>3 DEF sessionVars
  <2>5. wish[c].proved /\ wish[c].enable /\ p \in wish[c].panes /\ ~config.globalInputDisabled
    BY <1>3 DEF IntakeInv, WishOK, isInputAllowed
  <2> HIDE DEF s, rest, p
  <2>6. /\ HandlersKept /\ \A k \in Handler \ {h} : SendOK(k)
        /\ slot'[h] = [s EXCEPT !.todo = rest]
    BY <2>1, <2>2, <2>3, <2>4, StartStep
  <2>7. slot'[h].client = c /\ slot'[h].pane = p
    BY <2>1, <2>6 DEF Slot
  <2>8. SendOK(h)
    BY <2>5, <2>7 DEF SendOK
  <2>9. RestOK'
    BY <1>3, <2>4, RestFacts DEF RestOK
  <2>10. \A d \in Client : WishOK(d)'
    BY <2>4 DEF IntakeInv, WishOK
  <2> QED
    BY <2>6, <2>8, <2>9, <2>10, Together
<1> HIDE DEF s, rest
<1> QED
  BY <1>1, <1>2, <1>3 DEF Input, s, rest

LEMMA DisconnectStep ==
  ASSUME IntakeInv, NEW h \in Handler, slot[h].todo = <<>>, NEW c \in Client,
         Disconnect(h, c), UNCHANGED <<config, phase>>
  PROVE  IntakeInv' /\ \A k \in Handler : SendOK(k)
<1> DEFINE released == \E p \in Pane : paneOwners[p] = c
           lane == IF released THEN <<Audit("lane_owner_released")>> ELSE <<>>
           rest == lane \o <<Audit("disconnect"), Reply("ack")>>
           s == [Idle EXCEPT !.client = c, !.todo = rest]
<1>1. /\ streamed' = [streamed EXCEPT ![c] = {}]
      /\ paneOwners' = [p \in Pane |-> IF paneOwners[p] = c THEN None ELSE paneOwners[p]]
      /\ attachedPanes' = [attachedPanes EXCEPT ![c] = {}]
      /\ inputEnabled' = [inputEnabled EXCEPT ![c] = FALSE]
      /\ wish' = [wish EXCEPT ![c].panes = {}, ![c].enable = FALSE]
      /\ told' = [told EXCEPT ![c] = None]
      /\ slot' = [slot EXCEPT ![h] = s]
      /\ UNCHANGED <<config, phase, authenticated, pendingAttachLag>>
  BY DEF Disconnect
<1>2. Plan(rest) /\ rest[1].do = "audit" /\ ~Due(rest, "input_allowed")
  <2> DEFINE t == <<Audit("disconnect"), Reply("ack")>>
  <2>1. /\ "ack" \in Word /\ "disconnect" \in Word /\ "lane_owner_released" \in Word
        /\ Audit("disconnect") \in Await /\ Audit("disconnect").do = "audit"
        /\ Audit("disconnect") # Audit("input_allowed")
        /\ Audit("lane_owner_released") \in Await /\ Audit("lane_owner_released").do = "audit"
        /\ Audit("lane_owner_released") # Audit("input_allowed")
    BY DEF Word, Await, Audit
  <2>2. Plan(t) /\ t[1].do = "audit" /\ ~Due(t, "input_allowed")
    BY <2>1, TwoPlan
  <2>3. t \in Seq(Await)
    BY <2>2 DEF Plan
  <2> HIDE DEF t
  <2>4. CASE released
    <3>1. lane = <<Audit("lane_owner_released")>>
      BY <2>4
    <3>2. rest = <<Audit("lane_owner_released")>> \o t
      BY <3>1, Zenon DEF t
    <3> HIDE DEF rest
    <3> QED
      BY <2>1, <2>2, <3>2, LongerPlan
  <2>5. CASE ~released
    <3>1. lane = <<>>
      BY <2>5
    <3>2. rest = <<>> \o t
      BY <3>1, Zenon DEF t
    <3>3. rest = t
      BY <2>3, <3>2, ConcatEmptySeq
    <3> HIDE DEF rest
    <3> QED
      BY <2>2, <3>3
  <2> QED
    BY <2>4, <2>5
<1> HIDE DEF rest, lane, released
<1>3. /\ s \in Slot /\ s.client = c /\ s.todo = rest /\ ~s.typed /\ s.audited = {}
  BY <1>2, IdleFacts DEF Idle, Slot, Plan
<1> HIDE DEF s
<1>4. SlotInv(s)
  BY <1>2, <1>3 DEF SlotInv
<1>5. slot \in [Handler -> Slot] /\ \A k \in Handler : SlotInv(slot[k])
  BY DEF IntakeInv, IntakeTypeOK
<1>6. slot'[h] = s /\ \A k \in Handler \ {h} : slot'[k] = slot[k]
  BY <1>1, <1>5
<1>7. slot' \in [Handler -> Slot] /\ \A k \in Handler : SlotInv(slot'[k])
  BY <1>1, <1>3, <1>4, <1>5, <1>6
<1>8. told \in [Client -> BOOLEAN \cup {None}]
  BY DEF IntakeInv, IntakeTypeOK
<1>9. ASSUME NEW d \in Client PROVE PolicyOK(d)'
  <2>1. CASE d = c
    <3>1. told'[d] = None
      BY <2>1, <1>1, <1>8
    <3> QED
      BY <3>1 DEF PolicyOK
  <2>2. CASE d # c
    <3>1. inputEnabled'[d] = inputEnabled[d] /\ told'[d] = told[d] /\ phase'[d] = phase[d]
      BY <2>2, <1>1, <1>8, RestFacts DEF RestOK
    <3>2. PolicyOK(d)
      BY DEF IntakeInv
    <3>3. \A k \in Handler : PolicyDue(slot[k].todo) => slot'[k] = slot[k]
      BY <1>6 DEF PolicyDue
    <3> QED
      BY <3>1, <3>2, <3>3 DEF PolicyOK, PolicyDue
  <2> QED
    BY <2>1, <2>2
<1>10. HandlersKept
  BY <1>1, <1>7, <1>8, <1>9 DEF HandlersKept
<1>11. \A k \in Handler : SendOK(k)
  <2>1. Head(rest) = rest[1]
    BY <1>2 DEF Plan
  <2> QED
    BY <2>1, <1>2, <1>3, <1>6, NoSend
<1>12. RestOK'
  BY <1>1, RestFacts, ZenonT(60) DEF RestOK
<1>13. ASSUME NEW d \in Client PROVE WishOK(d)'
  <2>1. CASE d = c
    BY <2>1, <1>1, RestFacts DEF IntakeInv, WishOK, RestOK
  <2>2. CASE d # c
    BY <2>2, <1>1, RestFacts DEF IntakeInv, WishOK, RestOK
  <2> QED
    BY <2>1, <2>2
<1> QED
  BY <1>10, <1>11, <1>12, <1>13, Together

LEMMA OnMessageStep ==
  ASSUME IntakeInv, NEW h \in Handler, NEW c \in Client, OnMessage(h, c)
  PROVE  IntakeInv' /\ \A k \in Handler : SendOK(k)
<1>1. PICK frame \in Frame :
        /\ phase[c] = "open" /\ slot[h].todo = <<>>
        /\ \/ Answer(h, c, "rate_limited")
           \/ IF parseIncomingClientMessage(frame).ok
              THEN handleClientMessage(h, c, parseIncomingClientMessage(frame).type,
                                       parseIncomingClientMessage(frame).payload)
              ELSE Answer(h, c, parseIncomingClientMessage(frame).error)
        /\ UNCHANGED <<config, phase>>
  BY DEF OnMessage
<1> DEFINE parsed == parseIncomingClientMessage(frame)
           type == parsed.type
           payload == parsed.payload
<1>2. CASE \E code : Answer(h, c, code)
  BY <1>1, <1>2, AnswerStep
<1>3. CASE parsed.ok /\ handleClientMessage(h, c, type, payload)
  <2>1. payload \in Payload
    <3>1. config \in Config
      BY DEF IntakeInv, IntakeTypeOK
    <3>2. parsed \in Message
      BY <3>1 DEF Message, parseIncomingClientMessage
    <3> HIDE DEF parsed
    <3> QED
      BY <1>3, <3>2 DEF Payload
  <2> HIDE DEF parsed, type, payload
  <2>2. parseNonEmptyString(payload.paneId) \in PaneId /\ parseOptionalInt(payload.lastSeq) \in Cursor
    BY <2>1 DEF PaneId, Cursor
  <2>3. CASE type = "auth" /\ Auth(h, c, payload)
    BY <2>3, <1>1, AuthStep
  <2>4. CASE ListSessions(h, c)
    BY <2>4, <1>1, ListStep
  <2>5. CASE Attach(h, c, payload)
    BY <2>5, <2>2, <1>1, AttachStep
  <2>6. CASE Detach(h, c, payload)
    BY <2>6, <2>2, <1>1, DetachStep
  <2>7. CASE type \in {"enable_input", "disable_input"} /\ SetInput(h, c, type)
    BY <2>7, <1>1, SetInputStep
  <2>8. CASE authenticated[c] /\ Input(h, c, payload)
    BY <2>8, <2>2, <1>1, InputStep
  <2>9. CASE Disconnect(h, c)
    BY <2>9, <1>1, DisconnectStep
  <2>10. CASE \E code : Answer(h, c, code)
    BY <2>10, <1>2
  <2>11. \/ type = "auth" /\ Auth(h, c, payload)
         \/ ListSessions(h, c)
         \/ Attach(h, c, payload)
         \/ Detach(h, c, payload)
         \/ type \in {"enable_input", "disable_input"} /\ SetInput(h, c, type)
         \/ authenticated[c] /\ Input(h, c, payload)
         \/ Disconnect(h, c)
         \/ \E code : Answer(h, c, code)
    BY <1>3 DEF handleClientMessage
  <2> QED
    BY <2>3, <2>4, <2>5, <2>6, <2>7, <2>8, <2>9, <2>10, <2>11
<1> QED
  BY <1>1, <1>2, <1>3

-----------------------------------------------------------------------------
(* Awaits *)

LEMMA AwaitsFacts ==
  ASSUME IntakeInv, NEW h \in Handler, NEW op, Awaits(h, op)
  PROVE  /\ slot[h] \in Slot /\ SlotInv(slot[h]) /\ slot[h].client \in Client
         /\ Plan(slot[h].todo) /\ slot[h].todo[1].do = op
         /\ Head(slot[h].todo) = slot[h].todo[1] /\ slot[h].todo[1] \in Await
         /\ op \in {"list", "attach", "send"} =>
              ~slot[h].typed /\ ~PolicyDue(slot[h].todo)
<1> DEFINE t == slot[h].todo
<1>1. SlotInv(slot[h]) /\ slot[h] \in Slot
  BY DEF IntakeInv, IntakeTypeOK
<1>2. t # <<>> /\ Head(t).do = op
  BY DEF Awaits
<1>3. Plan(t) /\ slot[h].client \in Client
  BY <1>1, <1>2 DEF SlotInv
<1>4. t \in Seq(Await)
  BY <1>3 DEF Plan
<1>5. Head(t) = t[1] /\ t[1] \in Await
  <2>1. 1 \in 1..Len(t)
    BY <1>2, <1>4, EmptySeq, LenProperties
  <2> QED
    BY <2>1, <1>2, <1>4, ElementOfSeq
<1>6. op \in {"list", "attach", "send"} => ~slot[h].typed /\ ~PolicyDue(t)
  BY <1>1, <1>2, <1>5 DEF SlotInv, PolicyDue
<1> QED
  BY <1>1, <1>2, <1>3, <1>5, <1>6

\* The steps that only go on.
LEMMA OnwardStep ==
  ASSUME IntakeInv, HandlersKept,
         UNCHANGED <<config, phase, sessionVars, paneOwners, streamed, pendingAttachLag, wish>>
  PROVE  IntakeInv'
<1>1. RestOK'
  BY RestFacts DEF RestOK, sessionVars
<1>2. \A d \in Client : WishOK(d)'
  BY DEF IntakeInv, WishOK, sessionVars
<1> QED
  BY <1>1, <1>2, Together

LEMMA AuditDoneStep ==
  ASSUME IntakeInv, NEW h \in Handler, AuditDone(h)
  PROVE  IntakeInv' /\ \A k \in Handler : SendOK(k)
<1>0. PICK line \in {{}, {Head(slot[h].todo).action}} :
        Proceed(h, [slot[h] EXCEPT !.audited = @ \cup {Head(slot[h].todo).action},
                                   !.lost = @ \cup line], Tail(slot[h].todo))
  BY DEF AuditDone
<1> DEFINE t == slot[h].todo
           a == t[1].action
           s == [slot[h] EXCEPT !.audited = @ \cup {Head(t).action}, !.lost = @ \cup line]
           rest == Tail(t)
<1>1. /\ Awaits(h, "audit") /\ Proceed(h, s, rest)
      /\ UNCHANGED <<config, phase, sessionVars, paneOwners, streamed, pendingAttachLag, wish>>
  BY <1>0 DEF AuditDone
<1>2. /\ slot[h] \in Slot /\ SlotInv(slot[h]) /\ slot[h].client \in Client
      /\ Plan(t) /\ t[1].do = "audit" /\ Head(t) = t[1] /\ t[1] \in Await
  BY <1>1, AwaitsFacts
<1>3. a \in Word /\ \A action : t[1] = Audit(action) <=> action = a
  BY <1>2 DEF Await, Audit
<1>4. /\ s \in Slot /\ s.client = slot[h].client /\ s.typed = slot[h].typed
      /\ s.took = slot[h].took /\ s.audited = slot[h].audited \cup {a}
  <2>1. line \subseteq Word /\ Head(t).action = a
    BY <1>2, <1>3
  <2> QED
    BY <1>2, <1>3, <2>1 DEF Slot
<1>5. /\ Plan(rest) /\ rest[1].do \in {"audit", "reply"} /\ rest[Len(rest)] = t[Len(t)]
      /\ \A action : Due(t, action) <=> action = a \/ Due(rest, action)
  BY <1>2, <1>3, ShorterPlan
<1> HIDE DEF s, rest
<1>6. SlotInv([s EXCEPT !.todo = rest])
  BY <1>2, <1>4, <1>5, PlanFits DEF SlotInv
<1>7. PolicyDue(t) => PolicyDue(rest)
  BY <1>5 DEF PolicyDue, Plan
<1>8. HandlersKept /\ \A k \in Handler : SendOK(k)
  BY <1>1, <1>2, <1>4, <1>5, <1>6, <1>7, HandlerStep DEF sessionVars
<1> QED
  BY <1>1, <1>8, OnwardStep

LEMMA ListDoneStep ==
  ASSUME IntakeInv, NEW h \in Handler, ListDone(h)
  PROVE  IntakeInv' /\ \A k \in Handler : SendOK(k)
<1> DEFINE t == slot[h].todo
           rest == Tail(t)
<1>1. /\ Awaits(h, "list") /\ Proceed(h, slot[h], rest)
      /\ UNCHANGED <<config, phase, sessionVars, paneOwners, streamed, pendingAttachLag, wish>>
  BY DEF ListDone
<1>2. /\ slot[h] \in Slot /\ SlotInv(slot[h]) /\ slot[h].client \in Client
      /\ Plan(t) /\ t[1].do = "list" /\ ~slot[h].typed /\ ~PolicyDue(t)
  BY <1>1, AwaitsFacts
<1>3. /\ Plan(rest) /\ rest[1].do \in {"audit", "reply"}
      /\ \A action : Due(rest, action) => Due(t, action)
  BY <1>2, ShorterPlan
<1> HIDE DEF rest
<1>4. SlotInv([slot[h] EXCEPT !.todo = rest])
  BY <1>2, <1>3, PlanFits DEF SlotInv
<1>5. HandlersKept /\ \A k \in Handler : SendOK(k)
  BY <1>1, <1>2, <1>3, <1>4, HandlerStep DEF sessionVars
<1> QED
  BY <1>1, <1>5, OnwardStep

LEMMA AttachDoneStep ==
  ASSUME IntakeInv, NEW h \in Handler, AttachDone(h)
  PROVE  IntakeInv' /\ \A k \in Handler : SendOK(k)
<1> DEFINE t == slot[h].todo
           u == <<Audit("attach"), Reply("ack")>>
<1>1. /\ Awaits(h, "attach")
      /\ UNCHANGED <<config, phase, sessionVars, paneOwners, streamed, pendingAttachLag, wish>>
  BY DEF AttachDone
<1>2. PICK r \in Replay : Proceed(h, slot[h], ReplayAudit(r) \o u)
  BY DEF AttachDone
<1> DEFINE rest == ReplayAudit(r) \o u
<1>3. /\ slot[h] \in Slot /\ SlotInv(slot[h]) /\ slot[h].client \in Client
      /\ ~slot[h].typed /\ ~PolicyDue(t)
  BY <1>1, AwaitsFacts
<1>4. ReplayAudit(r) = <<>> \/ \E w \in Word : ReplayAudit(r) = <<Audit(w)>> /\ w # "input_allowed"
  <2>1. /\ classifyReplaySnapshotFallbackReason(r) \in Word
        /\ classifyReplaySnapshotFallbackReason(r) # "input_allowed"
    BY DEF classifyReplaySnapshotFallbackReason, Word
  <2>2. "replay_resume" \in Word
    BY DEF Word
  <2> QED
    BY <2>1, <2>2, Zenon DEF ReplayAudit
<1>5. Plan(rest) /\ rest[1].do = "audit" /\ ~Due(rest, "input_allowed")
  <2>1. /\ "ack" \in Word /\ Audit("attach") \in Await /\ Audit("attach").do = "audit"
        /\ Audit("attach") # Audit("input_allowed")
    BY DEF Word, Await, Audit
  <2>2. Plan(u) /\ u[1].do = "audit" /\ ~Due(u, "input_allowed")
    BY <2>1, TwoPlan
  <2>3. u \in Seq(Await)
    BY <2>2 DEF Plan
  <2> HIDE DEF u
  <2>4. CASE ReplayAudit(r) = <<>>
    <3>1. rest = u
      BY <2>3, <2>4, ConcatEmptySeq
    <3> QED
      BY <3>1, <2>2
  <2>5. CASE \E w \in Word : ReplayAudit(r) = <<Audit(w)>> /\ w # "input_allowed"
    <3>1. PICK w \in Word : ReplayAudit(r) = <<Audit(w)>> /\ w # "input_allowed"
      BY <2>5
    <3>2. rest = <<Audit(w)>> \o u
      BY <3>1, Zenon
    <3>3. Audit(w) \in Await /\ Audit(w).do = "audit" /\ Audit(w) # Audit("input_allowed")
      BY <3>1, AwaitFacts DEF Audit
    <3> HIDE DEF rest
    <3> QED
      BY <3>2, <3>3, <2>2, LongerPlan
  <2> QED
    BY <1>4, <2>4, <2>5
<1> HIDE DEF rest
<1>6. SlotInv([slot[h] EXCEPT !.todo = rest])
  BY <1>3, <1>5, PlanFits DEF SlotInv
<1>7. Proceed(h, slot[h], rest)
  BY <1>2 DEF rest
<1>8. HandlersKept /\ \A k \in Handler : SendOK(k)
  BY <1>1, <1>3, <1>5, <1>6, <1>7, HandlerStep DEF sessionVars
<1> QED
  BY <1>1, <1>8, OnwardStep

\* The input has reached the pane: from here on its lines are due.
LEMMA SendDoneStep ==
  ASSUME IntakeInv, NEW h \in Handler, SendDone(h)
  PROVE  IntakeInv' /\ \A k \in Handler : SendOK(k)
<1> DEFINE t == slot[h].todo
           s == [slot[h] EXCEPT !.typed = TRUE]
           mid == IF slot[h].took THEN <<Audit("input_takeover")>> ELSE <<>>
           rest == <<Audit("input_allowed")>> \o mid \o <<Reply("ack")>>
<1>1. /\ Awaits(h, "send") /\ Proceed(h, s, rest)
      /\ UNCHANGED <<config, phase, sessionVars, paneOwners, streamed, pendingAttachLag, wish>>
  BY DEF SendDone
<1>2. /\ slot[h] \in Slot /\ SlotInv(slot[h]) /\ slot[h].client \in Client
      /\ ~slot[h].typed /\ ~PolicyDue(t)
  BY <1>1, AwaitsFacts
<1>3. /\ s \in Slot /\ s.client = slot[h].client /\ s.typed = TRUE
      /\ s.took = slot[h].took /\ s.audited = slot[h].audited
  BY <1>2 DEF Slot
<1>4. /\ Plan(rest) /\ rest[1].do = "audit" /\ Due(rest, "input_allowed")
      /\ slot[h].took => Due(rest, "input_takeover")
  <2>1. /\ "ack" \in Word /\ "input_allowed" \in Word /\ "input_takeover" \in Word
        /\ Audit("input_allowed") \in Await /\ Audit("input_allowed").do = "audit"
    BY DEF Word, Await, Audit
  <2>2. CASE slot[h].took
    <3>1. mid = <<Audit("input_takeover")>>
      BY <2>2
    <3>2. rest = <<Audit("input_allowed"), Audit("input_takeover"), Reply("ack")>>
      BY <3>1, JoinFacts, Zenon
    <3> HIDE DEF rest
    <3> QED
      BY <2>1, <3>2, ThreePlan
  <2>3. CASE ~slot[h].took
    <3>1. mid = <<>>
      BY <2>3
    <3>2. rest = <<Audit("input_allowed"), Reply("ack")>>
      BY <3>1, JoinFacts, Zenon
    <3> HIDE DEF rest
    <3> QED
      BY <2>1, <2>3, <3>2, TwoPlan
  <2> QED
    BY <2>2, <2>3
<1> HIDE DEF s, rest, mid
<1>5. SlotInv([s EXCEPT !.todo = rest])
  BY <1>2, <1>3, <1>4, PlanFits
<1>6. HandlersKept /\ \A k \in Handler : SendOK(k)
  BY <1>1, <1>2, <1>3, <1>4, <1>5, HandlerStep DEF sessionVars
<1> QED
  BY <1>1, <1>6, OnwardStep

LEMMA CallFailsStep ==
  ASSUME IntakeInv, NEW h \in Handler, CallFails(h)
  PROVE  IntakeInv' /\ \A k \in Handler : SendOK(k)
<1> DEFINE t == slot[h].todo
<1>1. /\ UNCHANGED <<config, phase, authenticated, inputEnabled, attachedPanes, paneOwners,
                     pendingAttachLag, told, wish>>
      /\ Awaits(h, "list") \/ Awaits(h, "attach") \/ Awaits(h, "send")
  BY DEF CallFails, sessionVars
<1>2. /\ slot[h] \in Slot /\ SlotInv(slot[h]) /\ slot[h].client \in Client
      /\ ~slot[h].typed /\ ~PolicyDue(t)
  BY <1>1, AwaitsFacts
<1>3. PICK text \in Failure :
        slot' = [slot EXCEPT ![h].todo =
                   <<Audit("runtime_failure"), Reply(classifyBridgeRuntimeFailure(text))>>]
  BY DEF CallFails, Catch
<1> DEFINE rest == <<Audit("runtime_failure"), Reply(classifyBridgeRuntimeFailure(text))>>
           s == [slot[h] EXCEPT !.todo = rest]
<1>4. Plan(rest) /\ rest[1].do = "audit" /\ ~Due(rest, "input_allowed")
  <2>1. classifyBridgeRuntimeFailure(text) \in Word
    BY DEF classifyBridgeRuntimeFailure, Word
  <2>2. /\ Audit("runtime_failure") \in Await /\ Audit("runtime_failure").do = "audit"
        /\ Audit("runtime_failure") # Audit("input_allowed")
    BY DEF Word, Await, Audit
  <2> QED
    BY <2>1, <2>2, TwoPlan
<1>5. slot' = [slot EXCEPT ![h].todo = rest]
  BY <1>3
<1> HIDE DEF rest
<1>6. SlotInv(s)
  BY <1>2, <1>4, PlanFits DEF SlotInv
<1>7. slot \in [Handler -> Slot] /\ \A k \in Handler : SlotInv(slot[k])
  BY DEF IntakeInv, IntakeTypeOK
<1>8. slot'[h] = s /\ \A k \in Handler \ {h} : slot'[k] = slot[k]
  BY <1>5, <1>7
<1>9. slot' \in [Handler -> Slot] /\ \A k \in Handler : SlotInv(slot'[k])
  <2>1. s \in Slot
    BY <1>6 DEF SlotInv
  <2>2. slot' = [slot EXCEPT ![h] = s]
    BY <1>5
  <2> HIDE DEF s
  <2> QED
    BY <2>1, <2>2, <1>6, <1>7, <1>8
<1>10. \A k \in Handler : PolicyDue(slot[k].todo) => slot'[k] = slot[k]
  BY <1>2, <1>8
<1>11. \A d \in Client : PolicyOK(d)'
  BY <1>1, <1>10 DEF IntakeInv, PolicyOK, PolicyDue
<1>12. HandlersKept
  BY <1>1, <1>9, <1>11 DEF HandlersKept, IntakeInv, IntakeTypeOK
<1>13. \A k \in Handler : SendOK(k)
  <2>1. s.todo = rest
    BY <1>2 DEF Slot
  <2>2. rest # <<>> /\ Head(rest) = rest[1]
    BY <1>4 DEF Plan
  <2> HIDE DEF s
  <2> QED
    BY <2>1, <2>2, <1>4, <1>8, NoSend
<1>14. streamed' \in [Client -> SUBSET PaneId]
  <2>1. streamed \in [Client -> SUBSET PaneId]
    BY RestFacts DEF RestOK
  <2>2. CASE streamed' = streamed
    BY <2>1, <2>2
  <2>3. CASE \E C \in {{}, {slot[h].client}, Client} :
               streamed' = [c \in Client |-> IF c \in C THEN streamed[c] \ {slot[h].pane}
                                             ELSE streamed[c]]
    BY <2>1, <2>3
  <2> QED
    BY <2>2, <2>3 DEF CallFails
<1>15. RestOK'
  BY <1>1, <1>14, RestFacts DEF RestOK
<1>16. \A d \in Client : WishOK(d)'
  BY <1>1 DEF IntakeInv, WishOK
<1> QED
  BY <1>12, <1>13, <1>15, <1>16, Together

-----------------------------------------------------------------------------
(* Everything else *)

LEMMA SlotsStay ==
  ASSUME IntakeInv, slot' = slot, told' \in [Client -> BOOLEAN \cup {None}],
         \A c \in Client : PolicyOK(c)'
  PROVE  HandlersKept /\ \A k \in Handler : SendOK(k)
<1>1. \A k \in Handler : SendOK(k)
  BY NoSend
<1> QED
  BY <1>1 DEF HandlersKept, IntakeInv, IntakeTypeOK

LEMMA ConnectionStep ==
  ASSUME IntakeInv, NEW c \in Client, OnConnection(c) \/ Closing(c) \/ OnClose(c)
  PROVE  IntakeInv' /\ \A k \in Handler : SendOK(k)
<1>1. told \in [Client -> BOOLEAN \cup {None}] /\ RestOK
  BY RestFacts DEF IntakeInv, IntakeTypeOK
<1>2. slot' = slot /\ config' = config /\ told' \in [Client -> BOOLEAN \cup {None}]
  BY <1>1 DEF OnConnection, Closing, OnClose
<1>3. ASSUME NEW d \in Client PROVE PolicyOK(d)'
  <2>1. PolicyOK(d)
    BY DEF IntakeInv
  <2>2. CASE OnConnection(c)
    BY <2>1, <2>2, <1>1 DEF OnConnection, PolicyOK, PolicyDue, RestOK
  <2>3. CASE Closing(c)
    BY <2>1, <2>3, <1>1 DEF Closing, PolicyOK, PolicyDue, RestOK, sessionVars
  <2>4. CASE OnClose(c)
    <3>1. CASE d = c
      BY <2>4, <3>1, <1>1 DEF OnClose, PolicyOK, RestOK
    <3>2. CASE d # c
      <4>1. told'[d] = told[d] /\ phase'[d] = phase[d] /\ inputEnabled'[d] = inputEnabled[d]
        BY <2>4, <3>2, <1>1 DEF OnClose, RestOK
      <4> QED
        BY <4>1, <2>1, <1>2 DEF PolicyOK, PolicyDue
    <3> QED
      BY <3>1, <3>2
  <2> QED
    BY <2>2, <2>3, <2>4
<1>4. HandlersKept /\ \A k \in Handler : SendOK(k)
  BY <1>2, <1>3, SlotsStay
<1>5. CASE OnConnection(c)
  <2>1. PICK open \in BOOLEAN :
          /\ phase' = [phase EXCEPT ![c] = "open"]
          /\ authenticated' = [authenticated EXCEPT ![c] = open]
          /\ wish' = [wish EXCEPT ![c].proved = open]
          /\ UNCHANGED <<config, inputEnabled, attachedPanes, paneOwners, streamed, pendingAttachLag>>
    <3> DEFINE b == config.authToken = None
    <3>1. b \in BOOLEAN
      OBVIOUS
    <3>2. /\ phase' = [phase EXCEPT ![c] = "open"]
          /\ authenticated' = [authenticated EXCEPT ![c] = b]
          /\ wish' = [wish EXCEPT ![c].proved = b]
          /\ UNCHANGED <<config, inputEnabled, attachedPanes, paneOwners, streamed, pendingAttachLag>>
      BY <1>5 DEF OnConnection
    <3> HIDE DEF b
    <3> QED
      BY <3>1, <3>2
  <2>2. RestOK'
    BY <2>1, <1>1 DEF RestOK
  <2>3. \A d \in Client : WishOK(d)'
    BY <1>1, <1>5 DEF OnConnection, RestOK, WishOK, IntakeInv
  <2> QED
    BY <2>2, <2>3, <1>4, Together
<1>6. CASE Closing(c)
  <2>1. RestOK'
    BY <1>1, <1>6 DEF Closing, RestOK, sessionVars
  <2>2. \A d \in Client : WishOK(d)'
    BY <1>6 DEF Closing, sessionVars, WishOK, IntakeInv
  <2> QED
    BY <2>1, <2>2, <1>4, Together
<1>7. CASE OnClose(c)
  <2>1. NoWish \in [proved : BOOLEAN, enable : BOOLEAN, panes : SUBSET PaneId]
    BY DEF NoWish
  <2>2. RestOK'
    BY <2>1, <1>1, <1>7 DEF OnClose, RestOK, clearClientAttachLag
  <2>3. \A d \in Client : WishOK(d)'
    BY <1>1, <1>7 DEF OnClose, RestOK, WishOK, IntakeInv
  <2> QED
    BY <2>2, <2>3, <1>4, Together
<1> QED
  BY <1>5, <1>6, <1>7

LEMMA OutsideStep ==
  ASSUME IntakeInv,
         \/ \E c \in Client, p \in Pane : OnOutput(c, p)
         \/ \E p \in Pane : LaneMoves(p)
         \/ UNCHANGED intakeVars
  PROVE  IntakeInv' /\ \A k \in Handler : SendOK(k)
<1>1. UNCHANGED <<config, phase, authenticated, inputEnabled, attachedPanes, streamed, slot, told,
                  wish>>
  BY DEF OnOutput, LaneMoves, intakeVars, sessionVars
<1>2. told \in [Client -> BOOLEAN \cup {None}] /\ \A c \in Client : PolicyOK(c)'
  BY <1>1 DEF IntakeInv, IntakeTypeOK, PolicyOK, PolicyDue
<1>3. HandlersKept /\ \A k \in Handler : SendOK(k)
  BY <1>1, <1>2, SlotsStay
<1>4. /\ paneOwners' \in [Pane -> Client \cup {Rival, None}]
      /\ pendingAttachLag' \subseteq Client \X PaneId
  BY RestFacts DEF RestOK, OnOutput, LaneMoves, intakeVars
<1>5. RestOK'
  BY <1>1, <1>4, RestFacts DEF RestOK
<1>6. \A c \in Client : WishOK(c)'
  BY <1>1 DEF IntakeInv, WishOK
<1> QED
  BY <1>3, <1>5, <1>6, Together

LEMMA IntakeNextInv ==
  ASSUME IntakeInv, [IntakeNext]_intakeVars
  PROVE  IntakeInv' /\ \A h \in Handler : SendOK(h)
<1>1. CASE \E h \in Handler : Resume(h)
  BY <1>1, AuditDoneStep, ListDoneStep, AttachDoneStep, SendDoneStep, CallFailsStep DEF Resume
<1>2. CASE \E h \in Handler, c \in Client : OnMessage(h, c)
  BY <1>2, OnMessageStep
<1>3. CASE \E c \in Client : OnConnection(c) \/ Closing(c) \/ OnClose(c)
  BY <1>3, ConnectionStep
<1>4. CASE \/ \E c \in Client, p \in Pane : OnOutput(c, p)
           \/ \E p \in Pane : LaneMoves(p)
           \/ UNCHANGED intakeVars
  BY <1>4, OutsideStep
<1> QED
  BY <1>1, <1>2, <1>3, <1>4 DEF IntakeNext

\* The inductive invariant of the handlers.
THEOREM IntakeInvariant == IntakeSpec => []IntakeInv
BY IntakeInitInv, IntakeNextInv, PTL DEF IntakeSpec

\* Connections, handlers and lanes keep their types, whatever frames arrive.
THEOREM IntakeTypeCorrect == IntakeSpec => []IntakeTypeOK
<1>1. IntakeInv => IntakeTypeOK
  BY DEF IntakeInv
<1> QED
  BY <1>1, IntakeInvariant, PTL

\* Between its requests a connection knows the policy that holds, in whichever
\* order the answers of enable_input and disable_input were sent.
THEOREM IntakePolicyTold == IntakeSpec => []PolicyTold
<1>1. IntakeInv => PolicyTold
  <2> SUFFICES ASSUME IntakeInv, NEW c \in Client,
                      \A h \in Handler : slot[h].client = c => Ended(h),
                      phase[c] = "open", told[c] # None
               PROVE  told[c] = inputEnabled[c]
    BY DEF PolicyTold
  <2>1. \A h \in Handler : slot[h].client = c => ~PolicyDue(slot[h].todo)
    BY DEF Ended, PolicyDue
  <2> QED
    BY <2>1 DEF IntakeInv, PolicyOK
<1> QED
  BY <1>1, IntakeInvariant, PTL

\* With an audit log, an acknowledged input is in the trail, with its takeover,
\* unless the append failed, and the trail calls no input allowed that did not
\* reach its pane.
THEOREM IntakeAuditTrue == IntakeSpec => []AuditTrue
<1>1. IntakeInv => AuditTrue
  <2>1. \A action : ~Due(<<>>, action)
    BY DEF Due
  <2>2. ASSUME IntakeInv, NEW h \in Handler
        PROVE  /\ Ended(h) /\ slot[h].typed =>
                    /\ "input_allowed" \in slot[h].audited
                    /\ slot[h].took => "input_takeover" \in slot[h].audited
               /\ "input_allowed" \in slot[h].audited => slot[h].typed
    BY <2>1, <2>2 DEF IntakeInv, SlotInv, Ended
  <2>3. ASSUME NEW h \in Handler, NEW line
        PROVE  /\ line \in Trail(h) => line \in slot[h].audited
               /\ config.auditLog /\ line \in slot[h].audited
                    => line \in Trail(h) \cup slot[h].lost
    BY DEF Trail
  <2> QED
    BY <2>2, <2>3 DEF AuditTrue
<1> QED
  BY <1>1, IntakeInvariant, PTL

\* Input starts towards a pane only as the connection's own requests add up to.
THEOREM IntakeSendsOnlyAsWished == IntakeSpec => SendsOnlyAsWished
<1> DEFINE Sends == \A h \in Handler :
                      ~Awaits(h, "send") /\ Awaits(h, "send")' =>
                        LET w == wish[slot'[h].client] IN
                        /\ w.proved /\ w.enable /\ slot'[h].pane \in w.panes
                        /\ ~config.globalInputDisabled
<1>1. IntakeInv /\ [IntakeNext]_intakeVars => [Sends]_intakeVars
  BY IntakeNextInv DEF SendOK
<1>2. SendsOnlyAsWished <=> [][Sends]_intakeVars
  BY PTL DEF SendsOnlyAsWished
<1> HIDE DEF Sends
<1> QED
  BY <1>1, <1>2, IntakeInvariant, PTL DEF IntakeSpec

-----------------------------------------------------------------------------
(* Telemetry: sums and sorted sequences *)

\* Every nonempty set of numbers has a least one.
LEMMA NatLeast ==
  ASSUME NEW S, S \subseteq Nat, S # {}
  PROVE  \E x \in S : \A y \in S : x <= y
<1>1. PICK x \in S : \A y \in S : ~(<<y, x>> \in OpToRel(<, Nat))
  BY NatLessThanWellFounded, WFMin
<1>2. \A y \in S : x <= y
  <2> TAKE y \in S
  <2>1. x \in Nat /\ y \in Nat
    OBVIOUS
  <2>2. ~(y < x)
    BY <1>1, <2>1 DEF OpToRel
  <2> QED
    BY <2>1, <2>2
<1> QED
  BY <1>2

\* The partial sums of s.
Partial(f, s) ==
  /\ f \in [0..Len(s) -> Nat] /\ f[0] = 0
  /\ \A n \in 1..Len(s) : f[n] = f[n - 1] + s[n]

\* They exist, and Total is the last one: otherwise some beginning of s would
\* be the shortest without them, or the shortest with two.
LEMMA TotalSums ==
  ASSUME NEW s \in Seq(Nat)
  PROVE  \E f : Partial(f, s) /\ Total(s) = f[Len(s)]
<1> DEFINE Step(f, i) == IF i = 0 THEN 0 ELSE f[i - 1] + s[i]
           Rec(f, n) == f = [i \in 0..n |-> Step(f, i)]
           Bad == {n \in 0..Len(s) : ~(\E f : Rec(f, n))}
<1>1. Len(s) \in Nat /\ \A i \in 1..Len(s) : s[i] \in Nat
  OBVIOUS
<1> HIDE DEF Rec, Step
<1>2. \E f : Rec(f, Len(s))
  <2>1. CASE Bad = {}
    <3>1. Len(s) \notin Bad /\ Len(s) \in 0..Len(s)
      BY <2>1, <1>1
    <3> QED
      BY <3>1
  <2>2. CASE Bad # {}
    <3>1. Bad \subseteq Nat
      BY <1>1
    <3>2. PICK n \in Bad : \A y \in Bad : n <= y
      <4> HIDE DEF Bad
      <4> QED
        BY <2>2, <3>1, NatLeast
    <3>3. n \in 0..Len(s) /\ ~(\E f : Rec(f, n))
      BY <3>2
    <3>4. n # 0
      <4>1. Rec([i \in 0..0 |-> 0], 0)
        BY DEF Rec, Step
      <4> QED
        BY <4>1, <3>3
    <3>5. n - 1 \in 0..Len(s) /\ n - 1 \notin Bad
      <4>1. n - 1 \in 0..Len(s) /\ ~(n <= n - 1)
        BY <3>3, <3>4, <1>1
      <4> HIDE DEF Bad
      <4> QED
        BY <3>2, <4>1
    <3>6. PICK f : Rec(f, n - 1)
      BY <3>5
    <3> DEFINE g == [i \in 0..n |-> Step(f, i)]
    <3>7. ASSUME NEW i \in 0..n - 1 PROVE g[i] = f[i]
      <4>1. i \in 0..n
        BY <3>3
      <4>2. f = [j \in 0..n - 1 |-> Step(f, j)]
        BY <3>6, Zenon DEF Rec
      <4>3. f[i] = Step(f, i)
        BY <4>2, Zenon
      <4> QED
        BY <4>1, <4>3, Zenon
    <3>8. Rec(g, n)
      <4>1. \A i \in 0..n : Step(f, i) = Step(g, i)
        <5> HIDE DEF g
        <5>1. \A i \in 0..n : i # 0 => f[i - 1] = g[i - 1]
          BY <3>7, <3>3
        <5> QED
          BY <5>1, Zenon DEF Step
      <4> QED
        BY <4>1, Zenon DEF Rec
    <3> QED
      BY <3>3, <3>8
  <2> QED
    BY <2>1, <2>2
<1>3. PICK f : Rec(f, Len(s)) /\ Total(s) = f[Len(s)]
  <2>1. Total(s) = (CHOOSE f : Rec(f, Len(s)))[Len(s)]
    BY Zenon DEF Total, Rec, Step
  <2>2. Rec(CHOOSE f : Rec(f, Len(s)), Len(s))
    BY <1>2, Zenon
  <2> QED
    BY <2>1, <2>2
<1>4. /\ f = [i \in 0..Len(s) |-> f[i]]
      /\ \A i \in 0..Len(s) : f[i] = IF i = 0 THEN 0 ELSE f[i - 1] + s[i]
  BY <1>3, Zenon DEF Rec, Step
<1> DEFINE Ill == {n \in 0..Len(s) : f[n] \notin Nat}
<1>5. Ill = {}
  <2> SUFFICES ASSUME Ill # {} PROVE FALSE
    OBVIOUS
  <2>1. Ill \subseteq Nat
    BY <1>1
  <2>2. PICK n \in Ill : \A y \in Ill : n <= y
    <3> HIDE DEF Ill
    <3> QED
      BY <2>1, NatLeast
  <2>3. n \in 0..Len(s) /\ f[n] \notin Nat
    BY <2>2
  <2>4. n # 0 /\ f[n] = f[n - 1] + s[n]
    <3>1. f[n] = IF n = 0 THEN 0 ELSE f[n - 1] + s[n]
      BY <1>4, <2>3
    <3> QED
      BY <3>1, <2>3
  <2>5. n - 1 \in 0..Len(s) /\ n - 1 \notin Ill
    BY <2>1, <2>2, <2>3, <2>4, <1>1
  <2> QED
    BY <2>3, <2>4, <2>5, <1>1
<1>6. Partial(f, s)
  BY <1>1, <1>4, <1>5 DEF Partial
<1> QED
  BY <1>3, <1>6

\* Sums that add up are the only ones.
LEMMA TotalIs ==
  ASSUME NEW s \in Seq(Nat), NEW f, Partial(f, s)
  PROVE  Total(s) = f[Len(s)]
<1>1. PICK g : Partial(g, s) /\ Total(s) = g[Len(s)]
  BY TotalSums
<1>2. Len(s) \in Nat /\ \A i \in 1..Len(s) : s[i] \in Nat
  OBVIOUS
<1> DEFINE Ill == {n \in 0..Len(s) : f[n] # g[n]}
<1>3. Ill = {}
  <2> SUFFICES ASSUME Ill # {} PROVE FALSE
    OBVIOUS
  <2>1. Ill \subseteq Nat
    BY <1>2
  <2>2. PICK n \in Ill : \A y \in Ill : n <= y
    <3> HIDE DEF Ill
    <3> QED
      BY <2>1, NatLeast
  <2>3. n \in 0..Len(s) /\ f[n] # g[n]
    BY <2>2
  <2>4. n # 0
    BY <1>1, <2>3 DEF Partial
  <2>5. n \in 1..Len(s) /\ n - 1 \in 0..Len(s) /\ n - 1 \notin Ill
    BY <2>1, <2>2, <2>3, <2>4, <1>2
  <2> QED
    BY <1>1, <2>3, <2>5 DEF Partial
<1> QED
  BY <1>1, <1>2, <1>3

\* No sample, and one sample more.
LEMMA TotalEmpty == Total(<< >>) = 0
<1>1. << >> \in Seq(Nat) /\ Len(<< >>) = 0
  OBVIOUS
<1>2. Partial([n \in 0..0 |-> 0], << >>)
  BY <1>1 DEF Partial
<1> QED
  BY <1>1, <1>2, TotalIs

LEMMA TotalAppend ==
  ASSUME NEW s \in Seq(Nat), NEW x \in Nat
  PROVE  Total(s) \in Nat /\ Total(Append(s, x)) = Total(s) + x
<1>1. PICK f : Partial(f, s) /\ Total(s) = f[Len(s)]
  BY TotalSums
<1> DEFINE t == Append(s, x)
           g == [n \in 0..Len(s) + 1 |-> IF n <= Len(s) THEN f[n] ELSE f[Len(s)] + x]
<1>2. /\ t \in Seq(Nat) /\ Len(t) = Len(s) + 1 /\ Len(s) \in Nat
      /\ \A i \in 1..Len(s) : t[i] = s[i]
      /\ t[Len(s) + 1] = x
  BY AppendProperties, LenProperties
<1>3. f[Len(s)] \in Nat
  BY <1>1, <1>2 DEF Partial
<1>4. Partial(g, t)
  <2>1. f \in [0..Len(s) -> Nat] /\ f[0] = 0 /\ \A n \in 1..Len(s) : f[n] = f[n - 1] + s[n]
    BY <1>1 DEF Partial
  <2>2. \A n \in 0..Len(s) : f[n] \in Nat
    BY <2>1
  <2> HIDE DEF t
  <2>3. g \in [0..Len(s) + 1 -> Nat] /\ g[0] = 0
    BY <2>1, <2>2, <1>2, <1>3
  <2>4. ASSUME NEW n \in 1..Len(s) + 1 PROVE g[n] = g[n - 1] + t[n]
    <3>1. n \in 0..Len(s) + 1 /\ n - 1 \in 0..Len(s) + 1 /\ n - 1 <= Len(s)
      BY <1>2
    <3>2. /\ g[n] = IF n <= Len(s) THEN f[n] ELSE f[Len(s)] + x
          /\ g[n - 1] = f[n - 1]
      BY <3>1
    <3>3. CASE n <= Len(s)
      BY <2>1, <3>2, <3>3, <1>2
    <3>4. CASE n = Len(s) + 1
      <4>1. n - 1 = Len(s) /\ ~(n <= Len(s))
        BY <3>4, <1>2
      <4> QED
        BY <3>2, <3>4, <4>1, <1>2
    <3> QED
      BY <3>3, <3>4, <1>2
  <2> QED
    BY <2>3, <2>4, <1>2 DEF Partial
<1>5. g[Len(t)] = f[Len(s)] + x
  <2> HIDE DEF t
  <2> QED
    BY <1>2
<1> QED
  BY <1>1, <1>2, <1>3, <1>4, <1>5, TotalIs

\* p puts the first n of r in ascending order.
Sorts(p, n, r) ==
  /\ p \in [1..n -> 1..n]
  /\ \A i, j \in 1..n : p[i] = p[j] => i = j
  /\ \A i, j \in 1..n : i < j => r[p[i]] <= r[p[j]]

\* sorted is r in the order p.
SortsTo(p, n, r, sorted) == Sorts(p, n, r) /\ sorted = [i \in 1..n |-> r[p[i]]]

LEMMA OrderInjects ==
  ASSUME NEW n, NEW p \in [1..n -> 1..n], \A i, j \in 1..n : p[i] = p[j] => i = j
  PROVE  p \in Injection(1..n, 1..n)
BY DEF Injection, IsInjective

\* A sorted sequence takes one more value behind the last that is not greater.
LEMMA InsertSorts ==
  ASSUME NEW n \in Nat, NEW r \in [1..n + 1 -> Nat], NEW p, Sorts(p, n, r)
  PROVE  \E q : Sorts(q, n + 1, r)
<1> DEFINE After == {j \in 1..n + 1 : j <= n => r[p[j]] > r[n + 1]}
<1>1. /\ p \in [1..n -> 1..n]
      /\ \A i, j \in 1..n : p[i] = p[j] => i = j
      /\ \A i, j \in 1..n : i < j => r[p[i]] <= r[p[j]]
  BY DEF Sorts
<1>2. PICK k \in After : \A y \in After : k <= y
  <2>1. n + 1 \in After /\ After \subseteq Nat
    OBVIOUS
  <2> HIDE DEF After
  <2> QED
    BY <2>1, NatLeast
<1>3. /\ k \in 1..n + 1 /\ (k <= n => r[p[k]] > r[n + 1])
      /\ \A j \in 1..n : j < k => ~(r[p[j]] > r[n + 1])
  <2>1. k \in 1..n + 1 /\ (k <= n => r[p[k]] > r[n + 1])
    BY <1>2
  <2>2. ASSUME NEW j \in 1..n, j < k PROVE ~(r[p[j]] > r[n + 1])
    <3>1. j \notin After
      <4> HIDE DEF After
      <4> QED
        BY <1>2, <2>1, <2>2
    <3> QED
      BY <3>1
  <2> QED
    BY <2>1, <2>2
<1> HIDE DEF After
<1> DEFINE q == [i \in 1..n + 1 |-> IF i < k THEN p[i] ELSE IF i = k THEN n + 1 ELSE p[i - 1]]
<1>4. ASSUME NEW i \in 1..n + 1
      PROVE  /\ i < k => i \in 1..n /\ q[i] = p[i] /\ p[i] \in 1..n
             /\ i = k => q[i] = n + 1
             /\ i > k => i - 1 \in 1..n /\ q[i] = p[i - 1] /\ p[i - 1] \in 1..n
  <2>1. q[i] = IF i < k THEN p[i] ELSE IF i = k THEN n + 1 ELSE p[i - 1]
    OBVIOUS
  <2>2. k \in Nat /\ i \in Nat /\ k >= 1 /\ k <= n + 1
    BY <1>3
  <2>3. \A j \in 1..n : p[j] \in 1..n
    BY <1>1
  <2> HIDE DEF q
  <2>4. CASE i < k
    BY <2>1, <2>2, <2>3, <2>4
  <2>5. CASE i = k
    BY <2>1, <2>2, <2>5
  <2>6. CASE i > k
    <3>1. i - 1 \in 1..n /\ ~(i < k) /\ i # k
      BY <2>2, <2>6
    <3> QED
      BY <2>1, <2>3, <2>6, <3>1, <2>2
  <2> QED
    BY <2>2, <2>4, <2>5, <2>6
<1>5. q \in [1..n + 1 -> 1..n + 1]
  <2>1. \A i \in 1..n + 1 : q[i] \in 1..n + 1
    <3> TAKE i \in 1..n + 1
    <3>1. k \in Nat /\ i \in Nat
      BY <1>3
    <3>2. \A x \in 1..n : x \in 1..n + 1
      OBVIOUS
    <3>3. n + 1 \in 1..n + 1
      OBVIOUS
    <3> HIDE DEF q
    <3>4. CASE i < k
      <4>1. q[i] = p[i] /\ p[i] \in 1..n
        BY <1>4, <3>4
      <4> QED
        BY <3>2, <4>1
    <3>5. CASE i = k
      BY <1>4, <3>3, <3>5
    <3>6. CASE i > k
      <4>1. q[i] = p[i - 1] /\ p[i - 1] \in 1..n
        BY <1>4, <3>6
      <4> QED
        BY <3>2, <4>1
    <3> QED
      BY <3>1, <3>4, <3>5, <3>6
  <2>2. q = [i \in 1..n + 1 |-> q[i]]
    OBVIOUS
  <2> HIDE DEF q
  <2> QED
    BY <2>1, <2>2
<1> HIDE DEF q
<1>6. ASSUME NEW i \in 1..n + 1, NEW j \in 1..n + 1, q[i] = q[j] PROVE i = j
  <2>1. k \in Nat /\ i \in Nat /\ j \in Nat
    BY <1>3
  <2>2. CASE i = k \/ j = k
    <3>1. ASSUME NEW x \in 1..n + 1, q[x] = n + 1 PROVE x = k
      <4>1. n + 1 \notin 1..n
        OBVIOUS
      <4>2. ~(x < k)
        BY <1>4, <3>1, <4>1, SMTT(60)
      <4>3. ~(x > k)
        BY <1>4, <3>1, <4>1
      <4> QED
        BY <2>1, <4>2, <4>3
    <3>2. q[i] = n + 1 /\ q[j] = n + 1
      BY <1>4, <1>6, <2>2
    <3> QED
      BY <3>1, <3>2
  <2>3. CASE i < k /\ j < k
    BY <1>1, <1>4, <1>6, <2>3
  <2>4. CASE i > k /\ j > k
    <3>1. i - 1 = j - 1
      BY <1>1, <1>4, <1>6, <2>4
    <3> QED
      BY <2>1, <3>1
  <2>5. CASE i < k /\ j > k
    <3>1. i = j - 1
      BY <1>1, <1>4, <1>6, <2>5
    <3> QED
      BY <2>1, <2>5, <3>1
  <2>6. CASE i > k /\ j < k
    <3>1. i - 1 = j
      BY <1>1, <1>4, <1>6, <2>6
    <3> QED
      BY <2>1, <2>6, <3>1
  <2> QED
    BY <2>1, <2>2, <2>3, <2>4, <2>5, <2>6
<1>7. ASSUME NEW i \in 1..n + 1, NEW j \in 1..n + 1, i < j PROVE r[q[i]] <= r[q[j]]
  <2>1. k \in Nat /\ i \in Nat /\ j \in Nat /\ \A x \in 1..n + 1 : r[x] \in Nat
    BY <1>3
  <2>2. \A x \in 1..n : x \in 1..n + 1
    OBVIOUS
  <2>3. CASE j < k
    <3>1. i < k
      BY <1>7, <2>1, <2>3
    <3>2. i \in 1..n /\ j \in 1..n /\ q[i] = p[i] /\ q[j] = p[j]
      BY <1>4, <2>3, <3>1
    <3> QED
      BY <1>1, <1>7, <3>2
  <2>4. CASE j = k
    <3>1. i < k /\ q[j] = n + 1 /\ n + 1 \in 1..n + 1
      BY <1>7, <2>4, <1>4
    <3>2. i \in 1..n /\ q[i] = p[i] /\ p[i] \in 1..n + 1
      BY <3>1, <1>4, <2>2
    <3> QED
      BY <1>3, <2>1, <3>1, <3>2, SMTT(60)
  <2>5. CASE j > k
    <3>1. j - 1 \in 1..n /\ q[j] = p[j - 1] /\ p[j - 1] \in 1..n + 1
      BY <2>5, <1>4, <2>2
    <3>2. CASE i < k
      <4>1. i \in 1..n /\ q[i] = p[i] /\ i < j - 1
        BY <3>2, <1>4, <2>1, <2>5
      <4> QED
        BY <1>1, <3>1, <4>1
    <3>3. CASE i > k
      <4>1. i - 1 \in 1..n /\ q[i] = p[i - 1] /\ i - 1 < j - 1
        BY <3>3, <1>4, <1>7, <2>1
      <4> QED
        BY <1>1, <3>1, <4>1
    <3>4. CASE i = k
      <4>1. q[i] = n + 1 /\ k \in 1..n /\ p[k] \in 1..n + 1 /\ r[p[k]] > r[n + 1]
        <5>1. q[i] = n + 1
          BY <1>4, <3>4
        <5>2. k \in 1..n /\ k <= n
          BY <3>1, <2>1, <2>5, <1>3
        <5>3. p[k] \in 1..n
          BY <1>1, <5>2
        <5> QED
          BY <1>3, <2>2, <5>1, <5>2, <5>3
      <4>2. k = j - 1 \/ k < j - 1
        BY <2>1, <2>5
      <4>4. r[p[k]] \in Nat /\ r[n + 1] \in Nat /\ r[p[j - 1]] \in Nat
        BY <2>1, <3>1, <4>1, SMTT(60)
      <4>3. r[p[k]] <= r[p[j - 1]]
        <5>1. CASE k = j - 1
          BY <4>4, <5>1
        <5>2. CASE k < j - 1
          BY <1>1, <3>1, <4>1, <5>2
        <5> QED
          BY <4>2, <5>1, <5>2
      <4> QED
        BY <3>1, <4>1, <4>3, <4>4, SMTT(60)
    <3> QED
      BY <2>1, <3>2, <3>3, <3>4
  <2> QED
    BY <2>1, <2>3, <2>4, <2>5
<1> QED
  BY <1>5, <1>6, <1>7 DEF Sorts

\* So every sequence can be sorted.
LEMMA SortExists ==
  ASSUME NEW n \in Nat, NEW r \in [1..n -> Nat]
  PROVE  \E p : Sorts(p, n, r)
<1> DEFINE Bad == {k \in 0..n : ~(\E p : Sorts(p, k, r))}
<1>1. Bad = {}
  <2> SUFFICES ASSUME Bad # {} PROVE FALSE
    OBVIOUS
  <2>1. Bad \subseteq Nat
    OBVIOUS
  <2>2. PICK k \in Bad : \A y \in Bad : k <= y
    <3> HIDE DEF Bad
    <3> QED
      BY <2>1, NatLeast
  <2>3. k \in 0..n /\ ~(\E p : Sorts(p, k, r))
    BY <2>2
  <2>4. k # 0
    <3>1. Sorts([i \in 1..0 |-> i], 0, r)
      BY DEF Sorts
    <3> QED
      BY <2>3, <3>1
  <2>5. k - 1 \in 0..n /\ k - 1 \in Nat /\ k - 1 \notin Bad
    <3>1. k - 1 \in 0..n /\ k - 1 \in Nat /\ ~(k <= k - 1)
      BY <2>3, <2>4
    <3> HIDE DEF Bad
    <3> QED
      BY <2>2, <3>1
  <2>6. PICK p : Sorts(p, k - 1, r)
    BY <2>5
  <2> DEFINE l == k - 1
             first == [i \in 1..l + 1 |-> r[i]]
  <2>7. l \in Nat /\ l + 1 = k /\ first \in [1..l + 1 -> Nat]
    BY <2>3, <2>5
  <2>8. Sorts(p, l, first)
    <3>1. /\ p \in [1..l -> 1..l]
          /\ \A i, j \in 1..l : p[i] = p[j] => i = j
          /\ \A i, j \in 1..l : i < j => r[p[i]] <= r[p[j]]
      BY <2>6 DEF Sorts
    <3> HIDE DEF l
    <3>2. \A i \in 1..l : p[i] \in 1..l + 1
      BY <2>7, <3>1
    <3>3. \A i \in 1..l : first[p[i]] = r[p[i]]
      BY <3>2
    <3> HIDE DEF first
    <3> QED
      BY <3>1, <3>3 DEF Sorts
  <2> HIDE DEF l
  <2>9. PICK q : Sorts(q, l + 1, first)
    <3> HIDE DEF first
    <3> QED
      BY <2>7, <2>8, InsertSorts
  <2>10. Sorts(q, k, r)
    BY <2>7, <2>9 DEF Sorts
  <2> QED
    BY <2>3, <2>10
<1>2. n \in 0..n /\ n \notin Bad
  <2> HIDE DEF Bad
  <2> QED
    BY <1>1
<1> QED
  BY <1>2

LEMMA ToSetFacts ==
  ASSUME NEW s, NEW i \in DOMAIN s
  PROVE  s[i] \in ToSet(s)
BY DEF ToSet

\* Ascending is one of the sorted rearrangements.
LEMMA AscendingFacts ==
  ASSUME NEW n \in Nat, NEW r \in [1..n -> Nat]
  PROVE  \E p : Sorts(p, n, r) /\ Ascending(r) = [i \in 1..n |-> r[p[i]]]
<1> DEFINE D == DOMAIN r
           p == CHOOSE p \in [D -> D] :
                  IsInjective(p) /\ \A i, j \in D : i < j => r[p[i]] <= r[p[j]]
<1>1. D = 1..n
  OBVIOUS
<1>2. Ascending(r) = [i \in D |-> r[p[i]]]
  BY Zenon DEF Ascending
<1> HIDE DEF D
<1>3. \E x \in [D -> D] :
        IsInjective(x) /\ \A i, j \in D : i < j => r[x[i]] <= r[x[j]]
  <2>1. PICK x : Sorts(x, n, r)
    BY SortExists
  <2>2. /\ x \in [D -> D] /\ IsInjective(x)
        /\ \A i, j \in D : i < j => r[x[i]] <= r[x[j]]
    BY <1>1, <2>1 DEF Sorts, IsInjective
  <2> QED
    BY <2>2
<1>4. /\ p \in [D -> D] /\ IsInjective(p)
      /\ \A i, j \in D : i < j => r[p[i]] <= r[p[j]]
  BY <1>3, Zenon
<1> HIDE DEF p
<1>5. Sorts(p, n, r)
  BY <1>1, <1>4 DEF Sorts, IsInjective
<1> QED
  BY <1>1, <1>2, <1>5

\* A set whose elements all have a preimage in T is no larger than T.
Covers(c, T, S) == \A i \in S : \E j \in T : c[j] = i

LEMMA Preimages ==
  ASSUME NEW S, NEW T, NEW c, Covers(c, T, S)
  PROVE  \E g : g \in Injection(S, T)
<1> DEFINE pre(i) == CHOOSE j \in T : c[j] = i
           g == [i \in S |-> pre(i)]
<1>1. \A i \in S : pre(i) \in T /\ c[pre(i)] = i
  BY Zenon DEF Covers
<1> HIDE DEF pre
<1>2. g \in [S -> T]
  BY <1>1
<1>3. \A i, j \in S : g[i] = g[j] => i = j
  BY <1>1
<1> HIDE DEF g
<1>4. g \in Injection(S, T)
  BY <1>2, <1>3 DEF Injection, IsInjective
<1> QED
  BY <1>4

\* The value at the nearest rank of a rearrangement of t in ascending order is
\* the percentile of t: the values up to the rank are that many, and the
\* smaller ones all come before it.
LEMMA NearestRank ==
  ASSUME NEW n \in Nat \ {0}, NEW t \in [1..n -> Nat], NEW percent \in {50, 95},
         NEW c, NEW sorted, SortsTo(c, n, t, sorted)
  PROVE  IsPercentile(percentile(sorted, percent), t, percent)
<1>0. /\ c \in [1..n -> 1..n] /\ \A i, j \in 1..n : c[i] = c[j] => i = j
      /\ \A i, j \in 1..n : i < j => t[c[i]] <= t[c[j]]
  BY DEF SortsTo, Sorts
<1> USE <1>0
<1> DEFINE rank == (n * percent + 99) \div 100
           v == t[c[rank]]
           UpTo(x) == {i \in 1..n : t[i] <= x}
<1>1. rank \in 1..n /\ rank * 100 >= percent * n /\ (rank - 1) * 100 < percent * n
  BY SMTT(60)
<1>2. /\ DOMAIN t = 1..n /\ Len(t) = n
      /\ \A i \in 1..n : t[i] \in Nat /\ c[i] \in 1..n
  BY SMTT(60)
<1>3. percentile(sorted, percent) = v
  <2>1. sorted = [i \in 1..n |-> t[c[i]]] /\ Len(sorted) = n
    BY DEF SortsTo
  <2>2. percentile(sorted, percent) = sorted[rank]
    BY <1>1, <2>1 DEF percentile
  <2> HIDE DEF rank
  <2> QED
    BY <1>1, <2>1, <2>2
<1> HIDE DEF rank
<1>4. c[rank] \in 1..n /\ v \in Nat
  BY <1>1, <1>2, ZenonT(60)
<1>5. IsFiniteSet(1..n) /\ \A x : UpTo(x) \in SUBSET (1..n)
  BY FS_Interval
<1>6. \A x : IsFiniteSet(UpTo(x)) /\ Cardinality(UpTo(x)) \in Nat
  <2> TAKE x
  <2>1. IsFiniteSet(UpTo(x))
    <3> HIDE DEF UpTo
    <3> QED
      BY <1>5, FS_Subset
  <2> HIDE DEF UpTo
  <2> QED
    BY <2>1, FS_CardinalityType
<1>7. Cardinality(UpTo(v)) >= rank
  <2> DEFINE f == [i \in 1..rank |-> c[i]]
  <2>1. ASSUME NEW i \in 1..rank PROVE i \in 1..n /\ c[i] \in UpTo(v)
    <3>0. i \in 1..n
      BY <1>1
    <3>1. i \in 1..n /\ c[i] \in 1..n /\ t[c[i]] \in Nat
      BY <1>2, <3>0
    <3>2. i = rank \/ i < rank
      BY <1>1
    <3>3. t[c[i]] <= v
      <4>1. CASE i = rank
        BY <3>1, <4>1
      <4>2. CASE i < rank
        BY <1>1, <3>1, <4>2, ZenonT(60)
      <4> QED
        BY <3>2, <4>1, <4>2
    <3> QED
      BY <3>1, <3>3
  <2>2. f \in Injection(1..rank, UpTo(v))
    <3> HIDE DEF UpTo, v
    <3>1. f \in [1..rank -> UpTo(v)]
      BY <2>1
    <3>2. \A i, j \in 1..rank : f[i] = f[j] => i = j
      BY <2>1
    <3> QED
      BY <3>1, <3>2 DEF Injection, IsInjective
  <2>3. IsFiniteSet(UpTo(v))
    <3> HIDE DEF UpTo, v
    <3> QED
      BY <1>6
  <2>4. Cardinality(1..rank) = rank
    BY <1>1, FS_Interval
  <2> HIDE DEF f, UpTo, v
  <2>5. Cardinality(1..rank) <= Cardinality(UpTo(v))
    BY <2>2, <2>3, FS_Injection
  <2> QED
    BY <2>4, <2>5, <1>1, <1>6
<1>8. ASSUME NEW x \in Nat, x < v PROVE Cardinality(UpTo(x)) <= rank - 1
  <2> DEFINE l == rank - 1
  <2>1. c \in Surjection(1..n, 1..n)
    <3>1. c \in Injection(1..n, 1..n)
      BY <1>0, OrderInjects
    <3> QED
      BY <1>5, <3>1, FS_Injection
  <2>2. ASSUME NEW i \in UpTo(x) PROVE \E j \in 1..l : c[j] = i
    <3>1. i \in 1..n /\ t[i] <= x /\ t[i] \in Nat
      BY <1>2
    <3>2. PICK j \in 1..n : c[j] = i
      BY <2>1, <3>1 DEF Surjection
    <3>3. j < rank
      <4> SUFFICES ASSUME ~(j < rank) PROVE FALSE
        OBVIOUS
      <4>1. v <= t[i]
        <5>1. CASE j = rank
          BY <1>4, <3>2, <5>1
        <5>2. CASE rank < j
          BY <1>1, <3>2, <5>2, ZenonT(60)
        <5> QED
          BY <1>1, <5>1, <5>2
      <4> HIDE DEF v
      <4> QED
        BY <1>4, <1>8, <3>1, <4>1
    <3> QED
      BY <1>1, <3>2, <3>3
  <2>3. l \in Nat /\ l = rank - 1
    BY <1>1
  <2> HIDE DEF l, UpTo
  <2>4. IsFiniteSet(1..l) /\ Cardinality(1..l) = l
    BY <2>3, FS_Interval
  <2>5. PICK g : g \in Injection(UpTo(x), 1..l)
    <3> DEFINE S == UpTo(x)
               T == 1..l
    <3>1. Covers(c, T, S)
      BY <2>2 DEF Covers
    <3> HIDE DEF S, T
    <3>2. \E g : g \in Injection(S, T)
      BY <3>1, Preimages
    <3> QED
      BY <3>2 DEF S, T
  <2>6. Cardinality(UpTo(x)) <= Cardinality(1..l)
    BY <2>4, <2>5, FS_Injection
  <2> QED
    BY <2>3, <2>4, <2>6
<1>9. v \in ToSet(t)
  <2>1. c[rank] \in DOMAIN t
    BY <1>2, <1>4
  <2> QED
    BY <2>1, ToSetFacts, SMTT(60)
<1>10. Cardinality(UpTo(v)) * 100 >= percent * n
  <2> HIDE DEF UpTo, v
  <2> QED
    BY <1>1, <1>6, <1>7
<1>11. ASSUME NEW x \in ToSet(t), x < v PROVE Cardinality(UpTo(x)) * 100 < percent * n
  <2>1. x \in Nat
    BY <1>2 DEF ToSet
  <2>2. Cardinality(UpTo(x)) <= rank - 1
    BY <1>8, <1>11, <2>1, SMTT(60)
  <2> HIDE DEF UpTo
  <2>3. Cardinality(UpTo(x)) \in Nat
    BY <1>6, ZenonT(60)
  <2> QED
    BY <1>1, <2>2, <2>3
<1> HIDE DEF v
<1>12. IsPercentile(v, t, percent)
  BY <1>2, <1>9, <1>10, <1>11 DEF IsPercentile
<1> QED
  BY <1>3, <1>12

\* There is only one percentile.
LEMMA OnePercentile ==
  ASSUME NEW n \in Nat, NEW t \in [1..n -> Nat], NEW percent \in {50, 95}, NEW v, NEW w,
         IsPercentile(v, t, percent), IsPercentile(w, t, percent)
  PROVE  v = w
<1> DEFINE UpTo(x) == Cardinality({i \in 1..n : t[i] <= x})
<1>1. DOMAIN t = 1..n /\ Len(t) = n /\ IsFiniteSet(1..n)
  BY FS_Interval
<1>2. \A x : UpTo(x) \in Nat
  <2> TAKE x
  <2> DEFINE S == {i \in 1..n : t[i] <= x}
  <2>1. S \in SUBSET (1..n)
    OBVIOUS
  <2> HIDE DEF S
  <2>2. IsFiniteSet(S)
    BY <1>1, <2>1, FS_Subset
  <2>3. Cardinality(S) \in Nat
    BY <2>2, FS_CardinalityType
  <2> QED
    BY <2>3 DEF S
<1>3. /\ v \in ToSet(t) /\ UpTo(v) * 100 >= percent * n
      /\ \A x \in ToSet(t) : x < v => UpTo(x) * 100 < percent * n
  BY <1>1 DEF IsPercentile
<1>4. /\ w \in ToSet(t) /\ UpTo(w) * 100 >= percent * n
      /\ \A x \in ToSet(t) : x < w => UpTo(x) * 100 < percent * n
  BY <1>1 DEF IsPercentile
<1>5. v \in Nat /\ w \in Nat
  BY <1>1, <1>3, <1>4 DEF ToSet
<1> HIDE DEF UpTo
<1>6. ~(v < w) /\ ~(w < v)
  BY <1>2, <1>3, <1>4, <1>5
<1> QED
  BY <1>5, <1>6

-----------------------------------------------------------------------------
(* Telemetry: the rings *)

Windows ==
  [values : [RingSlot -> Nat], size : 0..windowSize, writeIndex : RingSlot, totalCount : Nat,
   totalMs : Nat, minMs : Nat \cup {NoValue}, maxMs : Nat, lastMs : Nat]

\* What a window holds of the whole history s of its samples: the counters, and
\* in the ring the newest ones, those before writeIndex written last.
Counts(w, s) ==
  /\ w.totalCount = Len(s) /\ w.totalMs = Total(s)
  /\ s # <<>> => w.lastMs = s[Len(s)]

Extremes(w, s) ==
  IF s = <<>> THEN w.minMs = NoValue /\ w.maxMs = 0
  ELSE /\ w.minMs \in Nat
       /\ \E i \in 1..Len(s) : s[i] = w.minMs
       /\ \E i \in 1..Len(s) : s[i] = w.maxMs
       /\ \A i \in 1..Len(s) : w.minMs <= s[i] /\ s[i] <= w.maxMs

Ring(w, s) ==
  /\ w.size = IF Len(s) < windowSize THEN Len(s) ELSE windowSize
  /\ Len(s) < windowSize => w.writeIndex = Len(s)
  /\ \A k \in 0..w.size - 1 :
       w.values[k] = s[IF k < w.writeIndex THEN Len(s) - w.writeIndex + k + 1
                       ELSE Len(s) - windowSize - w.writeIndex + k + 1]

TelemetryInv ==
  /\ windows \in [Metric -> Windows] /\ samples \in [Metric -> Seq(Nat)]
  /\ connectionsClosed \in Nat
  /\ \A m \in Metric : /\ Counts(windows[m], samples[m]) /\ Extremes(windows[m], samples[m])
                       /\ Ring(windows[m], samples[m])

\* What an entry becomes, and its history.
LEMMA RecordFields ==
  ASSUME NEW w \in Windows, NEW v \in Nat, NEW next \in RingSlot
  PROVE  LET new == RecordAt(w, v, next)
         IN  /\ new \in Windows
             /\ new.size = IF w.size < windowSize THEN w.size + 1 ELSE w.size
             /\ new.writeIndex = next
             /\ new.totalCount = w.totalCount + 1 /\ new.totalMs = w.totalMs + v
             /\ new.minMs = IF w.minMs = NoValue \/ v < w.minMs THEN v ELSE w.minMs
             /\ new.maxMs = IF v > w.maxMs THEN v ELSE w.maxMs
             /\ new.lastMs = v
             /\ \A i \in RingSlot : new.values[i] = IF i = w.writeIndex THEN v ELSE w.values[i]
<1> USE TelemetryAssumption
<1>1. /\ w.values \in [RingSlot -> Nat] /\ w.size \in 0..windowSize /\ w.writeIndex \in RingSlot
      /\ w.totalCount \in Nat /\ w.totalMs \in Nat /\ w.minMs \in Nat \cup {NoValue}
      /\ w.maxMs \in Nat /\ w.lastMs \in Nat
  BY DEF Windows
<1>2. [i \in RingSlot |-> IF i = w.writeIndex THEN v ELSE w.values[i]] \in [RingSlot -> Nat]
  BY <1>1
<1>3. (IF w.size < windowSize THEN w.size + 1 ELSE w.size) \in 0..windowSize
  BY <1>1
<1>4. /\ (IF w.minMs = NoValue \/ v < w.minMs THEN v ELSE w.minMs) \in Nat \cup {NoValue}
      /\ (IF v > w.maxMs THEN v ELSE w.maxMs) \in Nat
      /\ w.totalCount + 1 \in Nat /\ w.totalMs + v \in Nat
  BY <1>1
<1>5. RecordAt(w, v, next) \in Windows
  BY <1>2, <1>3, <1>4 DEF RecordAt, Windows
<1> QED
  BY <1>5 DEF RecordAt

LEMMA AppendFacts ==
  ASSUME NEW s \in Seq(Nat), NEW v \in Nat
  PROVE  /\ Append(s, v) \in Seq(Nat) /\ Len(Append(s, v)) = Len(s) + 1 /\ Len(s) \in Nat
         /\ \A i \in 1..Len(s) : Append(s, v)[i] = s[i] /\ s[i] \in Nat
         /\ Append(s, v)[Len(s) + 1] = v
         /\ Append(s, v) # <<>>
         /\ s = <<>> <=> Len(s) = 0
<1>1. Append(s, v) # <<>>
  OBVIOUS
<1> QED
  BY <1>1, AppendProperties, LenProperties, EmptySeq

LEMMA CountsKept ==
  ASSUME NEW w \in Windows, NEW s \in Seq(Nat), NEW v \in Nat, NEW next \in RingSlot, Counts(w, s)
  PROVE  Counts(RecordAt(w, v, next), Append(s, v))
<1>1. Total(Append(s, v)) = Total(s) + v
  BY TotalAppend
<1>2. w.totalCount = Len(s) /\ w.totalMs = Total(s)
  BY DEF Counts
<1> QED
  BY <1>1, <1>2, RecordFields, AppendFacts DEF Counts

LEMMA ExtremesKept ==
  ASSUME NEW w \in Windows, NEW s \in Seq(Nat), NEW v \in Nat, NEW next \in RingSlot, Extremes(w, s)
  PROVE  Extremes(RecordAt(w, v, next), Append(s, v))
<1> DEFINE new == RecordAt(w, v, next)
           t == Append(s, v)
           n == Len(s)
<1>1. /\ new.minMs = IF w.minMs = NoValue \/ v < w.minMs THEN v ELSE w.minMs
      /\ new.maxMs = IF v > w.maxMs THEN v ELSE w.maxMs
  BY RecordFields
<1>2. /\ t \in Seq(Nat) /\ Len(t) = n + 1 /\ n \in Nat /\ t # <<>>
      /\ \A i \in 1..n : t[i] = s[i] /\ s[i] \in Nat
      /\ t[n + 1] = v /\ (s = <<>> <=> n = 0)
  BY AppendFacts
<1>3. w.maxMs \in Nat
  BY DEF Windows
<1> HIDE DEF new, t, n
<1>4. CASE s = <<>>
  <2>1. w.minMs = NoValue /\ w.maxMs = 0 /\ n = 0
    BY <1>2, <1>4 DEF Extremes
  <2>2. new.minMs = v /\ new.maxMs = v
    BY <1>1, <2>1
  <2>3. \A i \in 1..Len(t) : t[i] = v
    BY <1>2, <2>1
  <2>4. 1 \in 1..Len(t)
    BY <1>2, <2>1
  <2>5. /\ \A i \in 1..Len(t) : new.minMs <= t[i] /\ t[i] <= new.maxMs
        /\ \E i \in 1..Len(t) : t[i] = new.minMs
        /\ \E i \in 1..Len(t) : t[i] = new.maxMs
    BY <2>2, <2>3, <2>4
  <2> QED
    BY <1>2, <2>2, <2>5 DEF Extremes, new, t
<1>5. CASE s # <<>>
  <2>1. /\ w.minMs \in Nat
        /\ \E i \in 1..n : s[i] = w.minMs
        /\ \E i \in 1..n : s[i] = w.maxMs
        /\ \A i \in 1..n : w.minMs <= s[i] /\ s[i] <= w.maxMs
    BY <1>5 DEF Extremes, n
  <2>2. new.minMs = IF v < w.minMs THEN v ELSE w.minMs
    BY <1>1, <2>1, TelemetryAssumption
  <2>3. new.minMs \in Nat /\ new.minMs <= v /\ new.minMs <= w.minMs
    BY <2>1, <2>2
  <2>4. new.maxMs \in Nat /\ new.maxMs >= v /\ new.maxMs >= w.maxMs
    BY <1>1, <1>3
  <2>5. \A i \in 1..n : i \in 1..n + 1
    BY <1>2
  <2>6. \E i \in 1..n + 1 : t[i] = new.minMs
    <3>1. CASE v < w.minMs
      BY <2>2, <1>2, <3>1
    <3>2. CASE ~(v < w.minMs)
      BY <2>1, <2>2, <2>5, <1>2, <3>2
    <3> QED
      BY <3>1, <3>2
  <2>7. \E i \in 1..n + 1 : t[i] = new.maxMs
    <3>1. CASE v > w.maxMs
      BY <1>1, <1>2, <3>1
    <3>2. CASE ~(v > w.maxMs)
      BY <2>1, <1>1, <2>5, <1>2, <3>2
    <3> QED
      BY <3>1, <3>2
  <2>8. ASSUME NEW i \in 1..n + 1 PROVE new.minMs <= t[i] /\ t[i] <= new.maxMs
    <3>1. CASE i \in 1..n
      <4>1. t[i] \in Nat /\ w.minMs <= t[i] /\ t[i] <= w.maxMs
        BY <1>2, <2>1, <3>1
      <4>2. w.minMs \in Nat
        BY <2>1
      <4> QED
        BY <1>3, <2>3, <2>4, <4>1, <4>2
    <3>2. CASE i = n + 1
      BY <1>2, <2>3, <2>4, <3>2
    <3> QED
      BY <1>2, <3>1, <3>2
  <2> QED
    BY <1>2, <2>3, <2>6, <2>7, <2>8 DEF Extremes, new, t
<1> QED
  BY <1>4, <1>5

LEMMA NextSlot ==
  ASSUME NEW i \in RingSlot
  PROVE  /\ (i + 1) % windowSize \in RingSlot
         /\ (i + 1) % windowSize = IF i + 1 < windowSize THEN i + 1 ELSE 0
<1>1. windowSize \in Nat /\ windowSize > 0 /\ i \in Nat /\ i < windowSize
  BY TelemetryAssumption DEF RingSlot
<1>2. (i + 1) % windowSize = IF i + 1 < windowSize THEN i + 1 ELSE 0
  BY <1>1
<1> QED
  BY <1>1, <1>2 DEF RingSlot

LEMMA RingKept ==
  ASSUME NEW w \in Windows, NEW s \in Seq(Nat), NEW v \in Nat, Ring(w, s)
  PROVE  Ring(RecordAt(w, v, (w.writeIndex + 1) % windowSize), Append(s, v))
<1> DEFINE next == (w.writeIndex + 1) % windowSize
           new == RecordAt(w, v, next)
           t == Append(s, v)
           n == Len(s)
           W == windowSize
           at == w.writeIndex
<1>0. W \in Nat /\ W > 0
  BY TelemetryAssumption
<1>1. at \in Nat /\ at < W /\ at \in RingSlot /\ w.size \in 0..W
  BY <1>0 DEF Windows, RingSlot
<1>2. next \in RingSlot /\ next = IF at + 1 < W THEN at + 1 ELSE 0
  BY <1>1, NextSlot
<1>3. /\ new.size = IF w.size < W THEN w.size + 1 ELSE w.size
      /\ new.writeIndex = next
      /\ \A i \in RingSlot : new.values[i] = IF i = at THEN v ELSE w.values[i]
  <2> HIDE DEF next
  <2> QED
    BY DEF RecordAt
<1>4. /\ Len(t) = n + 1 /\ n \in Nat /\ \A i \in 1..n : t[i] = s[i]
      /\ t[n + 1] = v
  BY AppendFacts
<1>5. /\ w.size = IF n < W THEN n ELSE W
      /\ n < W => at = n
      /\ \A k \in 0..w.size - 1 : w.values[k] = s[IF k < at THEN n - at + k + 1 ELSE n - W - at + k + 1]
  BY DEF Ring
<1>6. \A k \in Nat : k \in RingSlot <=> k < W
  BY <1>0 DEF RingSlot
<1> HIDE DEF next, new, t, n, W, at
<1>7. new.size = IF n + 1 < W THEN n + 1 ELSE W
  BY <1>0, <1>3, <1>4, <1>5
<1>8. n + 1 < W => next = n + 1
  BY <1>0, <1>1, <1>2, <1>4, <1>5
<1>9. ASSUME NEW k \in 0..new.size - 1
      PROVE  new.values[k] = t[IF k < next THEN (n + 1) - next + k + 1 ELSE (n + 1) - W - next + k + 1]
  <2> DEFINE x == IF k < next THEN (n + 1) - next + k + 1 ELSE (n + 1) - W - next + k + 1
  <2>1. k \in Nat /\ k < W /\ k < new.size /\ next \in Nat
    BY <1>0, <1>1, <1>2, <1>4, <1>7
  <2>2. new.values[k] = IF k = at THEN v ELSE w.values[k]
    BY <1>3, <1>6, <2>1
  <2>3. CASE k = at
    <3>1. x = n + 1
      BY <1>0, <1>1, <1>2, <1>4, <1>5, <2>1, <2>3
    <3> QED
      BY <1>4, <2>2, <2>3, <3>1
  <2>4. CASE k # at
    <3>1. k \in 0..w.size - 1
      BY <1>0, <1>1, <1>4, <1>5, <1>7, <2>1, <2>4
    <3>2. x = IF k < at THEN n - at + k + 1 ELSE n - W - at + k + 1
      BY <1>0, <1>1, <1>2, <1>4, <1>5, <2>1, <2>4, <3>1
    <3>3. x \in 1..n
      BY <1>0, <1>1, <1>4, <1>5, <2>1, <2>4, <3>1, <3>2, SMTT(60)
    <3>4. w.values[k] = s[x]
      BY <1>5, <3>1, <3>2
    <3> HIDE DEF x
    <3> QED
      BY <1>4, <2>2, <2>4, <3>3, <3>4 DEF x
  <2> QED
    BY <2>3, <2>4
<1> QED
  BY <1>3, <1>4, <1>7, <1>8, <1>9 DEF Ring, new, t, next, W

\* The ring, sorted, has at the nearest rank the percentile of the newest
\* samples: it holds them rotated, so that sorting it sorts them.
LEMMA RingPercentile ==
  ASSUME NEW w \in Windows, NEW s \in Seq(Nat), s # <<>>, Ring(w, s), NEW percent \in {50, 95}
  PROVE  LET n == Len(s)
             newest == SubSeq(s, IF n > windowSize THEN n - windowSize + 1 ELSE 1, n)
         IN  /\ newest \in [1..w.size -> Nat] /\ w.size \in Nat \ {0}
             /\ IsPercentile(percentile(Ascending([i \in 1..w.size |-> w.values[i - 1]]), percent),
                             newest, percent)
<1> DEFINE n == Len(s)
           W == windowSize
           z == w.size
           at == w.writeIndex
           t == SubSeq(s, IF n > W THEN n - W + 1 ELSE 1, n)
           r == [i \in 1..z |-> w.values[i - 1]]
           b(i) == IF i <= at THEN z - at + i ELSE i - at
<1>0. W \in Nat /\ W > 0
  BY TelemetryAssumption
<1>1. /\ at \in Nat /\ at < W /\ w.values \in [RingSlot -> Nat]
      /\ n \in Nat /\ n > 0 /\ \A i \in 1..n : s[i] \in Nat
  <2>1. at \in Nat /\ at < W /\ w.values \in [RingSlot -> Nat]
    BY <1>0 DEF Windows, RingSlot
  <2>2. n \in Nat /\ n > 0 /\ \A i \in 1..n : s[i] \in Nat
    BY EmptySeq, LenProperties
  <2> QED
    BY <2>1, <2>2
<1>2. /\ z = IF n < W THEN n ELSE W
      /\ n < W => at = n
      /\ \A k \in 0..z - 1 : w.values[k] = s[IF k < at THEN n - at + k + 1 ELSE n - W - at + k + 1]
  BY DEF Ring
<1> HIDE DEF W, at, z
<1>3. z \in Nat \ {0} /\ z <= W /\ z <= n /\ at <= z
  BY <1>0, <1>1, <1>2
<1> HIDE DEF n
<1>4. /\ t \in [1..z -> Nat]
      /\ \A j \in 1..z : t[j] = s[n - z + j]
  <2> DEFINE from == IF n > W THEN n - W + 1 ELSE 1
  <2>1. from = n - z + 1 /\ from \in 1..n
    BY <1>0, <1>1, <1>2, <1>3
  <2>2. t = SubSeq(s, from, n)
    OBVIOUS
  <2> HIDE DEF from, t
  <2>3. \A i \in from..n : s[i] \in Nat
    BY <1>1, <2>1
  <2>4. /\ t \in Seq(Nat) /\ Len(t) = n - from + 1
        /\ \A i \in 1..n - from + 1 : t[i] = s[from + i - 1]
    <3>1. from \in Int /\ n \in Int /\ from <= n
      BY <1>1, <2>1
    <3> QED
      BY <2>2, <2>3, <3>1, SubSeqProperties
  <2>5. n - from + 1 = z /\ \A i \in 1..z : from + i - 1 = n - z + i
    BY <1>1, <1>3, <2>1
  <2>6. t \in [1..z -> Nat]
    BY <2>4, <2>5, LenProperties
  <2> QED
    BY <2>4, <2>5, <2>6
<1> HIDE DEF t
<1>5. r \in [1..z -> Nat]
  <2>1. \A i \in 1..z : i - 1 \in RingSlot
    BY <1>0, <1>3 DEF RingSlot, W
  <2>2. \A i \in 1..z : w.values[i - 1] \in Nat
    BY <1>1, <2>1
  <2> QED
    BY <2>2
<1>6. ASSUME NEW i \in 1..z PROVE b(i) \in 1..z /\ r[i] = t[b(i)]
  <2>1. b(i) \in 1..z
    BY <1>0, <1>1, <1>2, <1>3
  <2>2. i - 1 \in 0..z - 1
    BY <1>3
  <2>3. r[i] = s[IF i - 1 < at THEN n - at + (i - 1) + 1 ELSE n - W - at + (i - 1) + 1]
    BY <1>2, <2>2
  <2>4. n - z + b(i) = IF i - 1 < at THEN n - at + (i - 1) + 1 ELSE n - W - at + (i - 1) + 1
    BY <1>0, <1>1, <1>2, <1>3
  <2>5. t[b(i)] = s[n - z + b(i)]
    BY <1>4, <2>1
  <2> HIDE DEF b, r
  <2> QED
    BY <2>1, <2>3, <2>4, <2>5
<1>7. \A i, j \in 1..z : b(i) = b(j) => i = j
  BY <1>1, <1>3
<1> HIDE DEF b, r
<1>8. PICK p : Sorts(p, z, r) /\ Ascending(r) = [i \in 1..z |-> r[p[i]]]
  BY <1>3, <1>5, AscendingFacts
<1>9. /\ \A i \in 1..z : p[i] \in 1..z
      /\ \A i, j \in 1..z : p[i] = p[j] => i = j
      /\ \A i, j \in 1..z : i < j => r[p[i]] <= r[p[j]]
  BY <1>8 DEF Sorts
<1> DEFINE c == [i \in 1..z |-> b(p[i])]
<1>10. /\ c \in [1..z -> 1..z] /\ \A i \in 1..z : t[c[i]] = r[p[i]]
       /\ \A i, j \in 1..z : c[i] = c[j] => i = j
  BY <1>6, <1>7, <1>9, SMTT(60)
<1> HIDE DEF c
<1>11. Ascending(r) = [i \in 1..z |-> t[c[i]]]
  BY <1>8, <1>10
<1>12. \A i, j \in 1..z : i < j => t[c[i]] <= t[c[j]]
  BY <1>9, <1>10
<1>13. Sorts(c, z, t)
  BY <1>10, <1>12 DEF Sorts
<1>14. IsPercentile(percentile(Ascending(r), percent), t, percent)
  <2>1. z \in Nat \ {0} /\ t \in [1..z -> Nat]
    BY <1>3, <1>4
  <2>2. SortsTo(c, z, t, Ascending(r))
    BY <1>11, <1>13 DEF SortsTo
  <2> QED
    BY <2>1, <2>2, NearestRank
<1> QED
  BY <1>3, <1>4, <1>14 DEF t, r, n, W, z

\* roundMetric of the average is within half a hundredth of it.
LEMMA AverageFacts ==
  ASSUME NEW total \in Nat, NEW n \in Nat \ {0}
  PROVE  LET off == roundedAverage(total, n) * n - 100 * total
         IN  2 * off <= n /\ 2 * off >= -n
<1> DEFINE a == 200 * total + n
           d == 2 * n
           q == a \div d
<1>1. a \in Nat /\ d \in Nat /\ d > 0
  OBVIOUS
<1>2. q \in Nat /\ d * q <= a /\ a < d * q + d
  <2> HIDE DEF a, d
  <2> QED
    BY <1>1
<1>3. roundedAverage(total, n) = q
  BY DEF roundedAverage
<1> HIDE DEF q
<1>4. d * q = 2 * (q * n)
  BY <1>2
<1>5. 2 * (q * n - 100 * total) <= n /\ 2 * (q * n - 100 * total) >= -n
  BY <1>2, <1>4
<1> QED
  BY <1>3, <1>5

-----------------------------------------------------------------------------
(* Telemetry: the theorems *)

LEMMA TelemetryInitInv == TelemetryInit => TelemetryInv
<1> SUFFICES ASSUME TelemetryInit PROVE TelemetryInv
  OBVIOUS
<1> USE TelemetryAssumption
<1>1. 0 \in RingSlot /\ 0 \in 0..windowSize /\ 0 < windowSize
  BY DEF RingSlot
<1>2. createLatencyWindow \in Windows
  BY <1>1 DEF createLatencyWindow, Windows
<1>3. <<>> \in Seq(Nat) /\ Len(<<>>) = 0
  OBVIOUS
<1>4. Counts(createLatencyWindow, <<>>) /\ Extremes(createLatencyWindow, <<>>)
  BY <1>3, TotalEmpty DEF createLatencyWindow, Counts, Extremes
<1>5. Ring(createLatencyWindow, <<>>)
  BY <1>1, <1>3 DEF createLatencyWindow, Ring
<1> QED
  BY <1>2, <1>3, <1>4, <1>5 DEF TelemetryInit, TelemetryInv

LEMMA TelemetryNextInv == TelemetryInv /\ [TelemetryNext]_telemetryVars => TelemetryInv'
<1> SUFFICES ASSUME TelemetryInv, [TelemetryNext]_telemetryVars PROVE TelemetryInv'
  OBVIOUS
<1>1. CASE recordConnectionClosed \/ UNCHANGED telemetryVars
  BY <1>1 DEF recordConnectionClosed, telemetryVars, TelemetryInv
<1>2. ASSUME NEW m \in Metric, Record(m) PROVE TelemetryInv'
  <2>1. PICK ms \in Latency[m] :
          /\ windows' = [windows EXCEPT ![m] = recordLatency(windows[m], ms)]
          /\ samples' = [samples EXCEPT ![m] = Append(samples[m], sanitizeLatency(ms))]
          /\ connectionsClosed' = connectionsClosed
    BY <1>2 DEF Record
  <2> DEFINE w == windows[m]
             s == samples[m]
             v == sanitizeLatency(ms)
             next == (w.writeIndex + 1) % windowSize
             new == RecordAt(w, v, next)
             t == Append(s, v)
  <2>2. v \in Nat
    BY TelemetryAssumption DEF sanitizeLatency
  <2>3. /\ w \in Windows /\ s \in Seq(Nat)
        /\ Counts(w, s) /\ Extremes(w, s) /\ Ring(w, s)
    BY DEF TelemetryInv
  <2>4. next \in RingSlot
    <3>1. w.writeIndex \in RingSlot
      BY <2>3 DEF Windows
    <3> QED
      BY <3>1, NextSlot
  <2>5. windows' = [windows EXCEPT ![m] = new] /\ samples' = [samples EXCEPT ![m] = t]
    BY <2>1 DEF recordLatency
  <2> HIDE DEF w, s, v
  <2>6. Ring(new, t)
    BY <2>2, <2>3, RingKept
  <2> HIDE DEF next
  <2>7. new \in Windows /\ t \in Seq(Nat)
    BY <2>2, <2>3, <2>4, RecordFields, AppendFacts
  <2>8. Counts(new, t) /\ Extremes(new, t)
    BY <2>2, <2>3, <2>4, CountsKept, ExtremesKept
  <2> HIDE DEF new, t
  <2>9. windows' \in [Metric -> Windows] /\ samples' \in [Metric -> Seq(Nat)]
    BY <2>5, <2>7 DEF TelemetryInv
  <2>10. ASSUME NEW x \in Metric
         PROVE  /\ Counts(windows'[x], samples'[x]) /\ Extremes(windows'[x], samples'[x])
                /\ Ring(windows'[x], samples'[x])
    <3>1. CASE x = m
      <4>1. windows'[x] = new /\ samples'[x] = t
        BY <2>5, <3>1 DEF TelemetryInv
      <4> QED
        BY <2>6, <2>8, <4>1
    <3>2. CASE x # m
      <4>1. windows'[x] = windows[x] /\ samples'[x] = samples[x]
        BY <2>5, <3>2 DEF TelemetryInv
      <4> QED
        BY <4>1 DEF TelemetryInv
    <3> QED
      BY <3>1, <3>2
  <2> QED
    BY <2>1, <2>9, <2>10 DEF TelemetryInv
<1> QED
  BY <1>1, <1>2 DEF TelemetryNext

\* In every reachable state each ring holds the newest samples of its
\* operation, rotated, and its counters describe all of them.
THEOREM TelemetryInvariant == TelemetrySpec => []TelemetryInv
BY TelemetryInitInv, TelemetryNextInv, PTL DEF TelemetrySpec

LEMMA SnapshotFacts ==
  ASSUME TelemetryInv, NEW m \in Metric, samples[m] # <<>>
  PROVE  LET snap == snapshotLatency(windows[m])
         IN  /\ IsPercentile(snap.p50Ms, Recent(m), 50) /\ IsPercentile(snap.p95Ms, Recent(m), 95)
             /\ snap.count = Len(samples[m]) /\ snap.lastMs = Last(samples[m])
             /\ snap.minMs = windows[m].minMs /\ snap.maxMs = windows[m].maxMs
             /\ snap.avg = roundedAverage(Total(samples[m]), Len(samples[m]))
             /\ Recent(m) \in [1..windows[m].size -> Nat] /\ windows[m].size \in Nat
<1> DEFINE w == windows[m]
           s == samples[m]
           snap == snapshotLatency(w)
           recent == Ascending([i \in 1..w.size |-> w.values[i - 1]])
<1>1. /\ w \in Windows /\ s \in Seq(Nat) /\ s # <<>>
      /\ Counts(w, s) /\ Ring(w, s)
  BY DEF TelemetryInv
<1>2. w.totalCount = Len(s) /\ w.totalMs = Total(s) /\ w.lastMs = s[Len(s)] /\ Len(s) # 0
  BY <1>1, EmptySeq DEF Counts
<1>3. /\ snap.count = w.totalCount /\ snap.lastMs = w.lastMs
      /\ snap.minMs = w.minMs /\ snap.maxMs = w.maxMs
      /\ snap.avg = roundedAverage(w.totalMs, w.totalCount)
      /\ snap.p50Ms = percentile(recent, 50) /\ snap.p95Ms = percentile(recent, 95)
  <2> HIDE DEF w, s
  <2> QED
    BY <1>2 DEF snapshotLatency
<1>4. Recent(m) = SubSeq(s, IF Len(s) > windowSize THEN Len(s) - windowSize + 1 ELSE 1, Len(s))
  BY DEF Recent
<1>5. Last(s) = s[Len(s)]
  BY DEF Last
<1>6. /\ IsPercentile(percentile(recent, 50), Recent(m), 50)
      /\ IsPercentile(percentile(recent, 95), Recent(m), 95)
      /\ Recent(m) \in [1..w.size -> Nat] /\ w.size \in Nat
  <2> HIDE DEF w, s
  <2> QED
    BY <1>1, <1>4, RingPercentile
<1> HIDE DEF recent, snap
<1> QED
  BY <1>2, <1>3, <1>5, <1>6 DEF snap

\* snapshotLatency is exact however often recordLatency has wrapped the ring:
\* percentiles of the last windowSize samples, count, last, extremes and
\* average of all.
THEOREM TelemetrySnapshotExact == TelemetrySpec => []SnapshotExact
<1>1. TelemetryInv => SnapshotExact
  <2> SUFFICES ASSUME TelemetryInv, NEW m \in Metric, samples[m] # <<>>
               PROVE  LET snap == snapshotLatency(windows[m])
                          all == ToSet(samples[m])
                      IN  /\ IsPercentile(snap.p50Ms, Recent(m), 50)
                          /\ IsPercentile(snap.p95Ms, Recent(m), 95)
                          /\ snap.count = Len(samples[m]) /\ snap.lastMs = Last(samples[m])
                          /\ snap.minMs \in all /\ snap.maxMs \in all
                          /\ \A x \in all : snap.minMs <= x /\ x <= snap.maxMs
                          /\ LET off == snap.avg * Len(samples[m]) - 100 * Total(samples[m])
                             IN  2 * off <= Len(samples[m]) /\ 2 * off >= -Len(samples[m])
    BY Zenon DEF SnapshotExact
  <2> DEFINE w == windows[m]
             s == samples[m]
             snap == snapshotLatency(w)
             all == ToSet(s)
             off == roundedAverage(Total(s), Len(s)) * Len(s) - 100 * Total(s)
  <2>1. s \in Seq(Nat) /\ Extremes(w, s) /\ s # <<>>
    BY DEF TelemetryInv
  <2>2. DOMAIN s = 1..Len(s) /\ Len(s) \in Nat \ {0} /\ Total(s) \in Nat
    BY <2>1, EmptySeq, LenProperties, TotalAppend
  <2>3. /\ \E i \in 1..Len(s) : s[i] = w.minMs
        /\ \E i \in 1..Len(s) : s[i] = w.maxMs
        /\ \A i \in 1..Len(s) : w.minMs <= s[i] /\ s[i] <= w.maxMs
    BY <2>1 DEF Extremes
  <2>4. w.minMs \in all /\ w.maxMs \in all /\ \A x \in all : w.minMs <= x /\ x <= w.maxMs
    <3> HIDE DEF w, s
    <3> QED
      BY <2>2, <2>3 DEF ToSet
  <2>5. 2 * off <= Len(s) /\ 2 * off >= -Len(s)
    <3> HIDE DEF s
    <3> QED
      BY <2>2, AverageFacts
  <2>6. /\ IsPercentile(snap.p50Ms, Recent(m), 50) /\ IsPercentile(snap.p95Ms, Recent(m), 95)
        /\ snap.count = Len(s) /\ snap.lastMs = Last(s)
        /\ snap.minMs = w.minMs /\ snap.maxMs = w.maxMs
        /\ snap.avg = roundedAverage(Total(s), Len(s))
    BY SnapshotFacts
  <2> HIDE DEF all, snap, off
  <2>7. /\ snap.minMs \in all /\ snap.maxMs \in all
        /\ \A x \in all : snap.minMs <= x /\ x <= snap.maxMs
    BY <2>4, <2>6
  <2>8. snap.avg * Len(s) - 100 * Total(s) = off
    BY <2>6 DEF off
  <2> QED
    BY <2>5, <2>6, <2>7, <2>8 DEF all, snap
<1> QED
  BY <1>1, TelemetryInvariant, PTL

\* The 95th percentile that snapshotLatency reports is over a limit exactly
\* when the recent samples are.
LEMMA LatencyFacts ==
  ASSUME TelemetryInv, NEW m \in Metric, NEW limit \in Nat
  PROVE  LET p95 == snapshotLatency(windows[m]).p95Ms
         IN  (p95 # NoValue /\ p95 > limit) <=> Over(m, limit)
<1> DEFINE p95 == snapshotLatency(windows[m]).p95Ms
<1>1. CASE samples[m] = <<>>
  <2>1. Len(samples[m]) = 0 /\ windows[m].totalCount = 0
    BY <1>1 DEF TelemetryInv, Counts
  <2>2. p95 = NoValue
    BY <2>1 DEF snapshotLatency
  <2>3. Recent(m) = <<>>
    <3>1. ~(0 > windowSize) /\ Recent(m) = SubSeq(<<>>, 1, 0)
      BY <1>1, <2>1, TelemetryAssumption DEF Recent
    <3> QED
      BY <3>1, SubSeqEmpty
  <2>4. ToSet(Recent(m)) = {}
    BY <2>3 DEF ToSet
  <2>5. ~Over(m, limit)
    BY <2>4 DEF Over
  <2> QED
    BY <2>2, <2>5
<1>2. CASE samples[m] # <<>>
  <2> DEFINE t == Recent(m)
             n == windows[m].size
  <2>1. n \in Nat /\ t \in [1..n -> Nat] /\ IsPercentile(p95, t, 95)
    BY <1>2, SnapshotFacts
  <2> HIDE DEF p95, t, n
  <2>2. p95 \in ToSet(t)
    BY <2>1 DEF IsPercentile
  <2>3. p95 \in Nat /\ p95 # NoValue
    <3>1. p95 \in Nat
      BY <2>1, <2>2 DEF ToSet
    <3> QED
      BY <3>1, TelemetryAssumption
  <2>4. ASSUME NEW v \in ToSet(t), IsPercentile(v, t, 95) PROVE v = p95
    BY <2>1, <2>4, OnePercentile
  <2>5. (\E v \in ToSet(t) : v > limit /\ IsPercentile(v, t, 95)) <=> p95 > limit
    BY <2>1, <2>2, <2>4
  <2>6. Over(m, limit) <=> p95 > limit
    BY <2>5 DEF Over, t
  <2> QED
    BY <2>3, <2>6 DEF p95
<1> QED
  BY <1>1, <1>2

\* The status /health derives by buildBridgeStatusSnapshot follows the recent
\* latencies both ways: it fails exactly while one of them is over its limit,
\* and clients without any first output are never reported as ok.
THEOREM TelemetryFailsWhileSlow == TelemetrySpec => []FailsWhileSlow
<1>1. TelemetryInv => FailsWhileSlow
  <2> SUFFICES ASSUME TelemetryInv PROVE FailsWhileSlow
    OBVIOUS
  <2> DEFINE p(m) == snapshotLatency(windows[m]).p95Ms
             transport == deriveLatencySeverity(p("connect"), 500, 1000)
             replay == deriveLatencySeverity(p("streamLag"), 200, 500)
             safety == deriveLatencySeverity(p("inputAck"), 250, 500)
             runtime == IF activeClients > 0 /\ counters["attach"] = 0 THEN "warn" ELSE "ok"
             observability == IF counters["streamLag"] = 0 /\ activeClients > 0 THEN "warn" ELSE "ok"
             overall == getSafeSnapshot.status.overall
  <2>1. "connect" \in Metric /\ "streamLag" \in Metric /\ "inputAck" \in Metric
    BY DEF Metric
  <2>2. overall = maxSeverity({transport, runtime, replay, safety, observability})
    <3> DEFINE layers == [transport |-> transport, runtime |-> runtime, replay |-> replay,
                          safety |-> safety, observability |-> observability]
    <3>1. overall = maxSeverity({layers[l] : l \in DOMAIN layers})
      <4> DEFINE latencies == [m \in Metric |-> snapshotLatency(windows[m])]
                 P == [m \in Metric |-> latencies[m].p95Ms]
      <4>1. \A m \in Metric : P[m] = p(m)
        OBVIOUS
      <4>2. getSafeSnapshot.status
              = buildBridgeStatusSnapshot(activeClients, P, counters["attach"], counters["streamLag"])
        <5> HIDE DEF latencies
        <5> QED
          BY DEF getSafeSnapshot, latencies
      <4> HIDE DEF P, latencies
      <4>3. buildBridgeStatusSnapshot(activeClients, P, counters["attach"],
                                      counters["streamLag"]).overall
              = maxSeverity({layers[l] : l \in DOMAIN layers})
        <5>1. P["connect"] = p("connect") /\ P["streamLag"] = p("streamLag") /\ P["inputAck"] = p("inputAck")
          BY <2>1, <4>1
        <5> HIDE DEF p
        <5> QED
          BY <5>1 DEF buildBridgeStatusSnapshot
      <4> QED
        BY <4>2, <4>3
    <3> HIDE DEF transport, runtime, replay, safety, observability
    <3>2. {layers[l] : l \in DOMAIN layers}
            = {transport, runtime, replay, safety, observability}
      OBVIOUS
    <3> QED
      BY <3>1, <3>2
  <2>3. ASSUME NEW p95, NEW warnAt, NEW failAt
        PROVE  deriveLatencySeverity(p95, warnAt, failAt) = "fail" <=> p95 # NoValue /\ p95 > failAt
    BY DEF deriveLatencySeverity
  <2>4. /\ transport = "fail" <=> Over("connect", 1000)
        /\ replay = "fail" <=> Over("streamLag", 500)
        /\ safety = "fail" <=> Over("inputAck", 500)
    BY <2>1, <2>3, LatencyFacts
  <2>5. runtime # "fail" /\ observability # "fail"
    OBVIOUS
  <2>6. samples["streamLag"] = <<>> /\ activeClients > 0 => observability = "warn"
    <3> SUFFICES ASSUME samples["streamLag"] = <<>>, activeClients > 0
                 PROVE  observability = "warn"
      OBVIOUS
    <3>1. Len(samples["streamLag"]) = 0
      OBVIOUS
    <3>2. counters["streamLag"] = 0
      BY <2>1, <3>1 DEF TelemetryInv, Counts, counters
    <3> QED
      BY <3>2
  <2> HIDE DEF transport, runtime, replay, safety, observability, overall
  <2> DEFINE all == {transport, runtime, replay, safety, observability}
  <2>7. /\ maxSeverity(all) = "fail" <=> "fail" \in all
        /\ "warn" \in all => maxSeverity(all) # "ok"
    <3> HIDE DEF all
    <3> QED
      BY DEF maxSeverity
  <2>8. "fail" \in all <=> transport = "fail" \/ replay = "fail" \/ safety = "fail"
    BY <2>5
  <2>9. observability = "warn" => "warn" \in all
    OBVIOUS
  <2>10. overall = maxSeverity(all)
    BY <2>2
  <2> HIDE DEF all
  <2>11. overall = "fail" <=> Over("connect", 1000) \/ Over("streamLag", 500) \/ Over("inputAck", 500)
    BY <2>4, <2>7, <2>8, <2>10
  <2>12. samples["streamLag"] = <<>> /\ activeClients > 0 => overall # "ok"
    BY <2>6, <2>7, <2>9, <2>10
  <2> QED
    BY <2>11, <2>12 DEF FailsWhileSlow, overall
<1> QED
  BY <1>1, TelemetryInvariant, PTL
============================================================================
