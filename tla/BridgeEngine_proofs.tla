------------------------- MODULE BridgeEngine_proofs -------------------------
(***************************************************************************)
(* The engine's safety properties for every number of connections, panes   *)
(* and watchers, every history size and every pane content.                *)
(***************************************************************************)
EXTENDS BridgeEngine, SequenceTheorems, TLAPS

-----------------------------------------------------------------------------
(* Types of the helpers *)

\* A pushed event is in the history, whether or not the oldest one left it.
LEMMA PushHistoryType ==
  ASSUME NEW h \in Seq(Event), NEW e \in Event
  PROVE  PushHistory(h, e) \in Seq(Event)
  <1>1. Append(h, e) \in Seq(Event) /\ Append(h, e) # << >>
    BY AppendProperties
  <1>2. Tail(Append(h, e)) \in Seq(Event)
    BY <1>1, HeadTailProperties
  <1> QED BY <1>1, <1>2 DEF PushHistory

\* Chunks of deltas and snapshots are lines.
LEMMA DeltaType ==
  ASSUME NEW s \in Seq(Line), NEW t \in Seq(Line)
  PROVE  deltaMode(s, t) \in Mode /\ deltaChunk(s, t) \in Seq(Line)
  <1>1. ASSUME StartsWith(t, s) PROVE SubSeq(t, Len(s) + 1, Len(t)) \in Seq(Line)
    <2>1. Len(s) \in Nat /\ Len(t) \in Nat
      BY LenProperties
    <2>2. \A i \in (Len(s) + 1)..Len(t) : t[i] \in Line
      BY <2>1, ElementOfSeq
    <2> QED BY <2>1, <2>2, SubSeqProperties
  <1> QED BY <1>1 DEF deltaMode, deltaChunk, Mode

LEMMA ApplyType ==
  ASSUME NEW v \in View, NEW e \in Event
  PROVE  Apply(v, e) \in View
  <1>1. /\ e.mode \in Mode /\ e.chunk \in Seq(Line) /\ e.seq \in Nat /\ e.w \in Watcher
        /\ e.w \in 0..MaxWatchers
    BY EngineAssumption DEF Event, Watcher
  <1>2. /\ v.w \in 0..MaxWatchers /\ v.seq \in Nat /\ v.text \in Seq(Line)
        /\ v.gap \in BOOLEAN /\ v.clean \in BOOLEAN
    BY DEF View
  <1>3. v.text \o e.chunk \in Seq(Line)
    BY <1>1, <1>2, ConcatProperties
  <1>4. [v EXCEPT !.gap = @ \/ e.seq > v.seq + 1] \in View
    BY <1>1, <1>2 DEF View
  <1> QED BY <1>1, <1>2, <1>3, <1>4 DEF Apply, View

\* What Emit does to the state is well typed.
LEMMA EmitType ==
  ASSUME TypeOK, NEW w \in Watcher, NEW p \in Pane, NEW mode \in Mode,
         NEW chunk \in Seq(Line), NEW output \in Text, NEW by \in {"poll", "attach"},
         NEW R \in SUBSET Client, Emit(w, p, mode, chunk, output, by, R)
  PROVE  /\ EventOf(w, p, mode, chunk, streamSeq[w] + 1) \in Event
         /\ lastOutput' \in [Watcher -> Text]
         /\ streamSeq' \in [Watcher -> Nat]
         /\ history' \in [Watcher -> Seq(Event)]
         /\ wire' \in [Client -> Seq(Event)]
         /\ log' \in [Watcher -> Seq(LogEntry)]
  <1> DEFINE event == EventOf(w, p, mode, chunk, streamSeq[w] + 1)
  <1>1. event \in Event
    BY DEF TypeOK, EventOf, Event
  <1> DEFINE entry == [event |-> event, text |-> output, by |-> by]
  <1>2. entry \in LogEntry
    BY <1>1 DEF LogEntry
  <1>3. /\ lastOutput' = [lastOutput EXCEPT ![w] = output]
        /\ streamSeq' = [streamSeq EXCEPT ![w] = @ + 1]
        /\ history' = [history EXCEPT ![w] = PushHistory(history[w], event)]
        /\ log' = [log EXCEPT ![w] = Append(log[w], entry)]
        /\ wire' = [c \in Client |-> IF c \in R THEN Append(wire[c], event) ELSE wire[c]]
    BY DEF Emit
  <1> HIDE DEF event, entry
  <1>4. PushHistory(history[w], event) \in Seq(Event)
    BY <1>1, PushHistoryType DEF TypeOK
  <1>5. Append(log[w], entry) \in Seq(LogEntry)
    BY <1>2, AppendProperties DEF TypeOK
  <1>6. \A c \in Client : wire[c] \in Seq(Event) /\ Append(wire[c], event) \in Seq(Event)
    BY <1>1, AppendProperties DEF TypeOK
  <1> QED BY <1>1, <1>3, <1>4, <1>5, <1>6 DEF TypeOK, event

\* A replay is a suffix of the history.
LEMMA ReplayedType ==
  ASSUME TypeOK, HistoryWindow, NEW w \in Watcher, NEW since \in Nat
  PROVE  /\ Replayed(w, since) \in Seq(Event)
         /\ \E kept \in 0..Len(history[w]) :
              /\ Len(Replayed(w, since)) = Len(history[w]) - kept
              /\ \A i \in 1..(Len(history[w]) - kept) :
                   Replayed(w, since)[i] = history[w][kept + i]
         /\ \A i \in 1..Len(Replayed(w, since)) :
              \E j \in 1..Len(history[w]) : Replayed(w, since)[i] = history[w][j]
  <1> DEFINE h == history[w]
             IsCut(k) == \A i \in 1..Len(h) : (h[i].seq > since) <=> (i > k)
             kept == CHOOSE k \in 0..Len(h) : IsCut(k)
             base == streamSeq[w] - Len(h)
  <1>1. h \in Seq(Event) /\ Len(h) \in Nat /\ streamSeq[w] \in Nat
    BY LenProperties DEF TypeOK
  <1>2. \A i \in 1..Len(h) : h[i].seq = base + i
    BY DEF HistoryWindow
  <1>b. base \in Int
    BY <1>1
  <1> HIDE DEF h, base
  <1>3. \E k \in 0..Len(h) : IsCut(k)
    <2>1. since <= base => IsCut(0)
      BY <1>1, <1>2, <1>b
    <2>2. since > base /\ since - base <= Len(h) => IsCut(since - base)
      <3> SUFFICES ASSUME since > base, since - base <= Len(h), NEW i \in 1..Len(h)
                   PROVE  (h[i].seq > since) <=> (i > since - base)
        OBVIOUS
      <3>1. h[i].seq = base + i
        BY <1>2
      <3> QED BY <1>1, <1>b, <3>1
    <2>3. since - base > Len(h) => IsCut(Len(h))
      BY <1>1, <1>2, <1>b
    <2>4. \/ since <= base /\ 0 \in 0..Len(h)
          \/ since > base /\ since - base <= Len(h) /\ since - base \in 0..Len(h)
          \/ since - base > Len(h) /\ Len(h) \in 0..Len(h)
      BY <1>1, <1>b
    <2> HIDE DEF IsCut
    <2> QED BY <2>1, <2>2, <2>3, <2>4
  <1> HIDE DEF IsCut
  <1>4. kept \in 0..Len(h)
    BY <1>3
  <1>5. Replayed(w, since) = SubSeq(h, kept + 1, Len(h))
    BY DEF Replayed, IsCut, h
  <1> HIDE DEF kept
  <1>6. \A i \in (kept + 1)..Len(h) : h[i] \in Event
    BY <1>1, <1>4, ElementOfSeq
  <1>7. /\ SubSeq(h, kept + 1, Len(h)) \in Seq(Event)
        /\ Len(SubSeq(h, kept + 1, Len(h))) = Len(h) - kept
        /\ \A i \in 1..(Len(h) - kept) : SubSeq(h, kept + 1, Len(h))[i] = h[kept + i]
    <2>1. kept + 1 \in Int /\ Len(h) \in Int
      BY <1>1, <1>4
    <2>2. /\ SubSeq(h, kept + 1, Len(h)) \in Seq(Event)
          /\ Len(SubSeq(h, kept + 1, Len(h))) =
               IF kept + 1 <= Len(h) THEN Len(h) - (kept + 1) + 1 ELSE 0
          /\ \A i \in 1..(Len(h) - (kept + 1) + 1) :
               SubSeq(h, kept + 1, Len(h))[i] = h[(kept + 1) + i - 1]
      BY <1>6, <2>1, SubSeqProperties
    <2> QED BY <1>1, <1>4, <2>2
  <1>8. \A i \in 1..(Len(h) - kept) : kept + i \in 1..Len(h)
    BY <1>1, <1>4
  <1> QED BY <1>4, <1>5, <1>7, <1>8 DEF h

-----------------------------------------------------------------------------
(* The retained history is a window of the log *)

LEMMA MinOfTwo ==
  ASSUME NEW m \in Nat, NEW n \in Nat
  PROVE  Min({m, n}) = IF m <= n THEN m ELSE n
  <1> DEFINE least == IF m <= n THEN m ELSE n
             IsLeast(x) == \A y \in {m, n} : x =< y
  <1>1. least \in {m, n} /\ IsLeast(least)
    OBVIOUS
  <1>2. \A x \in {m, n} : IsLeast(x) => x = least
    OBVIOUS
  <1>3. Min({m, n}) = CHOOSE x \in {m, n} : IsLeast(x)
    BY DEF Min
  <1> HIDE DEF least, IsLeast
  <1>4. Min({m, n}) \in {m, n} /\ IsLeast(Min({m, n}))
    BY <1>1, <1>3
  <1>5. Min({m, n}) = least
    BY <1>2, <1>4
  <1> QED BY <1>5 DEF least

\* The elements after a push.
LEMMA PushHistoryElements ==
  ASSUME NEW h \in Seq(Event), NEW e \in Event, Len(h) <= MaxHistory
  PROVE  LET r == PushHistory(h, e) IN
         /\ Len(h) < MaxHistory =>
              /\ Len(r) = Len(h) + 1
              /\ \A i \in 1..Len(h) : r[i] = h[i]
              /\ r[Len(h) + 1] = e
         /\ Len(h) = MaxHistory =>
              /\ Len(r) = Len(h)
              /\ \A i \in 1..(Len(h) - 1) : r[i] = h[i + 1]
              /\ r[Len(h)] = e
  <1> DEFINE a == Append(h, e)
  <1>1. /\ a \in Seq(Event) /\ a # << >> /\ Len(a) = Len(h) + 1
        /\ \A i \in 1..Len(h) : a[i] = h[i]
        /\ a[Len(h) + 1] = e
    BY AppendProperties
  <1>2. Len(h) \in Nat /\ MaxHistory \in Nat \ {0}
    BY LenProperties, EngineAssumption
  <1>3. PushHistory(h, e) = IF Len(h) < MaxHistory THEN a ELSE Tail(a)
    BY DEF PushHistory
  <1> HIDE DEF a
  <1>4. Len(Tail(a)) = Len(h) /\ \A i \in 1..Len(Tail(a)) : Tail(a)[i] = a[i + 1]
    BY <1>1, <1>2, HeadTailProperties
  <1>5. \A i \in 1..(Len(h) - 1) : Tail(a)[i] = h[i + 1]
    BY <1>1, <1>2, <1>4
  <1>6. Len(h) # 0 => Tail(a)[Len(h)] = e
    BY <1>1, <1>2, <1>4
  <1> QED BY <1>1, <1>2, <1>3, <1>4, <1>5, <1>6

LEMMA EmitHistoryWindow ==
  ASSUME TypeOK, HistoryWindow, NEW w \in Watcher, NEW p \in Pane, NEW mode \in Mode,
         NEW chunk \in Seq(Line), NEW output \in Text, NEW by \in {"poll", "attach"},
         NEW R \in SUBSET Client, Emit(w, p, mode, chunk, output, by, R)
  PROVE  HistoryWindow'
  <1> DEFINE event == EventOf(w, p, mode, chunk, streamSeq[w] + 1)
             entry == [event |-> event, text |-> output, by |-> by]
             h == history[w]
             s == streamSeq[w]
             l == log[w]
             h2 == PushHistory(h, event)
             l2 == Append(l, entry)
  <1>1. event \in Event /\ entry \in LogEntry /\ event.seq = s + 1 /\ entry.event = event
    BY EmitType DEF EventOf, LogEntry
  <1>2. /\ streamSeq' = [streamSeq EXCEPT ![w] = s + 1]
        /\ history' = [history EXCEPT ![w] = h2]
        /\ log' = [log EXCEPT ![w] = l2]
    BY DEF Emit
  <1>3. /\ h \in Seq(Event) /\ Len(h) \in Nat /\ l \in Seq(LogEntry) /\ Len(l) \in Nat
        /\ s \in Nat /\ MaxHistory \in Nat \ {0}
    BY LenProperties, EngineAssumption DEF TypeOK
  <1>4. /\ Len(l) = s /\ Len(h) = Min({s, MaxHistory})
        /\ \A i \in 1..Len(h) : h[i] = l[s - Len(h) + i].event /\ h[i].seq = s - Len(h) + i
    BY DEF HistoryWindow
  <1> HIDE DEF event, entry, h, s, l
  <1>5. /\ Len(h) = IF s <= MaxHistory THEN s ELSE MaxHistory
        /\ Len(h) <= MaxHistory
    BY <1>3, <1>4, MinOfTwo
  <1>6. Min({s + 1, MaxHistory}) = IF s + 1 <= MaxHistory THEN s + 1 ELSE MaxHistory
    BY <1>3, MinOfTwo
  <1>7. /\ Len(l2) = s + 1
        /\ \A i \in 1..s : l2[i] = l[i]
        /\ l2[s + 1] = entry
    BY <1>1, <1>3, <1>4, AppendProperties
  <1> HIDE DEF l2, h2
  <1>w. ASSUME Len(h2) = Min({s + 1, MaxHistory}),
               \A i \in 1..Len(h2) :
                 h2[i] = l2[s + 1 - Len(h2) + i].event /\ h2[i].seq = s + 1 - Len(h2) + i
        PROVE  HistoryWindow'
    <2> SUFFICES ASSUME NEW v \in Watcher
                 PROVE  /\ Len(log'[v]) = streamSeq'[v]
                        /\ Len(history'[v]) = Min({streamSeq'[v], MaxHistory})
                        /\ \A i \in 1..Len(history'[v]) :
                             LET n == streamSeq'[v] - Len(history'[v]) + i IN
                             history'[v][i] = log'[v][n].event /\ history'[v][i].seq = n
      BY DEF HistoryWindow
    <2>1. CASE v = w
      <3>1. streamSeq'[v] = s + 1 /\ history'[v] = h2 /\ log'[v] = l2
        BY <1>2, <2>1 DEF TypeOK
      <3>2. Len(l2) = s + 1
        BY <1>7
      <3>3. \A i \in 1..Len(h2) :
              LET n == s + 1 - Len(h2) + i IN h2[i] = l2[n].event /\ h2[i].seq = n
        BY <1>w
      <3>4. Len(log'[v]) = streamSeq'[v]
        BY <3>1, <3>2
      <3>5. Len(history'[v]) = Min({streamSeq'[v], MaxHistory})
        BY <1>w, <3>1, Zenon
      <3>6. ASSUME NEW i \in 1..Len(history'[v])
            PROVE  LET n == streamSeq'[v] - Len(history'[v]) + i IN
                   history'[v][i] = log'[v][n].event /\ history'[v][i].seq = n
        <4>1. i \in 1..Len(h2)
          BY <3>1, <3>6
        <4>2. h2[i] = l2[s + 1 - Len(h2) + i].event /\ h2[i].seq = s + 1 - Len(h2) + i
          BY <3>3, <4>1
        <4>3. streamSeq'[v] - Len(history'[v]) + i = s + 1 - Len(h2) + i
          <5>1. s \in Nat /\ Len(h2) \in Nat
            BY <1>3, <1>6, <1>w
          <5> QED BY <3>1, <5>1
        <4>4. /\ history'[v][i] = log'[v][s + 1 - Len(h2) + i].event
              /\ history'[v][i].seq = s + 1 - Len(h2) + i
          BY <3>1, <4>2
        <4> QED BY <4>3, <4>4
      <3> QED BY <3>4, <3>5, <3>6
    <2>2. CASE v # w
      <3>1. streamSeq'[v] = streamSeq[v] /\ history'[v] = history[v] /\ log'[v] = log[v]
        BY <1>2, <2>2 DEF TypeOK
      <3>2. /\ Len(log[v]) = streamSeq[v]
            /\ Len(history[v]) = Min({streamSeq[v], MaxHistory})
            /\ \A i \in 1..Len(history[v]) :
                 LET n == streamSeq[v] - Len(history[v]) + i IN
                 history[v][i] = log[v][n].event /\ history[v][i].seq = n
        BY DEF HistoryWindow
      <3> QED BY <3>1, <3>2
    <2> QED BY <2>1, <2>2
  <1>8. CASE Len(h) < MaxHistory
    <2>1. Len(h2) = Len(h) + 1 /\ (\A i \in 1..Len(h) : h2[i] = h[i]) /\ h2[Len(h) + 1] = event
      BY <1>1, <1>3, <1>5, <1>8, PushHistoryElements DEF h2
    <2>2. s = Len(h)
      BY <1>3, <1>5, <1>8
    <2>3. Len(h2) = Min({s + 1, MaxHistory})
      BY <1>3, <1>6, <1>8, <2>1, <2>2
    <2>4. ASSUME NEW i \in 1..Len(h2)
          PROVE  h2[i] = l2[s + 1 - Len(h2) + i].event /\ h2[i].seq = s + 1 - Len(h2) + i
      <3>1. s + 1 - Len(h2) + i = i /\ i \in 1..(s + 1)
        BY <1>3, <2>1, <2>2
      <3>2. CASE i = s + 1
        BY <1>1, <1>7, <2>1, <2>2, <3>1, <3>2
      <3>3. CASE i \in 1..s
        <4>1. h2[i] = h[i] /\ l2[i] = l[i]
          BY <1>7, <2>1, <2>2, <3>3
        <4>2. h[i] = l[i].event /\ h[i].seq = i
          <5>1. s - Len(h) + i = i
            BY <1>3, <2>2, <3>3
          <5> QED BY <1>4, <2>2, <3>3, <5>1
        <4> QED BY <3>1, <4>1, <4>2
      <3> QED BY <1>3, <3>1, <3>2, <3>3
    <2> QED BY <1>w, <2>3, <2>4
  <1>9. CASE Len(h) = MaxHistory
    <2>1. Len(h2) = Len(h) /\ (\A i \in 1..(Len(h) - 1) : h2[i] = h[i + 1]) /\ h2[Len(h)] = event
      BY <1>1, <1>3, <1>5, <1>9, PushHistoryElements DEF h2
    <2>2. s >= MaxHistory
      BY <1>3, <1>5, <1>9
    <2>3. Len(h2) = Min({s + 1, MaxHistory})
      BY <1>3, <1>6, <1>9, <2>1, <2>2
    <2>4. ASSUME NEW i \in 1..Len(h2)
          PROVE  h2[i] = l2[s + 1 - Len(h2) + i].event /\ h2[i].seq = s + 1 - Len(h2) + i
      <3>2. CASE i = Len(h)
        <4>1. s + 1 - Len(h2) + i = s + 1
          BY <1>3, <2>1, <3>2
        <4> QED BY <1>1, <1>7, <2>1, <3>2, <4>1
      <3>3. CASE i \in 1..(Len(h) - 1)
        <4>1. /\ s + 1 - Len(h2) + i = s - Len(h) + (i + 1)
              /\ s - Len(h) + (i + 1) \in 1..s
              /\ i + 1 \in 1..Len(h)
          BY <1>3, <1>9, <2>1, <2>2, <3>3
        <4>2. h2[i] = h[i + 1] /\ l2[s - Len(h) + (i + 1)] = l[s - Len(h) + (i + 1)]
          BY <1>7, <2>1, <3>3, <4>1
        <4>3. /\ h[i + 1] = l[s - Len(h) + (i + 1)].event
              /\ h[i + 1].seq = s - Len(h) + (i + 1)
          BY <1>4, <4>1
        <4> QED BY <4>1, <4>2, <4>3
      <3> QED BY <1>3, <2>1, <3>2, <3>3
    <2> QED BY <1>w, <2>3, <2>4
  <1> QED BY <1>3, <1>5, <1>8, <1>9

-----------------------------------------------------------------------------
(* Types, and the history window with them: a replay is well typed because  *)
(* the history is a window.                                                 *)

LEMMA UnsubscribeType ==
  ASSUME TypeOK, NEW c \in Client, NEW P \in SUBSET Pane, Unsubscribe(c, P)
  PROVE  /\ panes' \in [Pane -> 0..MaxWatchers]
         /\ subscribers' \in [Watcher -> SUBSET Client]
         /\ pollTimer' \in BOOLEAN
  <1>1. pollTimer' \in BOOLEAN
    BY DEF Unsubscribe, StopIfIdle
  <1>2. subscribers' \in [Watcher -> SUBSET Client]
    BY DEF TypeOK, Unsubscribe
  <1>3. panes' \in [Pane -> 0..MaxWatchers]
    BY EngineAssumption DEF TypeOK, Unsubscribe
  <1> QED BY <1>1, <1>2, <1>3

LEMMA InitTypeOK == Init => TypeOK /\ HistoryWindow
  <1> SUFFICES ASSUME Init PROVE TypeOK /\ HistoryWindow
    OBVIOUS
  <1>1. TypeOK
    <2>1. PendingCapture \in Capture /\ NoView \in View
      BY EngineAssumption DEF PendingCapture, Capture, CaptureState, NoView, View
    <2>2. << >> \in Text /\ 0 \in 0..MaxWatchers /\ 0 \in 0..MaxEdits
      BY EngineAssumption
    <2>3. << >> \in Seq(Event) /\ << >> \in Seq(LogEntry)
      OBVIOUS
    <2>4. /\ panes \in [Pane -> 0..MaxWatchers] /\ created \in 0..MaxWatchers
          /\ subscribers \in [Watcher -> SUBSET Client] /\ streamSeq \in [Watcher -> Nat]
          /\ lastOutput \in [Watcher -> Text] /\ content \in [Pane -> Text]
      BY <2>2 DEF Init
    <2>5. /\ history \in [Watcher -> Seq(Event)] /\ wire \in [Client -> Seq(Event)]
          /\ log \in [Watcher -> Seq(LogEntry)]
      BY <2>3 DEF Init
    <2>6. view \in [Client -> [Pane -> View]]
      BY <2>1 DEF Init
    <2> QED BY <2>1, <2>2, <2>4, <2>5, <2>6 DEF Init, TypeOK
  <1>2. ASSUME NEW w \in Watcher
        PROVE  log[w] = << >> /\ history[w] = << >> /\ streamSeq[w] = 0
    BY DEF Init
  <1>3. Min({0, MaxHistory}) = 0
    BY MinOfTwo, EngineAssumption
  <1>4. HistoryWindow
    <2>1. Len(<< >>) = 0 /\ 1..0 = {}
      OBVIOUS
    <2> QED BY <1>2, <1>3, <2>1 DEF HistoryWindow
  <1> QED BY <1>1, <1>4

LEMMA CallType ==
  ASSUME TypeOK, NEW k \in calls
  PROVE  /\ k.client \in Client /\ k.pane \in Pane /\ k.w \in Watcher
         /\ k.open \in BOOLEAN /\ k.capture \in Capture
         /\ k.capture.out \in Text /\ k.capture.out \in Seq(Line)
  BY EngineAssumption DEF TypeOK, Call, Capture

\* attach, detach, detachAll and close keep the types.
LEMMA AttachTypeOK ==
  ASSUME TypeOK, HistoryWindow, NEW c \in Client, NEW p \in Pane,
         \/ AttachFirst(c, p)
         \/ AttachNoCursor(c, p)
         \/ \E since \in 0..view[c][p].seq :
              AttachReplay(c, p, since) \/ AttachFallback(c, p, since)
  PROVE  TypeOK'
  <1>1. CASE AttachFirst(c, p)
    <2> DEFINE w == IF panes[p] = 0 THEN created + 1 ELSE panes[p]
    <2>1. /\ w \in Watcher
          /\ panes' = [panes EXCEPT ![p] = w]
          /\ created' = IF panes[p] = 0 THEN w ELSE created
          /\ subscribers' = [subscribers EXCEPT ![w] = @ \union {c}]
          /\ \E id \in CallId :
               calls' = calls \union {[id |-> id, client |-> c, pane |-> p, w |-> w,
                                      open |-> TRUE, capture |-> PendingCapture]}
          /\ UNCHANGED <<lastOutput, streamSeq, history, pollTimer, pollTodo,
                         pollCapture, content, edits, wire, view, log>>
      BY <1>1, Zenon DEF AttachFirst
    <2> HIDE DEF w
    <2>2. w \in 0..MaxWatchers
      BY <2>1, EngineAssumption DEF Watcher
    <2>3. panes' \in [Pane -> 0..MaxWatchers] /\ created' \in 0..MaxWatchers
      BY <2>1, <2>2 DEF TypeOK
    <2>4. subscribers' \in [Watcher -> SUBSET Client]
      BY <2>1 DEF TypeOK
    <2>5. PendingCapture \in Capture
      BY EngineAssumption DEF PendingCapture, Capture, CaptureState
    <2>6. calls' \subseteq Call
      <3>1. PICK id \in CallId :
              calls' = calls \union {[id |-> id, client |-> c, pane |-> p, w |-> w,
                                     open |-> TRUE, capture |-> PendingCapture]}
        BY <2>1
      <3> DEFINE new == [id |-> id, client |-> c, pane |-> p, w |-> w,
                         open |-> TRUE, capture |-> PendingCapture]
      <3>2. new \in Call
        BY <2>1, <2>5 DEF Call
      <3> HIDE DEF new
      <3>3. calls' = calls \union {new}
        BY <3>1 DEF new
      <3> QED BY <3>2, <3>3 DEF TypeOK
    <2> QED BY <2>1, <2>3, <2>4, <2>6 DEF TypeOK
  <1>2. ASSUME AttachSnapshot(c, p), panes[p] # 0 PROVE TypeOK'
    <2> DEFINE w == panes[p]
               event == EventOf(w, p, "snapshot", lastOutput[w], streamSeq[w])
    <2>1. w \in Watcher
      BY <1>2, EngineAssumption DEF TypeOK, Watcher
    <2>2. lastOutput[w] \in Seq(Line) /\ streamSeq[w] \in Nat
      BY <2>1, EngineAssumption DEF TypeOK
    <2>3. event \in Event
      BY <2>1, <2>2 DEF EventOf, Event, Mode
    <2>4. wire' = [wire EXCEPT ![c] = Append(wire[c], event)]
      BY <1>2 DEF AttachSnapshot
    <2> HIDE DEF event
    <2>5. wire' \in [Client -> Seq(Event)]
      BY <2>3, <2>4, AppendProperties DEF TypeOK
    <2>6. subscribers' \in [Watcher -> SUBSET Client]
      BY <1>2, <2>1 DEF AttachSnapshot, TypeOK
    <2> QED BY <1>2, <2>5, <2>6 DEF AttachSnapshot, TypeOK
  <1>3. ASSUME NEW since \in 0..view[c][p].seq, AttachReplay(c, p, since) PROVE TypeOK'
    <2> DEFINE w == panes[p]
    <2>1. w \in Watcher /\ since \in Nat
      BY <1>3, EngineAssumption DEF AttachReplay, TypeOK, Watcher, View
    <2>2. Replayed(w, since) \in Seq(Event)
      BY <2>1, ReplayedType
    <2>3. wire[c] \o Replayed(w, since) \in Seq(Event)
      BY <2>2, ConcatProperties DEF TypeOK
    <2>4. wire' = [wire EXCEPT ![c] = wire[c] \o Replayed(w, since)]
      BY <1>3 DEF AttachReplay
    <2>5. wire' \in [Client -> Seq(Event)]
      BY <2>3, <2>4 DEF TypeOK
    <2>6. subscribers' \in [Watcher -> SUBSET Client]
      BY <1>3, <2>1 DEF AttachReplay, TypeOK
    <2> QED BY <1>3, <2>5, <2>6 DEF AttachReplay, TypeOK
  <1> QED BY <1>1, <1>2, <1>3 DEF AttachNoCursor, AttachFallback

LEMMA DetachTypeOK ==
  ASSUME TypeOK, NEW c \in Client,
         (\E p \in Pane : Detach(c, p)) \/ DetachAll(c) \/ Close(c)
  PROVE  TypeOK'
  <1>1. ASSUME NEW p \in Pane, Detach(c, p) PROVE TypeOK'
    <2>1. Unsubscribe(c, {p}) /\ {p} \in SUBSET Pane
      BY <1>1 DEF Detach
    <2> QED BY <1>1, <2>1, UnsubscribeType DEF Detach, TypeOK
  <1>2. CASE DetachAll(c)
    BY <1>2, UnsubscribeType DEF DetachAll, TypeOK
  <1>3. CASE Close(c)
    <2>1. Unsubscribe(c, Pane)
      BY <1>3 DEF Close
    <2>2. wire' \in [Client -> Seq(Event)]
      BY <1>3 DEF Close, TypeOK
    <2>3. calls' \subseteq Call
      <3>1. \A k \in calls : k \in Call /\ [k EXCEPT !.open = FALSE] \in Call
        BY DEF TypeOK, Call
      <3> QED BY <1>3, <3>1 DEF Close
    <2> QED BY <1>3, <2>1, <2>2, <2>3, UnsubscribeType DEF Close, TypeOK
  <1> QED BY <1>1, <1>2, <1>3

\* The two emitting steps, in the terms of EmitType and EmitHistoryWindow.
LEMMA ResumeEmits ==
  ASSUME TypeOK, NEW k \in calls, AttachResume(k)
  PROVE  /\ (IF k.open THEN {k.client} ELSE {}) \in SUBSET Client
         /\ Emit(k.w, k.pane, "snapshot", k.capture.out, k.capture.out, "attach",
                 IF k.open THEN {k.client} ELSE {})
  BY CallType DEF AttachResume

LEMMA PollEmits ==
  ASSUME TypeOK, NEW entry \in pollTodo, PollEmit(entry)
  PROVE  /\ entry[1] \in Pane /\ entry[2] \in Watcher
         /\ pollCapture.out \in Text /\ pollCapture.out \in Seq(Line)
         /\ lastOutput[entry[2]] \in Text /\ lastOutput[entry[2]] \in Seq(Line)
         /\ subscribers[entry[2]] \in SUBSET Client
         /\ deltaMode(lastOutput[entry[2]], pollCapture.out) \in Mode
         /\ deltaChunk(lastOutput[entry[2]], pollCapture.out) \in Seq(Line)
         /\ Emit(entry[2], entry[1], deltaMode(lastOutput[entry[2]], pollCapture.out),
                 deltaChunk(lastOutput[entry[2]], pollCapture.out), pollCapture.out,
                 "poll", subscribers[entry[2]])
  <1>1. entry[1] \in Pane /\ entry[2] \in Watcher
    BY DEF TypeOK
  <1>2. /\ pollCapture.out \in Text /\ pollCapture.out \in Seq(Line)
        /\ lastOutput[entry[2]] \in Text /\ lastOutput[entry[2]] \in Seq(Line)
        /\ subscribers[entry[2]] \in SUBSET Client
    BY <1>1, EngineAssumption DEF TypeOK, Capture
  <1> QED BY <1>1, <1>2, DeltaType DEF PollEmit

LEMMA CallStepTypeOK ==
  ASSUME TypeOK, NEW k \in calls, AttachCapture(k) \/ AttachResume(k) \/ AttachFail(k)
  PROVE  TypeOK'
  <1>1. CASE AttachCapture(k)
    <2>1. PICK r \in CaptureResult(k.capture, k.pane) :
            calls' = (calls \ {k}) \union {[k EXCEPT !.capture = r]}
      BY <1>1 DEF AttachCapture
    <2>2. r \in Capture
      BY CallType, EngineAssumption DEF CaptureResult, Capture, CaptureState, TypeOK
    <2>3. [k EXCEPT !.capture = r] \in Call
      BY <2>2 DEF TypeOK, Call
    <2>4. calls' \subseteq Call
      BY <2>1, <2>3 DEF TypeOK
    <2> QED BY <1>1, <2>4 DEF AttachCapture, TypeOK
  <1>2. CASE AttachResume(k)
    <2>1. /\ lastOutput' \in [Watcher -> Text] /\ streamSeq' \in [Watcher -> Nat]
          /\ history' \in [Watcher -> Seq(Event)] /\ wire' \in [Client -> Seq(Event)]
          /\ log' \in [Watcher -> Seq(LogEntry)]
      BY <1>2, ResumeEmits, CallType, EmitType DEF Mode
    <2> QED BY <1>2, <2>1 DEF AttachResume, TypeOK
  <1>3. CASE AttachFail(k)
    <2>1. pollTimer' \in BOOLEAN
      BY <1>3 DEF AttachFail, StopIfIdle
    <2>2. panes' \in [Pane -> 0..MaxWatchers]
      BY <1>3, CallType, EngineAssumption DEF AttachFail, TypeOK
    <2>3. subscribers' \in [Watcher -> SUBSET Client]
      BY <1>3, CallType DEF AttachFail, TypeOK
    <2> QED BY <1>3, <2>1, <2>2, <2>3 DEF AttachFail, TypeOK
  <1> QED BY <1>1, <1>2, <1>3

LEMMA PollTypeOK ==
  ASSUME TypeOK,
         \/ PollStart \/ PollCaptureFail
         \/ \E entry \in pollTodo : PollCapture(entry) \/ PollEmit(entry) \/ PollSkip(entry)
  PROVE  TypeOK'
  <1>0. PendingCapture \in Capture
    BY EngineAssumption DEF PendingCapture, Capture, CaptureState
  <1>1. CASE PollStart
    <2>1. \A q \in Pane : panes[q] # 0 => panes[q] \in Watcher
      BY EngineAssumption DEF TypeOK, Watcher
    <2>2. pollTodo' \subseteq Pane \X Watcher
      BY <1>1, <2>1 DEF PollStart
    <2> QED BY <1>0, <1>1, <2>2 DEF PollStart, TypeOK
  <1>2. CASE PollCaptureFail
    <2>1. pollCapture' \in Capture
      BY <1>2, EngineAssumption DEF PollCaptureFail, Capture, CaptureState
    <2> QED BY <1>2, <2>1 DEF PollCaptureFail, TypeOK
  <1>3. ASSUME NEW entry \in pollTodo, PollCapture(entry) PROVE TypeOK'
    <2>1. entry[1] \in Pane
      BY DEF TypeOK
    <2>2. pollCapture' \in Capture
      BY <1>3, <2>1 DEF PollCapture, Capture, CaptureState, TypeOK
    <2> QED BY <1>3, <2>2 DEF PollCapture, TypeOK
  <1>4. ASSUME NEW entry \in pollTodo, PollEmit(entry) PROVE TypeOK'
    <2>1. /\ lastOutput' \in [Watcher -> Text] /\ streamSeq' \in [Watcher -> Nat]
          /\ history' \in [Watcher -> Seq(Event)] /\ wire' \in [Client -> Seq(Event)]
          /\ log' \in [Watcher -> Seq(LogEntry)]
      BY <1>4, PollEmits, EmitType
    <2> QED BY <1>0, <1>4, <2>1 DEF PollEmit, NextEntry, TypeOK
  <1>5. ASSUME NEW entry \in pollTodo, PollSkip(entry) PROVE TypeOK'
    BY <1>0, <1>5 DEF PollSkip, NextEntry, TypeOK
  <1> QED BY <1>1, <1>2, <1>3, <1>4, <1>5

LEMMA ReceiveTypeOK ==
  ASSUME TypeOK, NEW c \in Client, Receive(c)
  PROVE  /\ TypeOK'
         /\ Head(wire[c]) \in Event /\ Head(wire[c]) = wire[c][1]
         /\ Len(wire'[c]) = Len(wire[c]) - 1
         /\ \A i \in 1..Len(wire'[c]) : wire'[c][i] = wire[c][i + 1]
         /\ 1 \in 1..Len(wire[c])
  <1> DEFINE e == Head(wire[c])
  <1>1. wire[c] \in Seq(Event) /\ wire[c] # << >>
    BY DEF Receive, TypeOK
  <1>2. /\ e \in Event /\ Tail(wire[c]) \in Seq(Event)
        /\ Len(Tail(wire[c])) = Len(wire[c]) - 1
        /\ \A i \in 1..Len(Tail(wire[c])) : Tail(wire[c])[i] = wire[c][i + 1]
    BY <1>1, HeadTailProperties
  <1>3. 1 \in 1..Len(wire[c]) /\ e = wire[c][1]
    BY <1>1, EmptySeq
  <1>4. wire' = [wire EXCEPT ![c] = Tail(wire[c])]
        /\ view' = [view EXCEPT ![c][e.pane] = Apply(view[c][e.pane], e)]
    BY DEF Receive
  <1>5. e.pane \in Pane
    BY <1>2 DEF Event
  <1> HIDE DEF e
  <1>6. Apply(view[c][e.pane], e) \in View
    BY <1>2, <1>5, ApplyType DEF TypeOK
  <1>7. view' \in [Client -> [Pane -> View]]
    BY <1>4, <1>5, <1>6 DEF TypeOK
  <1>8. wire' \in [Client -> Seq(Event)] /\ wire'[c] = Tail(wire[c])
    BY <1>2, <1>4 DEF TypeOK
  <1>9. TypeOK'
    BY <1>7, <1>8 DEF Receive, engineVars, TypeOK
  <1> QED BY <1>2, <1>3, <1>8, <1>9 DEF e

LEMMA NextTypeOK == TypeOK /\ HistoryWindow /\ [Next]_vars => TypeOK'
  <1> SUFFICES ASSUME TypeOK, HistoryWindow, [Next]_vars PROVE TypeOK'
    OBVIOUS
  <1>1. ASSUME NEW p \in Pane, NEW t \in Text, PaneChange(p, t) PROVE TypeOK'
    <2>1. content' \in [Pane -> Text] /\ edits' \in 0..MaxEdits
      BY <1>1, EngineAssumption DEF PaneChange, TypeOK
    <2> QED BY <1>1, <2>1 DEF PaneChange, engineVars, TypeOK
  <1>2. CASE UNCHANGED vars
    BY <1>2 DEF vars, engineVars, TypeOK
  <1> QED BY <1>1, <1>2, AttachTypeOK, DetachTypeOK, CallStepTypeOK, PollTypeOK,
             ReceiveTypeOK DEF Next

\* A step emits an event or leaves the streams alone.
LEMMA StreamSteps ==
  ASSUME [Next]_vars
  PROVE  \/ \E k \in calls : AttachResume(k)
         \/ \E entry \in pollTodo : PollEmit(entry)
         \/ UNCHANGED <<lastOutput, streamSeq, history, log>>
  <1> DEFINE Quiet == UNCHANGED <<lastOutput, streamSeq, history, log>>
  <1>1. ASSUME NEW c \in Client, NEW p \in Pane,
               \/ AttachFirst(c, p) \/ AttachNoCursor(c, p)
               \/ \E since \in 0..view[c][p].seq :
                    AttachReplay(c, p, since) \/ AttachFallback(c, p, since)
               \/ Detach(c, p)
        PROVE  Quiet
    BY <1>1 DEF AttachFirst, AttachNoCursor, AttachFallback, AttachSnapshot, AttachReplay,
       Detach
  <1>2. ASSUME NEW c \in Client, DetachAll(c) \/ Close(c) \/ Receive(c) PROVE Quiet
    BY <1>2 DEF DetachAll, Close, Receive, engineVars
  <1>3. ASSUME NEW k \in calls, AttachCapture(k) \/ AttachFail(k) PROVE Quiet
    BY <1>3 DEF AttachCapture, AttachFail
  <1>4. ASSUME NEW entry \in pollTodo, PollCapture(entry) \/ PollSkip(entry) PROVE Quiet
    BY <1>4 DEF PollCapture, PollSkip
  <1>5. ASSUME NEW p \in Pane, NEW t \in Text, PaneChange(p, t) PROVE Quiet
    BY <1>5 DEF PaneChange, engineVars
  <1>6. ASSUME PollStart \/ PollCaptureFail \/ UNCHANGED vars PROVE Quiet
    BY <1>6 DEF PollStart, PollCaptureFail, vars, engineVars
  <1> HIDE DEF Quiet
  <1>7. (\E k \in calls : AttachResume(k)) \/ (\E entry \in pollTodo : PollEmit(entry)) \/ Quiet
    BY <1>1, <1>2, <1>3, <1>4, <1>5, <1>6 DEF Next
  <1> QED BY <1>7 DEF Quiet

LEMMA NextHistoryWindow == TypeOK /\ HistoryWindow /\ [Next]_vars => HistoryWindow'
  <1> SUFFICES ASSUME TypeOK, HistoryWindow, [Next]_vars PROVE HistoryWindow'
    OBVIOUS
  <1>1. ASSUME NEW k \in calls, AttachResume(k) PROVE HistoryWindow'
    BY <1>1, ResumeEmits, CallType, EmitHistoryWindow DEF Mode
  <1>2. ASSUME NEW entry \in pollTodo, PollEmit(entry) PROVE HistoryWindow'
    BY <1>2, PollEmits, EmitHistoryWindow
  <1>3. CASE UNCHANGED <<lastOutput, streamSeq, history, log>>
    BY <1>3 DEF HistoryWindow
  <1> QED BY <1>1, <1>2, <1>3, StreamSteps

\* All variables keep their types.
THEOREM EngineTypeCorrect == Spec => []TypeOK
  BY InitTypeOK, NextTypeOK, NextHistoryWindow, PTL DEF Spec

\* The events of a watcher are numbered 1, 2, 3, ... and its bounded history
\* always holds the newest MaxHistory of them.
THEOREM EngineHistoryWindow == Spec => []HistoryWindow
  BY InitTypeOK, NextTypeOK, NextHistoryWindow, PTL DEF Spec

-----------------------------------------------------------------------------
(* The timer runs while a started stream is mapped *)

\* Watchers in use have been created: a new one is in no list yet.
UsedAreCreated ==
  /\ \A p \in Pane : panes[p] <= created
  /\ \A entry \in pollTodo : entry[2] <= created

\* What the running poll iteration will still visit, and is still mapped, has
\* the timer: an emission of the poll loop cannot start an unpolled stream.
PendingArePolled ==
  \A entry \in pollTodo, p \in Pane : panes[p] = entry[2] => pollTimer

TimerInv == UsedAreCreated /\ PendingArePolled /\ PolledWhileWatched

\* A map that only loses entries, and a timer that stops only when it is empty.
LEMMA ShrinkKeepsTimer ==
  ASSUME TypeOK, TimerInv, NEW m \in [Pane -> 0..MaxWatchers],
         \A p \in Pane : m[p] \in {0, panes[p]},
         panes' = m, StopIfIdle(m), UNCHANGED <<created, streamSeq, pollTodo>>
  PROVE  TimerInv'
  <1>1. ASSUME NEW p \in Pane, panes'[p] # 0
        PROVE  panes'[p] = panes[p] /\ pollTimer' = pollTimer
    BY <1>1 DEF StopIfIdle, TypeOK
  <1>2. \A entry \in pollTodo : entry[2] # 0
    BY DEF TypeOK, Watcher
  <1>3. UsedAreCreated'
    <2>1. 0 <= created
      BY EngineAssumption DEF TypeOK
    <2>2. \A p \in Pane : panes'[p] <= created
      BY <2>1 DEF TimerInv, UsedAreCreated
    <2> QED BY <2>2 DEF TimerInv, UsedAreCreated
  <1>4. PendingArePolled'
    BY <1>1, <1>2 DEF TimerInv, PendingArePolled
  <1>5. PolledWhileWatched'
    BY <1>1 DEF TimerInv, PolledWhileWatched
  <1> QED BY <1>3, <1>4, <1>5 DEF TimerInv

LEMMA UnsubscribeShrinks ==
  ASSUME TypeOK, TimerInv, NEW c \in Client, NEW P \in SUBSET Pane, Unsubscribe(c, P),
         UNCHANGED <<created, streamSeq, pollTodo>>
  PROVE  TimerInv'
  <1>1. /\ panes' \in [Pane -> 0..MaxWatchers]
        /\ \A p \in Pane : panes'[p] \in {0, panes[p]}
        /\ StopIfIdle(panes')
    BY UnsubscribeType DEF Unsubscribe, TypeOK
  <1> QED BY <1>1, ShrinkKeepsTimer

LEMMA NextTimerInv == TypeOK /\ TimerInv /\ [Next]_vars => TimerInv'
  <1> SUFFICES ASSUME TypeOK, TimerInv, [Next]_vars PROVE TimerInv'
    OBVIOUS
  <1> USE DEF TimerInv
  <1>1. ASSUME NEW c \in Client, NEW p \in Pane, AttachFirst(c, p) PROVE TimerInv'
    <2> DEFINE w == IF panes[p] = 0 THEN created + 1 ELSE panes[p]
    <2>1. /\ w \in Watcher /\ streamSeq[w] = 0
          /\ panes' = [panes EXCEPT ![p] = w]
          /\ created' = IF panes[p] = 0 THEN w ELSE created
          /\ UNCHANGED <<streamSeq, pollTimer, pollTodo>>
      BY <1>1, Zenon DEF AttachFirst
    <2>2. created \in Nat /\ \A q \in Pane : panes[q] \in Nat
      BY EngineAssumption DEF TypeOK
    <2>3. \A entry \in pollTodo : entry[2] \in Nat
      BY EngineAssumption DEF TypeOK, Watcher
    <2>4. UsedAreCreated'
      BY <2>1, <2>2, <2>3 DEF UsedAreCreated, TypeOK
    <2>5. PolledWhileWatched'
      BY <2>1 DEF PolledWhileWatched, TypeOK
    <2>6. PendingArePolled'
      <3> SUFFICES ASSUME NEW entry \in pollTodo, NEW q \in Pane, panes'[q] = entry[2]
                   PROVE  pollTimer
        BY <2>1 DEF PendingArePolled
      <3>1. panes[q] = entry[2]
        <4>1. CASE q # p \/ panes[p] # 0
          BY <2>1, <4>1 DEF TypeOK
        <4>2. CASE q = p /\ panes[p] = 0
          <5>1. entry[2] = created + 1
            BY <2>1, <4>2 DEF TypeOK
          <5> QED BY <2>2, <2>3, <5>1 DEF UsedAreCreated
        <4> QED BY <4>1, <4>2
      <3> QED BY <3>1 DEF PendingArePolled
    <2> QED BY <2>4, <2>5, <2>6
  <1>2. ASSUME pollTimer', UNCHANGED <<panes, created, pollTodo>> PROVE TimerInv'
    BY <1>2 DEF UsedAreCreated, PendingArePolled, PolledWhileWatched
  <1>3. ASSUME NEW c \in Client, NEW p \in Pane,
               \/ AttachNoCursor(c, p)
               \/ \E since \in 0..view[c][p].seq :
                    AttachReplay(c, p, since) \/ AttachFallback(c, p, since)
        PROVE  TimerInv'
    BY <1>2, <1>3 DEF AttachNoCursor, AttachReplay, AttachFallback, AttachSnapshot
  <1>4. ASSUME NEW c \in Client, NEW p \in Pane, Detach(c, p) PROVE TimerInv'
    <2>1. {p} \in SUBSET Pane
      OBVIOUS
    <2> QED BY <1>4, <2>1, UnsubscribeShrinks DEF Detach
  <1>5. ASSUME NEW c \in Client, DetachAll(c) \/ Close(c) PROVE TimerInv'
    BY <1>5, UnsubscribeShrinks DEF DetachAll, Close
  <1>6. ASSUME NEW k \in calls, AttachResume(k) PROVE TimerInv'
    BY <1>2, <1>6 DEF AttachResume
  <1>7. ASSUME NEW k \in calls, AttachFail(k) PROVE TimerInv'
    <2>1. /\ panes' \in [Pane -> 0..MaxWatchers]
          /\ \A p \in Pane : panes'[p] \in {0, panes[p]}
          /\ StopIfIdle(panes')
      BY <1>7, CallType, EngineAssumption DEF AttachFail, TypeOK
    <2> QED BY <1>7, <2>1, ShrinkKeepsTimer DEF AttachFail
  <1>8. CASE PollStart
    <2>1. \A entry \in pollTodo' : \E q \in Pane : entry[2] = panes[q]
      BY <1>8 DEF PollStart
    <2> QED BY <1>8, <2>1 DEF PollStart, UsedAreCreated, PendingArePolled, PolledWhileWatched
  <1>9. ASSUME pollTodo' \subseteq pollTodo, UNCHANGED <<panes, created, pollTimer, streamSeq>>
        PROVE  TimerInv'
    BY <1>9 DEF UsedAreCreated, PendingArePolled, PolledWhileWatched
  <1>10. ASSUME NEW entry \in pollTodo, PollEmit(entry) PROVE TimerInv'
    <2>1. /\ streamSeq' = [streamSeq EXCEPT ![entry[2]] = @ + 1]
          /\ pollTodo' \subseteq pollTodo /\ UNCHANGED <<panes, created, pollTimer>>
      BY <1>10 DEF PollEmit, Emit, NextEntry
    <2>2. PolledWhileWatched'
      <3> SUFFICES ASSUME NEW p \in Pane, panes[p] # 0, streamSeq'[panes[p]] > 0
                   PROVE  pollTimer
        BY <2>1 DEF PolledWhileWatched
      <3>1. CASE panes[p] = entry[2]
        BY <3>1 DEF PendingArePolled
      <3>2. CASE panes[p] # entry[2]
        <4>1. entry[2] \in Watcher
          BY DEF TypeOK
        <4>2. panes[p] \in Watcher
          BY EngineAssumption DEF TypeOK, Watcher
        <4>3. streamSeq'[panes[p]] = streamSeq[panes[p]]
          BY <2>1, <3>2, <4>1, <4>2 DEF TypeOK
        <4> QED BY <4>3 DEF PolledWhileWatched
      <3> QED BY <3>1, <3>2
    <2> QED BY <2>1, <2>2 DEF UsedAreCreated, PendingArePolled
  <1>11. ASSUME NEW entry \in pollTodo, PollCapture(entry) \/ PollSkip(entry) PROVE TimerInv'
    BY <1>9, <1>11 DEF PollCapture, PollSkip, NextEntry
  <1>12. ASSUME NEW k \in calls, AttachCapture(k) PROVE TimerInv'
    BY <1>9, <1>12 DEF AttachCapture
  <1>13. ASSUME NEW c \in Client, Receive(c) PROVE TimerInv'
    BY <1>9, <1>13 DEF Receive, engineVars
  <1>14. ASSUME NEW p \in Pane, NEW t \in Text, PaneChange(p, t) PROVE TimerInv'
    BY <1>9, <1>14 DEF PaneChange, engineVars
  <1>15. CASE PollCaptureFail \/ UNCHANGED vars
    BY <1>9, <1>15 DEF PollCaptureFail, vars, engineVars
  <1> HIDE DEF TimerInv
  <1> QED BY <1>1, <1>3, <1>4, <1>5, <1>6, <1>7, <1>8, <1>10, <1>11, <1>12, <1>13,
             <1>14, <1>15 DEF Next

\* A pane whose stream has started is polled for as long as it is watched.
THEOREM EnginePolledWhileWatched == Spec => []PolledWhileWatched
  <1>1. Init => TimerInv
    BY DEF Init, TimerInv, UsedAreCreated, PendingArePolled, PolledWhileWatched
  <1>2. TimerInv => PolledWhileWatched
    BY DEF TimerInv
  <1> QED BY <1>1, <1>2, EngineTypeCorrect, NextTimerInv, PTL DEF Spec

-----------------------------------------------------------------------------
(* What an event says is what the stream was                                *)

\* The text of a stream after its nth event, by the log L.
TextAt(L, w, n) == IF n = 0 THEN << >> ELSE L[w][n].text

\* An event is in the log, and leads to the text it is logged with: at once
\* when it is a snapshot, from the text before it when it is a delta.
EventTrue(L, e) ==
  /\ e.seq \in 1..Len(L[e.w])
  /\ e.mode = "snapshot" => e.chunk = TextAt(L, e.w, e.seq)
  /\ e.mode = "delta" => TextAt(L, e.w, e.seq - 1) \o e.chunk = TextAt(L, e.w, e.seq)

\* watcher.lastOutput is what the next delta is computed from, and also where
\* the last event left every client.
LastLogged == \A w \in Watcher : lastOutput[w] = TextAt(log, w, streamSeq[w])
LogTrue == \A w \in Watcher : \A n \in 1..Len(log[w]) : EventTrue(log, log[w][n].event)
WireTrue == \A c \in Client : \A i \in 1..Len(wire[c]) : EventTrue(log, wire[c][i])
FreshView == \A c \in Client, p \in Pane : view[c][p].seq = 0 => view[c][p].text = << >>

StreamInv == LastLogged /\ LogTrue /\ WireTrue /\ FreshView /\ ViewExact

Grows(L, M) ==
  \A w \in Watcher : Len(L[w]) <= Len(M[w]) /\ \A n \in 1..Len(L[w]) : M[w][n] = L[w][n]

\* Events stay true as the log grows.
LEMMA GrowthKeepsTruth ==
  ASSUME NEW L \in [Watcher -> Seq(LogEntry)], NEW M \in [Watcher -> Seq(LogEntry)],
         Grows(L, M), NEW e \in Event, EventTrue(L, e)
  PROVE  EventTrue(M, e)
  <1>1. e.w \in Watcher /\ e.seq \in Nat
    BY DEF Event
  <1>2. Len(L[e.w]) \in Nat /\ Len(M[e.w]) \in Nat
    BY <1>1, LenProperties
  <1>3. Len(L[e.w]) <= Len(M[e.w]) /\ \A n \in 1..Len(L[e.w]) : M[e.w][n] = L[e.w][n]
    BY <1>1 DEF Grows
  <1>4. e.seq \in 1..Len(L[e.w])
    BY DEF EventTrue
  <1>5. e.seq \in 1..Len(M[e.w])
    BY <1>2, <1>3, <1>4
  <1>6. TextAt(M, e.w, e.seq) = TextAt(L, e.w, e.seq)
    BY <1>3, <1>4 DEF TextAt
  <1>7. TextAt(M, e.w, e.seq - 1) = TextAt(L, e.w, e.seq - 1)
    <2>1. CASE e.seq = 1
      BY <2>1 DEF TextAt
    <2>2. CASE e.seq # 1
      <3>1. e.seq - 1 \in 1..Len(L[e.w])
        BY <1>1, <1>2, <1>4, <2>2
      <3> QED BY <1>3, <3>1 DEF TextAt
    <2> QED BY <2>1, <2>2
  <1> QED BY <1>5, <1>6, <1>7 DEF EventTrue

\* computeDelta: the delta leads from the previous text to the current one.
LEMMA DeltaLeads ==
  ASSUME NEW s \in Seq(Line), NEW t \in Seq(Line)
  PROVE  /\ deltaMode(s, t) = "snapshot" => deltaChunk(s, t) = t
         /\ deltaMode(s, t) = "delta" => s \o deltaChunk(s, t) = t
  <1>1. ASSUME StartsWith(t, s) PROVE s \o SubSeq(t, Len(s) + 1, Len(t)) = t
    <2>1. Len(s) \in Nat /\ Len(t) \in Nat /\ Len(s) <= Len(t)
      BY <1>1, LenProperties DEF StartsWith
    <2>2. /\ 1 \in 1..(Len(t) + 1) /\ Len(s) \in (1 - 1)..Len(t)
          /\ Len(t) \in Len(s)..Len(t)
      BY <2>1
    <2>3. SubSeq(t, 1, Len(s)) \o SubSeq(t, Len(s) + 1, Len(t)) = SubSeq(t, 1, Len(t))
      BY <2>2, ConcatAdjacentSubSeq
    <2>4. SubSeq(t, 1, Len(t)) = t
      BY SubSeqFull
    <2> QED BY <1>1, <2>3, <2>4 DEF StartsWith
  <1> QED BY <1>1, SMTT(60) DEF deltaMode, deltaChunk

LEMMA EmitStream ==
  ASSUME TypeOK, HistoryWindow, StreamInv, TypeOK', view' = view,
         NEW w \in Watcher, NEW p \in Pane, NEW mode \in Mode,
         NEW chunk \in Seq(Line), NEW output \in Text, NEW by \in {"poll", "attach"},
         NEW R \in SUBSET Client, Emit(w, p, mode, chunk, output, by, R),
         mode = "snapshot" => chunk = output,
         mode = "delta" => lastOutput[w] \o chunk = output
  PROVE  StreamInv'
  <1> DEFINE event == EventOf(w, p, mode, chunk, streamSeq[w] + 1)
             entry == [event |-> event, text |-> output, by |-> by]
             s == streamSeq[w]
  <1>1. /\ event \in Event /\ entry \in LogEntry /\ event.seq = s + 1 /\ event.w = w
        /\ event.mode = mode /\ event.chunk = chunk
        /\ entry.event = event /\ entry.text = output
    BY EmitType DEF EventOf, LogEntry
  <1>2. /\ lastOutput' = [lastOutput EXCEPT ![w] = output]
        /\ streamSeq' = [streamSeq EXCEPT ![w] = s + 1]
        /\ log' = [log EXCEPT ![w] = Append(log[w], entry)]
        /\ wire' = [c \in Client |-> IF c \in R THEN Append(wire[c], event) ELSE wire[c]]
    BY DEF Emit
  <1>3. s \in Nat /\ log[w] \in Seq(LogEntry) /\ Len(log[w]) = s
    BY DEF TypeOK, HistoryWindow
  <1> HIDE DEF event, entry, s
  <1>4. /\ Len(log'[w]) = s + 1
        /\ \A n \in 1..s : log'[w][n] = log[w][n]
        /\ log'[w][s + 1] = entry
    <2>1. log'[w] = Append(log[w], entry)
      BY <1>2 DEF TypeOK
    <2> QED BY <1>1, <1>3, <2>1, AppendProperties
  <1>5. \A v \in Watcher : v # w => log'[v] = log[v]
    BY <1>2 DEF TypeOK
  <1>6. \A v \in Watcher : Len(log[v]) \in Nat
    BY LenProperties DEF TypeOK
  <1>7. Grows(log, log')
    BY <1>3, <1>4, <1>5, <1>6 DEF Grows
  <1>8. \A e \in Event : EventTrue(log, e) => EventTrue(log', e)
    BY <1>7, GrowthKeepsTruth DEF TypeOK
  <1>9. TextAt(log', w, s + 1) = output /\ TextAt(log', w, s) = lastOutput[w]
    <2>1. TextAt(log', w, s + 1) = output
      BY <1>1, <1>3, <1>4 DEF TextAt
    <2>2. TextAt(log, w, s) = lastOutput[w]
      BY DEF StreamInv, LastLogged, s
    <2>3. TextAt(log', w, s) = TextAt(log, w, s)
      <3>1. CASE s = 0
        BY <3>1 DEF TextAt
      <3>2. CASE s # 0
        <4>1. log'[w][s] = log[w][s]
          BY <1>3, <1>4, <3>2
        <4> QED BY <3>2, <4>1 DEF TextAt
      <3> QED BY <3>1, <3>2
    <2> QED BY <2>1, <2>2, <2>3
  <1>10. EventTrue(log', event)
    <2>1. event.seq \in 1..Len(log'[event.w]) /\ event.seq - 1 = s
      BY <1>1, <1>3, <1>4
    <2> QED BY <1>1, <1>9, <2>1 DEF EventTrue
  <1>11. LastLogged'
    <2> SUFFICES ASSUME NEW v \in Watcher
                 PROVE  lastOutput'[v] = TextAt(log', v, streamSeq'[v])
      BY DEF LastLogged
    <2>1. CASE v = w
      BY <1>2, <1>9, <2>1 DEF TypeOK
    <2>2. CASE v # w
      <3>1. lastOutput'[v] = lastOutput[v] /\ streamSeq'[v] = streamSeq[v]
        BY <1>2, <2>2 DEF TypeOK
      <3> QED BY <1>5, <2>2, <3>1 DEF StreamInv, LastLogged, TextAt
    <2> QED BY <2>1, <2>2
  <1>12. LogTrue'
    <2> SUFFICES ASSUME NEW v \in Watcher, NEW n \in 1..Len(log'[v])
                 PROVE  EventTrue(log', log'[v][n].event)
      BY DEF LogTrue
    <2>1. CASE v = w /\ n = s + 1
      BY <1>1, <1>4, <1>10, <2>1
    <2>2. CASE ~(v = w /\ n = s + 1)
      <3>1. n \in 1..Len(log[v]) /\ log'[v][n] = log[v][n]
        BY <1>3, <1>4, <1>5, <2>2
      <3>2. log[v][n].event \in Event
        <4>1. log[v][n] \in LogEntry
          BY <3>1, ElementOfSeq DEF TypeOK
        <4> QED BY <4>1 DEF LogEntry
      <3> QED BY <1>8, <3>1, <3>2 DEF StreamInv, LogTrue
    <2> QED BY <2>1, <2>2
  <1>13. WireTrue'
    <2> SUFFICES ASSUME NEW c \in Client, NEW i \in 1..Len(wire'[c])
                 PROVE  EventTrue(log', wire'[c][i])
      BY DEF WireTrue
    <2>1. wire[c] \in Seq(Event) /\ Len(wire[c]) \in Nat
      BY LenProperties DEF TypeOK
    <2>2. wire'[c] = IF c \in R THEN Append(wire[c], event) ELSE wire[c]
      BY <1>2
    <2>3. wire'[c][i] = event \/ (i \in 1..Len(wire[c]) /\ wire'[c][i] = wire[c][i])
      <3>1. /\ Len(Append(wire[c], event)) = Len(wire[c]) + 1
            /\ \A j \in 1..Len(wire[c]) : Append(wire[c], event)[j] = wire[c][j]
            /\ Append(wire[c], event)[Len(wire[c]) + 1] = event
        BY <1>1, <2>1, AppendProperties
      <3>2. CASE c \in R
        <4>1. i \in 1..(Len(wire[c]) + 1)
          BY <2>2, <3>1, <3>2
        <4>2. i \in 1..Len(wire[c]) \/ i = Len(wire[c]) + 1
          BY <2>1, <4>1
        <4> QED BY <2>2, <3>1, <3>2, <4>2
      <3>3. CASE c \notin R
        BY <2>2, <3>3
      <3> QED BY <3>2, <3>3
    <2>4. CASE wire'[c][i] = event
      BY <1>10, <2>4
    <2>5. CASE i \in 1..Len(wire[c]) /\ wire'[c][i] = wire[c][i]
      <3>1. wire[c][i] \in Event
        BY <2>1, <2>5, ElementOfSeq
      <3> QED BY <1>8, <2>5, <3>1 DEF StreamInv, WireTrue
    <2> QED BY <2>3, <2>4, <2>5
  <1>14. FreshView'
    BY DEF StreamInv, FreshView
  <1>15. ViewExact'
    <2> SUFFICES ASSUME NEW c \in Client, NEW q \in Pane,
                        view[c][q].clean, view[c][q].w # 0
                 PROVE  LET v == view[c][q] IN
                        v.seq \in 1..Len(log'[v.w]) /\ v.text = log'[v.w][v.seq].text
      BY DEF ViewExact
    <2> DEFINE v == view[c][q]
    <2>1. v.seq \in 1..Len(log[v.w]) /\ v.text = log[v.w][v.seq].text
      BY DEF StreamInv, ViewExact
    <2>2. v.w \in Watcher
      <3>1. view[c][q] \in View
        BY DEF TypeOK
      <3>2. v.w \in 0..MaxWatchers /\ v.w # 0
        BY <3>1 DEF View
      <3> QED BY <3>2, EngineAssumption DEF Watcher
    <2>3. Len(log'[v.w]) \in Nat
      BY <2>2, LenProperties DEF TypeOK
    <2> HIDE DEF v
    <2>4. v.seq \in 1..Len(log'[v.w]) /\ log'[v.w][v.seq] = log[v.w][v.seq]
      BY <1>6, <1>7, <2>1, <2>2, <2>3 DEF Grows
    <2> QED BY <2>1, <2>4 DEF v
  <1> QED BY <1>11, <1>12, <1>13, <1>14, <1>15 DEF StreamInv

\* The other steps of the engine: what they put on a wire is true.
LEMMA SnapshotTrue ==
  ASSUME TypeOK, HistoryWindow, StreamInv, NEW w \in Watcher, NEW p \in Pane, streamSeq[w] > 0
  PROVE  LET e == EventOf(w, p, "snapshot", lastOutput[w], streamSeq[w]) IN
         e \in Event /\ EventTrue(log, e)
  <1> DEFINE e == EventOf(w, p, "snapshot", lastOutput[w], streamSeq[w])
  <1>1. /\ e.seq = streamSeq[w] /\ e.w = w /\ e.mode = "snapshot" /\ e.chunk = lastOutput[w]
        /\ lastOutput[w] \in Seq(Line) /\ streamSeq[w] \in Nat
    BY EngineAssumption DEF EventOf, TypeOK
  <1>2. e \in Event
    BY <1>1 DEF EventOf, Event, Mode
  <1> HIDE DEF e
  <1>3. Len(log[w]) = streamSeq[w] /\ lastOutput[w] = TextAt(log, w, streamSeq[w])
    BY DEF HistoryWindow, StreamInv, LastLogged
  <1>4. e.seq \in 1..Len(log[e.w])
    BY <1>1, <1>3
  <1>5. EventTrue(log, e)
    BY <1>1, <1>3, <1>4 DEF EventTrue
  <1> QED BY <1>2, <1>5 DEF e

LEMMA HistoryTrue ==
  ASSUME TypeOK, HistoryWindow, StreamInv, NEW w \in Watcher, NEW j \in 1..Len(history[w])
  PROVE  EventTrue(log, history[w][j])
  <1> DEFINE n == streamSeq[w] - Len(history[w]) + j
  <1>1. Len(history[w]) \in Nat /\ streamSeq[w] \in Nat
    BY LenProperties DEF TypeOK
  <1>2. /\ Len(log[w]) = streamSeq[w] /\ Len(history[w]) = Min({streamSeq[w], MaxHistory})
        /\ history[w][j] = log[w][n].event
    BY DEF HistoryWindow
  <1>3. Len(history[w]) <= streamSeq[w]
    BY <1>1, <1>2, MinOfTwo, EngineAssumption
  <1>4. n \in 1..Len(log[w])
    BY <1>1, <1>2, <1>3
  <1> HIDE DEF n
  <1> QED BY <1>2, <1>4 DEF StreamInv, LogTrue

\* Truth of the wires is all that the steps of the engine can disturb.
LEMMA QuietStream ==
  ASSUME StreamInv, UNCHANGED <<lastOutput, streamSeq, log, view>>, WireTrue'
  PROVE  StreamInv'
  BY DEF StreamInv, LastLogged, LogTrue, FreshView, ViewExact

LEMMA AttachStream ==
  ASSUME TypeOK, HistoryWindow, StreamInv, NEW c \in Client, NEW p \in Pane,
         \/ AttachNoCursor(c, p)
         \/ \E since \in 0..view[c][p].seq :
              AttachReplay(c, p, since) \/ AttachFallback(c, p, since)
  PROVE  StreamInv'
  <1>0. wire[c] \in Seq(Event) /\ Len(wire[c]) \in Nat
    BY LenProperties DEF TypeOK
  <1>1. ASSUME NEW r \in Seq(Event), wire' = [wire EXCEPT ![c] = wire[c] \o r],
               \A i \in 1..Len(r) : EventTrue(log, r[i]), log' = log
        PROVE  WireTrue'
    <2> SUFFICES ASSUME NEW d \in Client, NEW i \in 1..Len(wire'[d])
                 PROVE  EventTrue(log, wire'[d][i])
      BY <1>1 DEF WireTrue
    <2>1. CASE d # c
      BY <1>1, <2>1 DEF TypeOK, StreamInv, WireTrue
    <2>2. CASE d = c
      <3>1. wire'[d] = wire[c] \o r /\ Len(r) \in Nat
        BY <1>1, <2>2, LenProperties DEF TypeOK
      <3>2. /\ Len(wire[c] \o r) = Len(wire[c]) + Len(r)
            /\ \A j \in 1..(Len(wire[c]) + Len(r)) : (wire[c] \o r)[j] =
                 IF j <= Len(wire[c]) THEN wire[c][j] ELSE r[j - Len(wire[c])]
        BY <1>0, ConcatProperties
      <3>3. CASE i <= Len(wire[c])
        BY <1>0, <3>1, <3>2, <3>3 DEF StreamInv, WireTrue
      <3>4. CASE i > Len(wire[c])
        <4>1. i - Len(wire[c]) \in 1..Len(r) /\ wire'[d][i] = r[i - Len(wire[c])]
          BY <1>0, <3>1, <3>2, <3>4
        <4> QED BY <1>1, <4>1
      <3> QED BY <1>0, <3>1, <3>2, <3>3, <3>4
    <2> QED BY <2>1, <2>2
  <1>2. ASSUME AttachSnapshot(c, p), panes[p] # 0, streamSeq[panes[p]] > 0
        PROVE  StreamInv'
    <2> DEFINE w == panes[p]
               e == EventOf(w, p, "snapshot", lastOutput[w], streamSeq[w])
    <2>1. w \in Watcher
      BY <1>2, EngineAssumption DEF TypeOK, Watcher
    <2>2. e \in Event /\ EventTrue(log, e)
      BY <1>2, <2>1, SnapshotTrue
    <2>3. wire' = [wire EXCEPT ![c] = Append(wire[c], e)]
      BY <1>2 DEF AttachSnapshot
    <2> HIDE DEF e
    <2>4. Append(wire[c], e) = wire[c] \o <<e>>
      BY <1>0, <2>2, AppendIsConcat
    <2>5. <<e>> \in Seq(Event) /\ \A i \in 1..Len(<<e>>) : <<e>>[i] = e
      BY <2>2
    <2>6. UNCHANGED <<lastOutput, streamSeq, log, view>>
      BY <1>2 DEF AttachSnapshot
    <2>7. WireTrue'
      BY <1>1, <2>2, <2>3, <2>4, <2>5, <2>6
    <2> QED BY <2>6, <2>7, QuietStream
  <1>3. ASSUME NEW since \in 0..view[c][p].seq, AttachReplay(c, p, since) PROVE StreamInv'
    <2> DEFINE w == panes[p]
               r == Replayed(w, since)
    <2>1. w \in Watcher /\ since \in Nat
      BY <1>3, EngineAssumption DEF AttachReplay, TypeOK, Watcher, View
    <2>2. /\ r \in Seq(Event)
          /\ \A i \in 1..Len(r) : \E j \in 1..Len(history[w]) : r[i] = history[w][j]
      BY <2>1, ReplayedType
    <2>3. \A j \in 1..Len(history[w]) : EventTrue(log, history[w][j])
      BY <2>1, HistoryTrue
    <2>4. wire' = [wire EXCEPT ![c] = wire[c] \o r] /\ UNCHANGED <<lastOutput, streamSeq, log, view>>
      BY <1>3 DEF AttachReplay
    <2> HIDE DEF r
    <2>5. \A i \in 1..Len(r) : EventTrue(log, r[i])
      BY <2>2, <2>3
    <2>6. WireTrue'
      BY <1>1, <2>2, <2>4, <2>5
    <2> QED BY <2>4, <2>6, QuietStream
  <1> QED BY <1>2, <1>3 DEF AttachNoCursor, AttachFallback

-----------------------------------------------------------------------------
(* What a client shows is what the stream was *)

\* A view that is true of a log.
ViewTrue(L, v) ==
  /\ v.seq = 0 => v.text = << >>
  /\ v.clean /\ v.w # 0 => v.seq \in 1..Len(L[v.w]) /\ v.text = L[v.w][v.seq].text

\* A true event leads a true view to a true view.
LEMMA ApplyTrue ==
  ASSUME NEW L \in [Watcher -> Seq(LogEntry)], NEW v \in View, NEW e \in Event,
         EventTrue(L, e), ViewTrue(L, v)
  PROVE  ViewTrue(L, Apply(v, e))
  <1> DEFINE u == Apply(v, e)
  <1>1. /\ e.w \in Watcher /\ e.w # 0 /\ e.seq \in Nat /\ e.chunk \in Seq(Line)
        /\ e.mode \in {"snapshot", "delta"}
    BY EngineAssumption DEF Event, Mode, Watcher
  <1>2. v.seq \in Nat /\ v.text \in Seq(Line) /\ v.clean \in BOOLEAN
    BY DEF View
  <1>3. e.seq \in 1..Len(L[e.w]) /\ e.seq # 0
    BY <1>1 DEF EventTrue
  <1>4. CASE e.mode = "snapshot"
    <2>1. /\ u.w = e.w /\ u.seq = e.seq /\ u.text = e.chunk
      BY <1>4 DEF Apply
    <2>2. e.chunk = L[e.w][e.seq].text
      BY <1>3, <1>4 DEF EventTrue, TextAt
    <2> HIDE DEF u
    <2>3. ViewTrue(L, u)
      BY <1>3, <2>1, <2>2 DEF ViewTrue
    <2> QED BY <2>3 DEF u
  <1>5. CASE e.mode = "delta" /\ e.seq = v.seq + 1 /\ ~v.gap
    <2>1. /\ u.w = e.w /\ u.seq = e.seq /\ u.text = v.text \o e.chunk
          /\ u.clean = (v.clean /\ (v.w = e.w \/ v.seq = 0))
      BY <1>5 DEF Apply
    <2>2. TextAt(L, e.w, e.seq - 1) \o e.chunk = L[e.w][e.seq].text /\ e.seq - 1 = v.seq
      <3>1. TextAt(L, e.w, e.seq - 1) \o e.chunk = TextAt(L, e.w, e.seq)
        BY <1>5 DEF EventTrue
      <3>2. TextAt(L, e.w, e.seq) = L[e.w][e.seq].text
        BY <1>3 DEF TextAt
      <3>3. e.seq - 1 = v.seq
        BY <1>1, <1>2, <1>5
      <3> QED BY <3>1, <3>2, <3>3, Zenon
    <2>3. ASSUME u.clean PROVE v.text = TextAt(L, e.w, v.seq)
      <3>1. CASE v.seq = 0
        BY <3>1 DEF ViewTrue, TextAt
      <3>2. CASE v.seq # 0
        BY <1>1, <2>1, <2>3, <3>2 DEF ViewTrue, TextAt
      <3> QED BY <3>1, <3>2
    <2> HIDE DEF u
    <2>4. u.clean => u.text = L[e.w][e.seq].text
      BY <2>1, <2>2, <2>3
    <2>5. ViewTrue(L, u)
      BY <1>3, <2>1, <2>4 DEF ViewTrue
    <2> QED BY <2>5 DEF u
  <1>6. CASE e.mode = "delta" /\ ~(e.seq = v.seq + 1 /\ ~v.gap)
    <2>1. u = [v EXCEPT !.gap = @ \/ e.seq > v.seq + 1]
      BY <1>6 DEF Apply
    <2>2. u.w = v.w /\ u.seq = v.seq /\ u.text = v.text /\ u.clean = v.clean
      BY <2>1 DEF View
    <2> HIDE DEF u
    <2>3. ViewTrue(L, u)
      BY <2>2 DEF ViewTrue
    <2> QED BY <2>3 DEF u
  <1> QED BY <1>1, <1>4, <1>5, <1>6

LEMMA ReceiveStream ==
  ASSUME TypeOK, StreamInv, NEW c \in Client, Receive(c)
  PROVE  StreamInv'
  <1> DEFINE e == Head(wire[c])
  <1>1. /\ e \in Event /\ e = wire[c][1] /\ 1 \in 1..Len(wire[c])
        /\ Len(wire'[c]) = Len(wire[c]) - 1
        /\ \A i \in 1..Len(wire'[c]) : wire'[c][i] = wire[c][i + 1]
    BY ReceiveTypeOK
  <1>2. /\ view' = [view EXCEPT ![c][e.pane] = Apply(view[c][e.pane], e)]
        /\ wire' = [wire EXCEPT ![c] = Tail(wire[c])]
        /\ UNCHANGED <<lastOutput, streamSeq, log>>
    BY DEF Receive, engineVars
  <1>3. EventTrue(log, e)
    BY <1>1 DEF StreamInv, WireTrue
  <1>4. e.pane \in Pane
    BY <1>1 DEF Event
  <1> HIDE DEF e
  <1>5. \A d \in Client, q \in Pane : view[d][q] \in View /\ ViewTrue(log, view[d][q])
    BY DEF TypeOK, StreamInv, FreshView, ViewExact, ViewTrue
  <1>6. ViewTrue(log, Apply(view[c][e.pane], e))
    BY <1>1, <1>3, <1>4, <1>5, ApplyTrue, SMTT(60) DEF TypeOK
  <1>7. ASSUME NEW d \in Client, NEW q \in Pane PROVE ViewTrue(log, view'[d][q])
    <2>1. CASE d = c /\ q = e.pane
      BY <1>2, <1>6, <2>1 DEF TypeOK
    <2>2. CASE ~(d = c /\ q = e.pane)
      <3>1. view'[d][q] = view[d][q]
        BY <1>2, <1>4, <2>2 DEF TypeOK
      <3> QED BY <1>5, <3>1
    <2> QED BY <2>1, <2>2
  <1>8. FreshView' /\ ViewExact'
    BY <1>2, <1>7 DEF FreshView, ViewExact, ViewTrue
  <1>9. WireTrue'
    <2> SUFFICES ASSUME NEW d \in Client, NEW i \in 1..Len(wire'[d])
                 PROVE  EventTrue(log, wire'[d][i])
      BY <1>2 DEF WireTrue
    <2>1. CASE d = c
      <3>1. Len(wire[c]) \in Nat
        BY LenProperties DEF TypeOK
      <3>2. i + 1 \in 1..Len(wire[c])
        BY <1>1, <2>1, <3>1
      <3> QED BY <1>1, <2>1, <3>2 DEF StreamInv, WireTrue
    <2>2. CASE d # c
      BY <1>2, <2>2 DEF TypeOK, StreamInv, WireTrue
    <2> QED BY <2>1, <2>2
  <1>10. LastLogged' /\ LogTrue'
    BY <1>2 DEF StreamInv, LastLogged, LogTrue
  <1> QED BY <1>8, <1>9, <1>10 DEF StreamInv

LEMMA InitStream == Init => StreamInv
  <1> SUFFICES ASSUME Init PROVE StreamInv
    OBVIOUS
  <1>1. /\ \A w \in Watcher : lastOutput[w] = << >> /\ streamSeq[w] = 0 /\ log[w] = << >>
        /\ \A c \in Client : wire[c] = << >>
        /\ \A c \in Client, p \in Pane : view[c][p] = NoView
    BY DEF Init
  <1>2. Len(<< >>) = 0 /\ 1..0 = {}
    OBVIOUS
  <1>3. LastLogged
    BY <1>1 DEF LastLogged, TextAt
  <1>4. LogTrue /\ WireTrue
    BY <1>1, <1>2 DEF LogTrue, WireTrue
  <1>5. FreshView /\ ViewExact
    BY <1>1 DEF FreshView, ViewExact, NoView
  <1> QED BY <1>3, <1>4, <1>5 DEF StreamInv

LEMMA NextStream == TypeOK /\ HistoryWindow /\ StreamInv /\ [Next]_vars => StreamInv'
  <1> SUFFICES ASSUME TypeOK, HistoryWindow, StreamInv, [Next]_vars PROVE StreamInv'
    OBVIOUS
  <1>0. TypeOK'
    BY NextTypeOK
  <1>1. ASSUME UNCHANGED <<lastOutput, streamSeq, log, view, wire>> PROVE StreamInv'
    BY <1>1, QuietStream DEF StreamInv, WireTrue
  <1>2. ASSUME NEW c \in Client, NEW p \in Pane, AttachFirst(c, p) \/ Detach(c, p)
        PROVE  StreamInv'
    BY <1>1, <1>2 DEF AttachFirst, Detach
  <1>3. ASSUME NEW c \in Client, DetachAll(c) PROVE StreamInv'
    BY <1>1, <1>3 DEF DetachAll
  <1>4. ASSUME NEW c \in Client, Close(c) PROVE StreamInv'
    <2>1. /\ wire' = [wire EXCEPT ![c] = << >>]
          /\ UNCHANGED <<lastOutput, streamSeq, log, view>>
      BY <1>4 DEF Close
    <2>2. Len(<< >>) = 0 /\ 1..0 = {}
      OBVIOUS
    <2>3. ASSUME NEW d \in Client, NEW i \in 1..Len(wire'[d])
          PROVE  EventTrue(log', wire'[d][i])
      <3>1. wire'[d] = wire[d]
        BY <2>1, <2>2 DEF TypeOK
      <3> QED BY <2>1, <3>1 DEF StreamInv, WireTrue
    <2>4. WireTrue'
      BY <2>3 DEF WireTrue
    <2> QED BY <2>1, <2>4, QuietStream
  <1>5. ASSUME NEW k \in calls, AttachCapture(k) \/ AttachFail(k) PROVE StreamInv'
    BY <1>1, <1>5 DEF AttachCapture, AttachFail
  <1>6. ASSUME NEW k \in calls, AttachResume(k) PROVE StreamInv'
    <2>1. view' = view
      BY <1>6 DEF AttachResume
    <2> QED BY <1>0, <1>6, <2>1, ResumeEmits, CallType, EmitStream DEF Mode
  <1>7. ASSUME NEW entry \in pollTodo, PollEmit(entry) PROVE StreamInv'
    <2> DEFINE s == lastOutput[entry[2]]
               t == pollCapture.out
    <2>1. view' = view
      BY <1>7 DEF PollEmit
    <2>2. /\ entry[1] \in Pane /\ entry[2] \in Watcher /\ t \in Text /\ t \in Seq(Line)
          /\ s \in Seq(Line) /\ subscribers[entry[2]] \in SUBSET Client
          /\ deltaMode(s, t) \in Mode /\ deltaChunk(s, t) \in Seq(Line)
          /\ Emit(entry[2], entry[1], deltaMode(s, t), deltaChunk(s, t), t,
                  "poll", subscribers[entry[2]])
      BY <1>7, PollEmits
    <2>3. /\ deltaMode(s, t) = "snapshot" => deltaChunk(s, t) = t
          /\ deltaMode(s, t) = "delta" => s \o deltaChunk(s, t) = t
      BY <2>2, DeltaLeads
    <2> QED BY <1>0, <2>1, <2>2, <2>3, EmitStream
  <1>8. ASSUME NEW entry \in pollTodo, PollCapture(entry) \/ PollSkip(entry) PROVE StreamInv'
    BY <1>1, <1>8 DEF PollCapture, PollSkip
  <1>9. ASSUME NEW p \in Pane, NEW t \in Text, PaneChange(p, t) PROVE StreamInv'
    BY <1>1, <1>9 DEF PaneChange, engineVars
  <1>10. CASE PollStart \/ PollCaptureFail \/ UNCHANGED vars
    BY <1>1, <1>10 DEF PollStart, PollCaptureFail, vars, engineVars
  <1> QED BY <1>2, <1>3, <1>4, <1>5, <1>6, <1>7, <1>8, <1>9, <1>10, AttachStream,
             ReceiveStream DEF Next

\* A client fed by one watcher shows exactly a text the watcher had.
THEOREM EngineViewExact == Spec => []ViewExact
  <1>1. StreamInv => ViewExact
    BY DEF StreamInv
  <1> QED BY <1>1, InitTypeOK, InitStream, NextTypeOK, NextHistoryWindow, NextStream, PTL
          DEF Spec

-----------------------------------------------------------------------------
(* A subscriber in step misses nothing unknowingly                          *)

\* The watcher w is mapped, if at all, under the pane p.
Home(w, p) == w <= created /\ \A q \in Pane : panes[q] = w => q = p

\* A watcher belongs to one pane for good: entries, suspended attaches and
\* events that name a watcher name its pane.
HomeInv ==
  /\ \A p \in Pane : panes[p] # 0 => Home(panes[p], p)
  /\ \A entry \in pollTodo : Home(entry[2], entry[1])
  /\ \A k \in calls : Home(k.w, k.pane)
  /\ \A w \in Watcher : \A n \in 1..Len(log[w]) :
       log[w][n].event.w = w /\ Home(w, log[w][n].event.pane)
  /\ \A c \in Client : \A i \in 1..Len(wire[c]) : Home(wire[c][i].w, wire[c][i].pane)

\* The map loses entries, or gains one for a watcher that is new.
LEMMA HomeStays ==
  ASSUME TypeOK, HomeInv, [Next]_vars
  PROVE  /\ \A w \in Watcher, p \in Pane : Home(w, p) => Home(w, p)'
         /\ \A p \in Pane : panes'[p] # 0 => Home(panes[p], p)'
  <1>0. /\ created \in Nat /\ 0 <= created
        /\ \A p \in Pane : panes[p] \in Nat /\ panes[p] <= created
        /\ \A w \in Watcher : w \in Nat /\ w # 0
    <2>1. created \in Nat /\ \A p \in Pane : panes[p] \in Nat
      BY EngineAssumption DEF TypeOK
    <2>2. \A w \in Watcher : w \in Nat /\ w # 0
      BY EngineAssumption DEF Watcher
    <2> QED BY <2>1, <2>2 DEF HomeInv, Home
  <1>1. ASSUME created' = created, \A p \in Pane : panes'[p] \in {0, panes[p]}
        PROVE  /\ \A w \in Watcher, p \in Pane : Home(w, p) => Home(w, p)'
               /\ \A p \in Pane : panes'[p] # 0 => Home(panes[p], p)'
    <2>1. ASSUME NEW w \in Nat, w # 0, NEW p \in Pane, Home(w, p) PROVE Home(w, p)'
      <3>1. \A q \in Pane : panes'[q] = w => panes[q] = w
        BY <1>1, <2>1
      <3> QED BY <1>1, <2>1, <3>1 DEF Home
    <2>2. ASSUME NEW p \in Pane, panes'[p] # 0 PROVE Home(panes[p], p)'
      <3>1. panes'[p] = panes[p] /\ panes[p] \in Nat /\ panes[p] # 0
        BY <1>0, <1>1, <2>2
      <3>2. Home(panes[p], p)
        BY <3>1 DEF HomeInv
      <3>3. ASSUME NEW q \in Pane, panes'[q] = panes'[p] PROVE q = p
        BY <1>1, <3>1, <3>2, <3>3 DEF Home
      <3>4. panes'[p] <= created'
        BY <1>0, <1>1, <3>1
      <3> QED BY <3>3, <3>4 DEF Home
    <2> QED BY <1>0, <2>1, <2>2
  <1>2. ASSUME NEW c \in Client, NEW p \in Pane, AttachFirst(c, p)
        PROVE  /\ \A w \in Watcher, q \in Pane : Home(w, q) => Home(w, q)'
               /\ \A q \in Pane : panes'[q] # 0 => Home(panes[q], q)'
    <2> DEFINE new == IF panes[p] = 0 THEN created + 1 ELSE panes[p]
    <2>1. /\ panes' = [panes EXCEPT ![p] = new]
          /\ created' = IF panes[p] = 0 THEN new ELSE created
      BY <1>2, Zenon DEF AttachFirst
    <2>2. CASE panes[p] # 0
      BY <1>1, <2>1, <2>2 DEF TypeOK
    <2>3. CASE panes[p] = 0
      <3>1. created' = created + 1 /\ panes'[p] = created + 1
            /\ \A q \in Pane : q # p => panes'[q] = panes[q]
        BY <2>1, <2>3 DEF TypeOK
      <3>2. ASSUME NEW w \in Watcher, NEW q \in Pane, Home(w, q) PROVE Home(w, q)'
        <4>1. w <= created /\ w # created + 1 /\ w <= created'
          BY <1>0, <3>1, <3>2 DEF Home
        <4>2. \A r \in Pane : panes'[r] = w => panes[r] = w
          BY <3>1, <4>1
        <4> QED BY <3>2, <4>1, <4>2 DEF Home
      <3>3. ASSUME NEW q \in Pane, panes'[q] # 0 PROVE Home(panes[q], q)'
        <4>1. panes'[q] <= created'
          BY <1>0, <3>1
        <4>2. ASSUME NEW r \in Pane, panes'[r] = panes'[q] PROVE r = q
          <5>1. CASE q = p \/ r = p
            BY <1>0, <3>1, <4>2, <5>1
          <5>2. CASE q # p /\ r # p
            <6>1. panes[r] = panes[q] /\ panes[q] # 0
              BY <3>1, <3>3, <4>2, <5>2
            <6> QED BY <6>1 DEF HomeInv, Home
          <5> QED BY <5>1, <5>2
        <4> QED BY <4>1, <4>2 DEF Home
      <3> QED BY <3>2, <3>3
    <2> QED BY <2>2, <2>3
  <1>3. ASSUME NEW c \in Client, NEW P \in SUBSET Pane, Unsubscribe(c, P)
        PROVE  \A p \in Pane : panes'[p] \in {0, panes[p]}
    BY <1>3 DEF Unsubscribe
  <1>4. ASSUME NEW c \in Client, (\E p \in Pane : Detach(c, p)) \/ DetachAll(c) \/ Close(c)
        PROVE  created' = created /\ \A p \in Pane : panes'[p] \in {0, panes[p]}
    <2>1. \A p \in Pane : {p} \in SUBSET Pane
      OBVIOUS
    <2> QED BY <1>3, <1>4, <2>1 DEF Detach, DetachAll, Close
  <1>5. ASSUME NEW k \in calls, AttachFail(k)
        PROVE  created' = created /\ \A p \in Pane : panes'[p] \in {0, panes[p]}
    BY <1>5, CallType DEF AttachFail, TypeOK
  <1>6. ASSUME NEW c \in Client, NEW p \in Pane,
               \/ AttachNoCursor(c, p)
               \/ \E since \in 0..view[c][p].seq :
                    AttachReplay(c, p, since) \/ AttachFallback(c, p, since)
        PROVE  UNCHANGED <<panes, created>>
    BY <1>6 DEF AttachNoCursor, AttachReplay, AttachFallback, AttachSnapshot
  <1>7. ASSUME NEW k \in calls, AttachCapture(k) \/ AttachResume(k)
        PROVE  UNCHANGED <<panes, created>>
    BY <1>7 DEF AttachCapture, AttachResume
  <1>8. ASSUME NEW entry \in pollTodo, PollCapture(entry) \/ PollEmit(entry) \/ PollSkip(entry)
        PROVE  UNCHANGED <<panes, created>>
    BY <1>8 DEF PollCapture, PollEmit, PollSkip
  <1>9. ASSUME NEW c \in Client, Receive(c) PROVE UNCHANGED <<panes, created>>
    BY <1>9 DEF Receive, engineVars
  <1>10. ASSUME NEW p \in Pane, NEW t \in Text, PaneChange(p, t)
         PROVE  UNCHANGED <<panes, created>>
    BY <1>10 DEF PaneChange, engineVars
  <1>11. ASSUME PollStart \/ PollCaptureFail \/ UNCHANGED vars PROVE UNCHANGED <<panes, created>>
    BY <1>11 DEF PollStart, PollCaptureFail, vars, engineVars
  <1>12. ASSUME UNCHANGED <<panes, created>>
         PROVE  created' = created /\ \A p \in Pane : panes'[p] \in {0, panes[p]}
    BY <1>12
  <1>13. \/ \E c \in Client, p \in Pane : AttachFirst(c, p)
         \/ created' = created /\ \A p \in Pane : panes'[p] \in {0, panes[p]}
    BY <1>4, <1>5, <1>6, <1>7, <1>8, <1>9, <1>10, <1>11, <1>12 DEF Next
  <1> QED BY <1>1, <1>2, <1>13

\* What an attach to a started stream sends: a snapshot under the current
\* number, or every event after the cursor, all of the pane's watcher.
LEMMA AttachSends ==
  ASSUME TypeOK, HistoryWindow, HomeInv, NEW c \in Client, NEW p \in Pane,
         \/ AttachNoCursor(c, p)
         \/ \E since \in 0..view[c][p].seq :
              AttachReplay(c, p, since) \/ AttachFallback(c, p, since)
  PROVE  /\ panes[p] \in Watcher /\ streamSeq[panes[p]] > 0
         /\ Len(wire[c]) <= MaxUnread
         /\ subscribers' = [subscribers EXCEPT ![panes[p]] = @ \union {c}]
         /\ UNCHANGED <<panes, created, streamSeq, pollTodo, calls, view, log>>
         /\ \E r \in Seq(Event) :
              /\ wire' = [wire EXCEPT ![c] = wire[c] \o r]
              /\ \A i \in 1..Len(r) : r[i].w = panes[p] /\ Home(r[i].w, r[i].pane)
              /\ \/ Len(r) = 1 /\ r[1].mode = "snapshot" /\ r[1].seq = streamSeq[panes[p]]
                 \/ \E since \in 0..view[c][p].seq :
                      /\ Len(r) = streamSeq[panes[p]] - since /\ Len(r) > 0
                      /\ \A i \in 1..Len(r) : r[i].seq = since + i
  <1> DEFINE w == panes[p]
  <1>1. /\ w # 0 /\ streamSeq[w] > 0 /\ Len(wire[c]) <= MaxUnread
        /\ subscribers' = [subscribers EXCEPT ![w] = @ \union {c}]
        /\ UNCHANGED <<panes, created, streamSeq, pollTodo, calls, view, log>>
    BY DEF AttachNoCursor, AttachFallback, AttachSnapshot, AttachReplay
  <1>2. w \in Watcher /\ streamSeq[w] \in Nat /\ Home(w, p)
    BY <1>1, EngineAssumption DEF TypeOK, Watcher, HomeInv
  <1>3. ASSUME AttachSnapshot(c, p)
        PROVE  \E r \in Seq(Event) :
                 /\ wire' = [wire EXCEPT ![c] = wire[c] \o r]
                 /\ \A i \in 1..Len(r) : r[i].w = w /\ Home(r[i].w, r[i].pane)
                 /\ Len(r) = 1 /\ r[1].mode = "snapshot" /\ r[1].seq = streamSeq[w]
    <2> DEFINE e == EventOf(w, p, "snapshot", lastOutput[w], streamSeq[w])
    <2>1. /\ e \in Event /\ e.w = w /\ e.pane = p /\ e.mode = "snapshot"
          /\ e.seq = streamSeq[w]
      BY <1>2, EngineAssumption DEF EventOf, Event, Mode, TypeOK
    <2>2. wire' = [wire EXCEPT ![c] = Append(wire[c], e)]
      BY <1>3 DEF AttachSnapshot
    <2> HIDE DEF e, w
    <2>3. Append(wire[c], e) = wire[c] \o <<e>>
      BY <2>1, AppendIsConcat DEF TypeOK
    <2>4. <<e>> \in Seq(Event) /\ Len(<<e>>) = 1 /\ <<e>>[1] = e
          /\ \A i \in 1..Len(<<e>>) : <<e>>[i] = e
      BY <2>1
    <2> QED BY <1>2, <2>1, <2>2, <2>3, <2>4
  <1>4. ASSUME NEW since \in 0..view[c][p].seq, AttachReplay(c, p, since)
        PROVE  \E r \in Seq(Event) :
                 /\ wire' = [wire EXCEPT ![c] = wire[c] \o r]
                 /\ \A i \in 1..Len(r) : r[i].w = w /\ Home(r[i].w, r[i].pane)
                 /\ Len(r) = streamSeq[w] - since /\ Len(r) > 0
                 /\ \A i \in 1..Len(r) : r[i].seq = since + i
    <2> DEFINE r == Replayed(w, since)
               h == history[w]
    <2>1. since \in Nat
      BY DEF TypeOK, View
    <2>2. /\ wire' = [wire EXCEPT ![c] = wire[c] \o r]
          /\ Len(r) > 0 /\ r[1].seq = since + 1
      BY <1>4 DEF AttachReplay, CanReplay
    <2>3. /\ r \in Seq(Event)
          /\ \E kept \in 0..Len(h) :
               Len(r) = Len(h) - kept /\ \A i \in 1..(Len(h) - kept) : r[i] = h[kept + i]
      BY <1>2, <2>1, ReplayedType
    <2>4. /\ Len(h) \in Nat /\ Len(log[w]) = streamSeq[w]
          /\ Len(h) = Min({streamSeq[w], MaxHistory})
          /\ \A j \in 1..Len(h) : /\ h[j] = log[w][streamSeq[w] - Len(h) + j].event
                                  /\ h[j].seq = streamSeq[w] - Len(h) + j
      BY <1>2, LenProperties DEF TypeOK, HistoryWindow
    <2>5. Len(h) <= streamSeq[w]
      <3>1. MaxHistory \in Nat
        BY EngineAssumption
      <3>2. Min({streamSeq[w], MaxHistory}) =
              IF streamSeq[w] <= MaxHistory THEN streamSeq[w] ELSE MaxHistory
        BY <1>2, <3>1, MinOfTwo
      <3> HIDE DEF h, w
      <3> QED BY <1>2, <2>4, <3>1, <3>2
    <2>6. \A n \in 1..Len(log[w]) : log[w][n].event.w = w /\ Home(w, log[w][n].event.pane)
      BY <1>2 DEF HomeInv
    <2> HIDE DEF r, h, w
    <2>7. PICK kept \in 0..Len(h) :
            Len(r) = Len(h) - kept /\ \A i \in 1..(Len(h) - kept) : r[i] = h[kept + i]
      BY <2>3
    <2>8. ASSUME NEW i \in 1..Len(r)
          PROVE  /\ r[i].seq = streamSeq[w] - Len(h) + kept + i
                 /\ r[i].w = w /\ Home(r[i].w, r[i].pane)
      <3>0. i \in 1..(Len(h) - kept) /\ kept \in Nat /\ Len(h) \in Nat
        BY <2>4, <2>7
      <3>1. kept + i \in 1..Len(h) /\ r[i] = h[kept + i]
        BY <2>7, <3>0
      <3>2. streamSeq[w] - Len(h) + (kept + i) \in 1..Len(log[w])
        BY <1>2, <2>4, <2>5, <3>1
      <3>3. /\ h[kept + i] = log[w][streamSeq[w] - Len(h) + (kept + i)].event
            /\ h[kept + i].seq = streamSeq[w] - Len(h) + (kept + i)
        BY <2>4, <3>1
      <3>4. r[i].w = w /\ Home(r[i].w, r[i].pane)
        BY <2>6, <3>1, <3>2, <3>3
      <3>5. streamSeq[w] - Len(h) + (kept + i) = streamSeq[w] - Len(h) + kept + i
        BY <1>2, <2>4, <2>7
      <3> QED BY <3>1, <3>3, <3>4, <3>5
    <2>9. since = streamSeq[w] - Len(h) + kept /\ Len(r) = streamSeq[w] - since
      <3>1. 1 \in 1..Len(r)
        BY <2>2, <2>4, <2>7
      <3>2. r[1].seq = streamSeq[w] - Len(h) + kept + 1
        BY <2>8, <3>1
      <3>3. /\ since + 1 = streamSeq[w] - Len(h) + kept + 1 /\ Len(r) = Len(h) - kept
            /\ kept \in Nat /\ Len(h) \in Nat /\ streamSeq[w] \in Nat
        BY <1>2, <2>2, <2>4, <2>7, <3>2
      <3> QED BY <2>1, <3>3
    <2>10. \A i \in 1..Len(r) : r[i].seq = since + i
      BY <2>8, <2>9
    <2> QED BY <2>2, <2>3, <2>8, <2>9, <2>10
  <1>5. AttachSnapshot(c, p) \/ \E since \in 0..view[c][p].seq : AttachReplay(c, p, since)
    BY DEF AttachNoCursor, AttachFallback
  <1> HIDE DEF w
  <1>6. \E r \in Seq(Event) :
          /\ wire' = [wire EXCEPT ![c] = wire[c] \o r]
          /\ \A i \in 1..Len(r) : r[i].w = w /\ Home(r[i].w, r[i].pane)
          /\ \/ Len(r) = 1 /\ r[1].mode = "snapshot" /\ r[1].seq = streamSeq[w]
             \/ \E since \in 0..view[c][p].seq :
                  /\ Len(r) = streamSeq[w] - since /\ Len(r) > 0
                  /\ \A i \in 1..Len(r) : r[i].seq = since + i
    BY <1>3, <1>4, <1>5
  <1> QED BY <1>1, <1>2, <1>6 DEF w

\* The elements of a wire that was extended.
LEMMA WireExtended ==
  ASSUME TypeOK, NEW c \in Client, NEW r \in Seq(Event),
         wire' = [wire EXCEPT ![c] = wire[c] \o r]
  PROVE  /\ Len(wire[c]) \in Nat /\ Len(r) \in Nat
         /\ Len(wire'[c]) = Len(wire[c]) + Len(r)
         /\ \A i \in 1..Len(wire[c]) : wire'[c][i] = wire[c][i]
         /\ \A i \in 1..Len(r) : wire'[c][Len(wire[c]) + i] = r[i]
         /\ \A i \in (Len(wire[c]) + 1)..(Len(wire[c]) + Len(r)) :
              i - Len(wire[c]) \in 1..Len(r) /\ wire'[c][i] = r[i - Len(wire[c])]
         /\ \A d \in Client : d # c => wire'[d] = wire[d]
  <1>1. wire[c] \in Seq(Event) /\ Len(wire[c]) \in Nat /\ Len(r) \in Nat
    BY LenProperties DEF TypeOK
  <1>2. wire'[c] = wire[c] \o r /\ \A d \in Client : d # c => wire'[d] = wire[d]
    BY DEF TypeOK
  <1>3. /\ Len(wire[c] \o r) = Len(wire[c]) + Len(r)
        /\ \A j \in 1..(Len(wire[c]) + Len(r)) : (wire[c] \o r)[j] =
             IF j <= Len(wire[c]) THEN wire[c][j] ELSE r[j - Len(wire[c])]
    BY <1>1, ConcatProperties
  <1>4. ASSUME NEW i \in (Len(wire[c]) + 1)..(Len(wire[c]) + Len(r))
        PROVE  i - Len(wire[c]) \in 1..Len(r) /\ wire'[c][i] = r[i - Len(wire[c])]
    BY <1>1, <1>2, <1>3
  <1>5. ASSUME NEW i \in 1..Len(r) PROVE wire'[c][Len(wire[c]) + i] = r[i]
    <2>1. /\ Len(wire[c]) + i \in (Len(wire[c]) + 1)..(Len(wire[c]) + Len(r))
          /\ (Len(wire[c]) + i) - Len(wire[c]) = i
      BY <1>1
    <2> QED BY <1>4, <2>1
  <1>6. ASSUME NEW i \in 1..Len(wire[c]) PROVE wire'[c][i] = wire[c][i]
    BY <1>1, <1>2, <1>3
  <1> QED BY <1>1, <1>2, <1>3, <1>4, <1>5, <1>6

\* What Emit does to the log and to a wire.
LEMMA EmitSends ==
  ASSUME TypeOK, HistoryWindow, NEW w \in Watcher, NEW p \in Pane, NEW mode \in Mode,
         NEW chunk \in Seq(Line), NEW output \in Text, NEW by \in {"poll", "attach"},
         NEW R \in SUBSET Client, Emit(w, p, mode, chunk, output, by, R)
  PROVE  \E event \in Event :
           /\ event.w = w /\ event.pane = p /\ event.seq = streamSeq[w] + 1
           /\ streamSeq' = [streamSeq EXCEPT ![w] = @ + 1]
           /\ streamSeq[w] \in Nat /\ Len(log[w]) = streamSeq[w]
           /\ Len(log'[w]) = streamSeq[w] + 1
           /\ \A n \in 1..streamSeq[w] : log'[w][n] = log[w][n]
           /\ log'[w][streamSeq[w] + 1].event = event
           /\ log'[w][streamSeq[w] + 1].by = by
           /\ \A v \in Watcher : v # w => log'[v] = log[v]
           /\ \A c \in Client : c \notin R => wire'[c] = wire[c]
           /\ \A c \in R : /\ Len(wire[c]) \in Nat
                           /\ Len(wire'[c]) = Len(wire[c]) + 1
                           /\ \A i \in 1..Len(wire[c]) : wire'[c][i] = wire[c][i]
                           /\ wire'[c][Len(wire[c]) + 1] = event
  <1> DEFINE event == EventOf(w, p, mode, chunk, streamSeq[w] + 1)
             entry == [event |-> event, text |-> output, by |-> by]
  <1>1. /\ event \in Event /\ entry \in LogEntry /\ event.seq = streamSeq[w] + 1
        /\ event.w = w /\ event.pane = p /\ entry.event = event /\ entry.by = by
    BY EmitType DEF EventOf, LogEntry
  <1>2. /\ streamSeq' = [streamSeq EXCEPT ![w] = @ + 1]
        /\ log' = [log EXCEPT ![w] = Append(log[w], entry)]
        /\ wire' = [c \in Client |-> IF c \in R THEN Append(wire[c], event) ELSE wire[c]]
    BY DEF Emit
  <1>3. streamSeq[w] \in Nat /\ log[w] \in Seq(LogEntry) /\ Len(log[w]) = streamSeq[w]
    BY DEF TypeOK, HistoryWindow
  <1> HIDE DEF event, entry
  <1>4. /\ Len(log'[w]) = streamSeq[w] + 1
        /\ \A n \in 1..streamSeq[w] : log'[w][n] = log[w][n]
        /\ log'[w][streamSeq[w] + 1] = entry
    <2>1. log'[w] = Append(log[w], entry)
      BY <1>2 DEF TypeOK
    <2> QED BY <1>1, <1>3, <2>1, AppendProperties
  <1>5. \A v \in Watcher : v # w => log'[v] = log[v]
    BY <1>2 DEF TypeOK
  <1>6. \A c \in Client : c \notin R => wire'[c] = wire[c]
    BY <1>2
  <1>7. ASSUME NEW c \in R
        PROVE  /\ Len(wire[c]) \in Nat
               /\ Len(wire'[c]) = Len(wire[c]) + 1
               /\ \A i \in 1..Len(wire[c]) : wire'[c][i] = wire[c][i]
               /\ wire'[c][Len(wire[c]) + 1] = event
    <2>1. c \in Client /\ wire[c] \in Seq(Event)
      BY DEF TypeOK
    <2>2. wire'[c] = Append(wire[c], event) /\ Len(wire[c]) \in Nat
      BY <1>2, <2>1, LenProperties
    <2> QED BY <1>1, <2>1, <2>2, AppendProperties
  <1> QED BY <1>1, <1>2, <1>3, <1>4, <1>5, <1>6, <1>7

LEMMA EmitHome ==
  ASSUME TypeOK, TypeOK', HistoryWindow, HomeInv, UNCHANGED <<panes, created>>,
         NEW w \in Watcher, NEW p \in Pane, NEW mode \in Mode,
         NEW chunk \in Seq(Line), NEW output \in Text, NEW by \in {"poll", "attach"},
         NEW R \in SUBSET Client, Emit(w, p, mode, chunk, output, by, R), Home(w, p)
  PROVE  /\ \A v \in Watcher : \A n \in 1..Len(log'[v]) :
              log'[v][n].event.w = v /\ Home(v, log'[v][n].event.pane)
         /\ \A c \in Client : \A i \in 1..Len(wire'[c]) : Home(wire'[c][i].w, wire'[c][i].pane)
  <1> DEFINE s == streamSeq[w]
  <1>1. PICK event \in Event :
           /\ event.w = w /\ event.pane = p
           /\ s \in Nat /\ Len(log[w]) = s /\ Len(log'[w]) = s + 1
           /\ \A n \in 1..s : log'[w][n] = log[w][n]
           /\ log'[w][s + 1].event = event
           /\ \A v \in Watcher : v # w => log'[v] = log[v]
           /\ \A c \in Client : c \notin R => wire'[c] = wire[c]
           /\ \A c \in R : /\ Len(wire[c]) \in Nat
                           /\ Len(wire'[c]) = Len(wire[c]) + 1
                           /\ \A i \in 1..Len(wire[c]) : wire'[c][i] = wire[c][i]
                           /\ wire'[c][Len(wire[c]) + 1] = event
    BY EmitSends, SMTT(60)
  <1> HIDE DEF s
  <1>2. ASSUME NEW v \in Watcher, NEW n \in 1..Len(log'[v])
        PROVE  log'[v][n].event.w = v /\ Home(v, log'[v][n].event.pane)
    <2>1. CASE v = w /\ n = s + 1
      BY <1>1, <2>1
    <2>2. CASE ~(v = w /\ n = s + 1)
      <3>1. n \in 1..Len(log[v]) /\ log'[v][n] = log[v][n]
        BY <1>1, <2>2
      <3> QED BY <3>1 DEF HomeInv
    <2> QED BY <2>1, <2>2
  <1>3. ASSUME NEW c \in Client, NEW i \in 1..Len(wire'[c])
        PROVE  Home(wire'[c][i].w, wire'[c][i].pane)
    <2>1. CASE c \notin R
      BY <1>1, <2>1 DEF HomeInv
    <2>2. CASE c \in R
      <3>1. i \in 1..Len(wire[c]) \/ i = Len(wire[c]) + 1
        BY <1>1, <2>2
      <3>2. CASE i \in 1..Len(wire[c])
        <4>1. wire'[c][i] = wire[c][i]
          BY <1>1, <2>2, <3>2
        <4> QED BY <3>2, <4>1 DEF HomeInv
      <3>3. CASE i = Len(wire[c]) + 1
        BY <1>1, <2>2, <3>3
      <3> QED BY <3>1, <3>2, <3>3
    <2> QED BY <2>1, <2>2
  <1> QED BY <1>2, <1>3

\* Entries and suspended attaches: what a step adds is mapped.
LEMMA NextHomeEntries ==
  ASSUME TypeOK, HomeInv, [Next]_vars
  PROVE  /\ \A entry \in pollTodo' : Home(entry[2], entry[1])'
         /\ \A k \in calls' : Home(k.w, k.pane)'
  <1>1. /\ \A w \in Watcher, p \in Pane : Home(w, p) => Home(w, p)'
        /\ \A p \in Pane : panes'[p] # 0 => Home(panes[p], p)'
    BY HomeStays
  <1>2. /\ \A entry \in pollTodo : entry[1] \in Pane /\ entry[2] \in Watcher
        /\ \A k \in calls : k.w \in Watcher /\ k.pane \in Pane /\ k \in Call
    BY CallType DEF TypeOK
  <1>3. pollTodo' \subseteq pollTodo \/ PollStart
    <2>1. ASSUME NEW c \in Client, NEW p \in Pane,
                 \/ AttachFirst(c, p) \/ AttachNoCursor(c, p)
                 \/ \E since \in 0..view[c][p].seq :
                      AttachReplay(c, p, since) \/ AttachFallback(c, p, since)
                 \/ Detach(c, p)
          PROVE  pollTodo' = pollTodo
      BY <2>1 DEF AttachFirst, AttachNoCursor, AttachFallback, AttachSnapshot, AttachReplay,
         Detach
    <2>2. ASSUME NEW c \in Client, DetachAll(c) \/ Close(c) \/ Receive(c)
          PROVE  pollTodo' = pollTodo
      BY <2>2 DEF DetachAll, Close, Receive, engineVars
    <2>3. ASSUME NEW k \in calls, AttachCapture(k) \/ AttachResume(k) \/ AttachFail(k)
          PROVE  pollTodo' = pollTodo
      BY <2>3 DEF AttachCapture, AttachResume, AttachFail
    <2>4. ASSUME NEW entry \in pollTodo,
                 PollCapture(entry) \/ PollEmit(entry) \/ PollSkip(entry)
          PROVE  pollTodo' \subseteq pollTodo
      BY <2>4 DEF PollCapture, PollEmit, PollSkip, NextEntry
    <2>5. ASSUME NEW p \in Pane, NEW t \in Text, PaneChange(p, t) PROVE pollTodo' = pollTodo
      BY <2>5 DEF PaneChange, engineVars
    <2>6. ASSUME PollCaptureFail \/ UNCHANGED vars PROVE pollTodo' = pollTodo
      BY <2>6 DEF PollCaptureFail, vars, engineVars
    <2> QED BY <2>1, <2>2, <2>3, <2>4, <2>5, <2>6 DEF Next
  <1>4. \A entry \in pollTodo' : Home(entry[2], entry[1])'
    <2>1. CASE pollTodo' \subseteq pollTodo
      BY <1>1, <1>2, <2>1 DEF HomeInv
    <2>2. CASE PollStart
      <3>1. /\ pollTodo' = {<<p, panes[p]>> : p \in {q \in Pane : panes[q] # 0}}
            /\ panes' = panes
        BY <2>2 DEF PollStart
      <3>2. \A p \in Pane : panes[p] # 0 => Home(panes[p], p) /\ panes[p] \in Watcher
        BY EngineAssumption DEF HomeInv, TypeOK, Watcher
      <3> QED BY <1>1, <3>1, <3>2
    <2> QED BY <1>3, <2>1, <2>2
  <1>5. ASSUME NEW k \in calls'
        PROVE  \/ \E j \in calls : k.w = j.w /\ k.pane = j.pane
               \/ k.pane \in Pane /\ k.w # 0 /\ k.w = panes'[k.pane]
    <2>1. ASSUME NEW c \in Client, NEW p \in Pane, AttachFirst(c, p)
          PROVE  k \in calls \/ (k.pane \in Pane /\ k.w # 0 /\ k.w = panes'[k.pane])
      <3> DEFINE w == IF panes[p] = 0 THEN created + 1 ELSE panes[p]
      <3>1. /\ w \in Watcher
            /\ panes' = [panes EXCEPT ![p] = w]
            /\ \E id \in CallId :
                 calls' = calls \union {[id |-> id, client |-> c, pane |-> p, w |-> w,
                                        open |-> TRUE, capture |-> PendingCapture]}
        BY <2>1, Zenon DEF AttachFirst
      <3>2. panes'[p] = w /\ w # 0
        BY <3>1, EngineAssumption DEF TypeOK, Watcher
      <3> HIDE DEF w
      <3> QED BY <3>1, <3>2
    <2>2. ASSUME NEW c \in Client, Close(c)
          PROVE  \E j \in calls : k.w = j.w /\ k.pane = j.pane
      <3>1. PICK j \in calls : k = IF j.client = c THEN [j EXCEPT !.open = FALSE] ELSE j
        BY <2>2 DEF Close
      <3>2. k.w = j.w /\ k.pane = j.pane
        BY <1>2, <3>1 DEF Call
      <3> QED BY <3>2
    <2>3. ASSUME NEW j \in calls, AttachCapture(j)
          PROVE  \E l \in calls : k.w = l.w /\ k.pane = l.pane
      <3>1. \A r : [j EXCEPT !.capture = r].w = j.w /\ [j EXCEPT !.capture = r].pane = j.pane
        BY <1>2 DEF Call
      <3> QED BY <2>3, <3>1 DEF AttachCapture
    <2>4. ASSUME calls' \subseteq calls
          PROVE  \E j \in calls : k.w = j.w /\ k.pane = j.pane
      BY <2>4
    <2>5. ASSUME NEW c \in Client, NEW p \in Pane,
                 \/ AttachNoCursor(c, p)
                 \/ \E since \in 0..view[c][p].seq :
                      AttachReplay(c, p, since) \/ AttachFallback(c, p, since)
                 \/ Detach(c, p)
          PROVE  calls' \subseteq calls
      BY <2>5 DEF AttachNoCursor, AttachFallback, AttachSnapshot, AttachReplay, Detach
    <2>6. ASSUME NEW c \in Client, DetachAll(c) \/ Receive(c) PROVE calls' \subseteq calls
      BY <2>6 DEF DetachAll, Receive, engineVars
    <2>7. ASSUME NEW j \in calls, AttachResume(j) \/ AttachFail(j) PROVE calls' \subseteq calls
      BY <2>7 DEF AttachResume, AttachFail
    <2>8. ASSUME NEW entry \in pollTodo,
                 PollCapture(entry) \/ PollEmit(entry) \/ PollSkip(entry)
          PROVE  calls' \subseteq calls
      BY <2>8 DEF PollCapture, PollEmit, PollSkip
    <2>9. ASSUME NEW p \in Pane, NEW t \in Text, PaneChange(p, t) PROVE calls' \subseteq calls
      BY <2>9 DEF PaneChange, engineVars
    <2>10. ASSUME PollStart \/ PollCaptureFail \/ UNCHANGED vars PROVE calls' \subseteq calls
      BY <2>10 DEF PollStart, PollCaptureFail, vars, engineVars
    <2> QED BY <2>1, <2>2, <2>3, <2>4, <2>5, <2>6, <2>7, <2>8, <2>9, <2>10 DEF Next
  <1>6. ASSUME NEW k \in calls' PROVE Home(k.w, k.pane)'
    <2>1. CASE \E j \in calls : k.w = j.w /\ k.pane = j.pane
      BY <1>1, <1>2, <2>1 DEF HomeInv
    <2>2. CASE k.pane \in Pane /\ k.w # 0 /\ k.w = panes'[k.pane]
      BY <1>1, <2>2
    <2> QED BY <1>5, <2>1, <2>2
  <1> QED BY <1>4, <1>6

\* A step sends events (an attach, or an emission), delivers one, cuts a wire,
\* or leaves the wires alone.
LEMMA WireSteps ==
  ASSUME [Next]_vars
  PROVE  \/ \E c \in Client, p \in Pane :
              \/ AttachNoCursor(c, p)
              \/ \E since \in 0..view[c][p].seq :
                   AttachReplay(c, p, since) \/ AttachFallback(c, p, since)
         \/ \E k \in calls : AttachResume(k)
         \/ \E entry \in pollTodo : PollEmit(entry)
         \/ \E c \in Client : Receive(c)
         \/ \E c \in Client : Close(c)
         \/ UNCHANGED <<streamSeq, log, wire, view>>
  <1> DEFINE Quiet == UNCHANGED <<streamSeq, log, wire, view>>
  <1>1. ASSUME NEW c \in Client, NEW p \in Pane, AttachFirst(c, p) \/ Detach(c, p)
        PROVE  Quiet
    BY <1>1 DEF AttachFirst, Detach
  <1>2. ASSUME NEW c \in Client, DetachAll(c) PROVE Quiet
    BY <1>2 DEF DetachAll
  <1>3. ASSUME NEW k \in calls, AttachCapture(k) \/ AttachFail(k) PROVE Quiet
    BY <1>3 DEF AttachCapture, AttachFail
  <1>4. ASSUME NEW entry \in pollTodo, PollCapture(entry) \/ PollSkip(entry) PROVE Quiet
    BY <1>4 DEF PollCapture, PollSkip
  <1>5. ASSUME NEW p \in Pane, NEW t \in Text, PaneChange(p, t) PROVE Quiet
    BY <1>5 DEF PaneChange, engineVars
  <1>6. ASSUME PollStart \/ PollCaptureFail \/ UNCHANGED vars PROVE Quiet
    BY <1>6 DEF PollStart, PollCaptureFail, vars, engineVars
  <1> HIDE DEF Quiet
  <1>7. \/ \E c \in Client, p \in Pane :
             \/ AttachNoCursor(c, p)
             \/ \E since \in 0..view[c][p].seq :
                  AttachReplay(c, p, since) \/ AttachFallback(c, p, since)
        \/ \E k \in calls : AttachResume(k)
        \/ \E entry \in pollTodo : PollEmit(entry)
        \/ \E c \in Client : Receive(c)
        \/ \E c \in Client : Close(c)
        \/ Quiet
    BY <1>1, <1>2, <1>3, <1>4, <1>5, <1>6 DEF Next
  <1> QED BY <1>7 DEF Quiet

LEMMA NextHomeInv == TypeOK /\ HistoryWindow /\ HomeInv /\ [Next]_vars => HomeInv'
  <1> SUFFICES ASSUME TypeOK, HistoryWindow, HomeInv, [Next]_vars PROVE HomeInv'
    OBVIOUS
  <1> DEFINE LogHome == \A w \in Watcher : \A n \in 1..Len(log'[w]) :
                          log'[w][n].event.w = w /\ Home(w, log'[w][n].event.pane)
             WireHome == \A c \in Client : \A i \in 1..Len(wire'[c]) :
                           Home(wire'[c][i].w, wire'[c][i].pane)
  <1>0. TypeOK'
    BY NextTypeOK
  <1>1. /\ \A w \in Watcher, p \in Pane : Home(w, p) => Home(w, p)'
        /\ \A p \in Pane : panes'[p] # 0 => Home(panes[p], p)'
        /\ \A entry \in pollTodo' : Home(entry[2], entry[1])'
        /\ \A k \in calls' : Home(k.w, k.pane)'
    BY HomeStays, NextHomeEntries
  <1>2. /\ \A w \in Watcher : \A n \in 1..Len(log'[w]) : log'[w][n].event.pane \in Pane
        /\ \A c \in Client : \A i \in 1..Len(wire'[c]) :
             wire'[c][i].w \in Watcher /\ wire'[c][i].pane \in Pane
    <2>1. ASSUME NEW w \in Watcher, NEW n \in 1..Len(log'[w])
          PROVE  log'[w][n].event.pane \in Pane
      <3>1. log'[w][n] \in LogEntry
        BY <1>0, ElementOfSeq DEF TypeOK
      <3> QED BY <3>1 DEF LogEntry, Event
    <2>2. ASSUME NEW c \in Client, NEW i \in 1..Len(wire'[c])
          PROVE  wire'[c][i].w \in Watcher /\ wire'[c][i].pane \in Pane
      <3>1. wire'[c][i] \in Event
        BY <1>0, ElementOfSeq DEF TypeOK
      <3> QED BY <3>1 DEF Event
    <2> QED BY <2>1, <2>2
  <1>3. ASSUME LogHome, WireHome PROVE HomeInv'
    <2>1. \A w \in Watcher : \A n \in 1..Len(log'[w]) :
            log'[w][n].event.w = w /\ Home(w, log[w][n].event.pane)'
      <3> SUFFICES ASSUME NEW w \in Watcher, NEW n \in 1..Len(log'[w])
                   PROVE  log'[w][n].event.w = w /\ Home(w, log[w][n].event.pane)'
        OBVIOUS
      <3>1. PICK q \in Pane : q = log'[w][n].event.pane
        BY <1>2
      <3>2. Home(w, q)'
        BY <1>1, <1>3, <3>1
      <3> QED BY <1>3, <3>1, <3>2
    <2>2. \A c \in Client : \A i \in 1..Len(wire'[c]) : Home(wire[c][i].w, wire[c][i].pane)'
      <3> SUFFICES ASSUME NEW c \in Client, NEW i \in 1..Len(wire'[c])
                   PROVE  Home(wire[c][i].w, wire[c][i].pane)'
        OBVIOUS
      <3>1. PICK w \in Watcher, q \in Pane : w = wire'[c][i].w /\ q = wire'[c][i].pane
        BY <1>2
      <3>2. Home(w, q)'
        BY <1>1, <1>3, <3>1
      <3> QED BY <3>1, <3>2
    <2> QED BY <1>1, <2>1, <2>2 DEF HomeInv
  <1>4. ASSUME log' = log PROVE LogHome
    BY <1>4 DEF HomeInv
  <1>5. ASSUME NEW c \in Client, NEW p \in Pane,
               \/ AttachNoCursor(c, p)
               \/ \E since \in 0..view[c][p].seq :
                    AttachReplay(c, p, since) \/ AttachFallback(c, p, since)
        PROVE  LogHome /\ WireHome
    <2>1. PICK r \in Seq(Event) :
             /\ wire' = [wire EXCEPT ![c] = wire[c] \o r]
             /\ \A i \in 1..Len(r) : Home(r[i].w, r[i].pane)
      BY <1>5, AttachSends
    <2>2. log' = log
      BY <1>5, AttachSends
    <2>3. ASSUME NEW d \in Client, NEW i \in 1..Len(wire'[d])
          PROVE  Home(wire'[d][i].w, wire'[d][i].pane)
      <3>1. CASE d # c
        <4>1. wire'[d] = wire[d]
          BY <2>1, <3>1, WireExtended
        <4> QED BY <4>1 DEF HomeInv
      <3>2. CASE d = c
        <4>1. /\ i \in 1..Len(wire[c]) \/ i \in (Len(wire[c]) + 1)..(Len(wire[c]) + Len(r))
              /\ \A j \in 1..Len(wire[c]) : wire'[c][j] = wire[c][j]
              /\ \A j \in (Len(wire[c]) + 1)..(Len(wire[c]) + Len(r)) :
                   j - Len(wire[c]) \in 1..Len(r) /\ wire'[c][j] = r[j - Len(wire[c])]
          <5>1. /\ Len(wire[c]) \in Nat /\ Len(r) \in Nat
                /\ Len(wire'[c]) = Len(wire[c]) + Len(r)
                /\ \A j \in 1..Len(wire[c]) : wire'[c][j] = wire[c][j]
                /\ \A j \in (Len(wire[c]) + 1)..(Len(wire[c]) + Len(r)) :
                     j - Len(wire[c]) \in 1..Len(r) /\ wire'[c][j] = r[j - Len(wire[c])]
            BY <2>1, WireExtended
          <5>2. i \in 1..Len(wire[c]) \/ i \in (Len(wire[c]) + 1)..(Len(wire[c]) + Len(r))
            BY <3>2, <5>1
          <5> QED BY <5>1, <5>2
        <4>2. CASE i \in 1..Len(wire[c])
          BY <3>2, <4>1, <4>2 DEF HomeInv
        <4>3. CASE i \in (Len(wire[c]) + 1)..(Len(wire[c]) + Len(r))
          BY <2>1, <3>2, <4>1, <4>3
        <4> QED BY <4>1, <4>2, <4>3
      <3> QED BY <3>1, <3>2
    <2> QED BY <1>4, <2>2, <2>3
  <1>6. ASSUME NEW k \in calls, AttachResume(k) PROVE LogHome /\ WireHome
    <2>1. UNCHANGED <<panes, created>>
      BY <1>6 DEF AttachResume
    <2>2. Home(k.w, k.pane) /\ "snapshot" \in Mode
      BY DEF HomeInv, Mode
    <2> QED BY <1>0, <1>6, <2>1, <2>2, ResumeEmits, CallType, EmitHome
  <1>7. ASSUME NEW entry \in pollTodo, PollEmit(entry) PROVE LogHome /\ WireHome
    <2>1. UNCHANGED <<panes, created>>
      BY <1>7 DEF PollEmit
    <2>2. Home(entry[2], entry[1])
      BY DEF HomeInv
    <2> QED BY <1>0, <1>7, <2>1, <2>2, PollEmits, EmitHome
  <1>8. ASSUME NEW c \in Client, Receive(c) PROVE LogHome /\ WireHome
    <2>1. /\ Len(wire'[c]) = Len(wire[c]) - 1 /\ 1 \in 1..Len(wire[c])
          /\ \A i \in 1..Len(wire'[c]) : wire'[c][i] = wire[c][i + 1]
      BY <1>8, ReceiveTypeOK
    <2>2. log' = log /\ wire' = [wire EXCEPT ![c] = Tail(@)]
      BY <1>8 DEF Receive
    <2>3. ASSUME NEW d \in Client, NEW i \in 1..Len(wire'[d])
          PROVE  Home(wire'[d][i].w, wire'[d][i].pane)
      <3>1. CASE d # c
        <4>1. wire'[d] = wire[d]
          BY <2>2, <3>1 DEF TypeOK
        <4> QED BY <4>1 DEF HomeInv
      <3>2. CASE d = c
        <4>1. Len(wire[c]) \in Nat
          BY LenProperties DEF TypeOK
        <4>2. i + 1 \in 1..Len(wire[c]) /\ wire'[c][i] = wire[c][i + 1]
          BY <2>1, <3>2, <4>1
        <4> QED BY <3>2, <4>2 DEF HomeInv
      <3> QED BY <3>1, <3>2
    <2> QED BY <1>4, <2>2, <2>3
  <1>9. ASSUME NEW c \in Client, Close(c) PROVE LogHome /\ WireHome
    <2>1. log' = log /\ wire' = [wire EXCEPT ![c] = << >>]
      BY <1>9 DEF Close
    <2>2. ASSUME NEW d \in Client, NEW i \in 1..Len(wire'[d]) PROVE wire'[d] = wire[d]
      BY <2>1, <2>2 DEF TypeOK
    <2> QED BY <1>4, <2>1, <2>2 DEF HomeInv
  <1>10. ASSUME UNCHANGED <<streamSeq, log, wire, view>> PROVE LogHome /\ WireHome
    BY <1>4, <1>10 DEF HomeInv
  <1> HIDE DEF LogHome, WireHome
  <1> QED BY <1>3, <1>5, <1>6, <1>7, <1>8, <1>9, <1>10, WireSteps

\* Of every event of w after number n, unless an attach sent it to another
\* client only, c's wire tells behind position i.
Owed(c, w, n, i) ==
  \A s \in (n + 1)..streamSeq[w] :
    \/ log[w][s].by = "attach"
    \/ \E j \in (i + 1)..Len(wire[c]) : Tells(wire[c][j], w, s)

\* This holds from where the view is and, for when it will have come there,
\* from every event of w on the wire: a snapshot under way may take over a
\* view that has a gap or follows another watcher.
InStep(c, p, w) ==
  /\ view[c][p].w = w /\ ~view[c][p].gap => Owed(c, w, view[c][p].seq, 0)
  /\ \A i \in 1..Len(wire[c]) : wire[c][i].w = w => Owed(c, w, wire[c][i].seq, i)

LossInv ==
  \A p \in Pane, w \in Watcher : panes[p] = w => \A c \in subscribers[w] : InStep(c, p, w)

LEMMA InStepTypes ==
  ASSUME TypeOK, NEW c \in Client, NEW p \in Pane, NEW w \in Watcher
  PROVE  /\ Len(wire[c]) \in Nat /\ streamSeq[w] \in Nat
         /\ view[c][p] \in View /\ view[c][p].seq \in Nat
         /\ \A i \in 1..Len(wire[c]) : wire[c][i] \in Event /\ wire[c][i].seq \in Nat
  <1>1. Len(wire[c]) \in Nat /\ streamSeq[w] \in Nat /\ view[c][p] \in View
    BY LenProperties DEF TypeOK
  <1>2. \A i \in 1..Len(wire[c]) : wire[c][i] \in Event
    BY ElementOfSeq DEF TypeOK
  <1> QED BY <1>1, <1>2 DEF View, Event

\* A stream goes on and the client is told, or need not be.
LEMMA InStepGrows ==
  ASSUME TypeOK, TypeOK', NEW c \in Client, NEW p \in Pane, NEW w \in Watcher,
         InStep(c, p, w), view' = view,
         Len(wire[c]) <= Len(wire'[c]),
         \A i \in 1..Len(wire[c]) : wire'[c][i] = wire[c][i],
         streamSeq[w] <= streamSeq'[w],
         \A s \in 1..streamSeq[w] : log'[w][s] = log[w][s],
         \A s \in (streamSeq[w] + 1)..streamSeq'[w] :
           \/ log'[w][s].by = "attach"
           \/ \E j \in (Len(wire[c]) + 1)..Len(wire'[c]) : Tells(wire'[c][j], w, s),
         \A i \in (Len(wire[c]) + 1)..Len(wire'[c]) :
           wire'[c][i].w = w => wire'[c][i].seq >= streamSeq'[w]
  PROVE  InStep(c, p, w)'
  <1>1. /\ Len(wire[c]) \in Nat /\ streamSeq[w] \in Nat /\ view[c][p].seq \in Nat
        /\ \A i \in 1..Len(wire[c]) : wire[c][i].seq \in Nat
    BY InStepTypes
  <1>2. /\ Len(wire'[c]) \in Nat /\ streamSeq'[w] \in Nat
        /\ \A i \in 1..Len(wire'[c]) : wire'[c][i].seq \in Nat
    <2>1. Len(wire'[c]) \in Nat /\ streamSeq'[w] \in Nat
      BY LenProperties DEF TypeOK
    <2>2. ASSUME NEW i \in 1..Len(wire'[c]) PROVE wire'[c][i].seq \in Nat
      <3>1. wire'[c][i] \in Event
        BY ElementOfSeq DEF TypeOK
      <3> QED BY <3>1 DEF Event
    <2> QED BY <2>1, <2>2
  <1>3. ASSUME NEW n \in Nat, NEW i \in 0..Len(wire[c]), Owed(c, w, n, i)
        PROVE  Owed(c, w, n, i)'
    <2> SUFFICES ASSUME NEW s \in (n + 1)..streamSeq'[w]
                 PROVE  \/ log'[w][s].by = "attach"
                        \/ \E j \in (i + 1)..Len(wire'[c]) : Tells(wire'[c][j], w, s)
      BY DEF Owed, Tells
    <2>1. CASE s \in (n + 1)..streamSeq[w]
      <3>1. s \in 1..streamSeq[w] /\ log'[w][s] = log[w][s]
        BY <1>1, <2>1
      <3>2. CASE log[w][s].by = "attach"
        BY <3>1, <3>2
      <3>3. CASE \E j \in (i + 1)..Len(wire[c]) : Tells(wire[c][j], w, s)
        <4>1. PICK j \in (i + 1)..Len(wire[c]) : Tells(wire[c][j], w, s)
          BY <3>3
        <4>2. j \in 1..Len(wire[c]) /\ j \in (i + 1)..Len(wire'[c])
          BY <1>1, <1>2
        <4>3. wire'[c][j] = wire[c][j]
          BY <4>2
        <4> QED BY <4>1, <4>2, <4>3
      <3> QED BY <1>3, <2>1, <3>2, <3>3 DEF Owed
    <2>2. CASE s \in (streamSeq[w] + 1)..streamSeq'[w]
      <3>1. CASE log'[w][s].by = "attach"
        BY <3>1
      <3>2. CASE \E j \in (Len(wire[c]) + 1)..Len(wire'[c]) : Tells(wire'[c][j], w, s)
        <4>1. PICK j \in (Len(wire[c]) + 1)..Len(wire'[c]) : Tells(wire'[c][j], w, s)
          BY <3>2
        <4>2. j \in (i + 1)..Len(wire'[c])
          BY <1>1, <1>2
        <4> QED BY <4>1, <4>2
      <3> QED BY <2>2, <3>1, <3>2
    <2> QED BY <1>1, <1>2, <2>1, <2>2
  <1>4. ASSUME view'[c][p].w = w, ~view'[c][p].gap PROVE Owed(c, w, view[c][p].seq, 0)'
    <2>1. Owed(c, w, view[c][p].seq, 0)
      BY <1>4 DEF InStep
    <2>2. PICK n \in Nat : n = view[c][p].seq /\ n = view'[c][p].seq
      BY <1>1
    <2>3. Owed(c, w, n, 0)'
      BY <1>1, <1>3, <2>1, <2>2
    <2> QED BY <2>2, <2>3
  <1>5. ASSUME NEW i \in 1..Len(wire'[c]), wire'[c][i].w = w
        PROVE  Owed(c, w, wire[c][i].seq, i)'
    <2>1. CASE i \in 1..Len(wire[c])
      <3>1. PICK n \in Nat : n = wire[c][i].seq /\ n = wire'[c][i].seq
        BY <1>1, <2>1
      <3>2. Owed(c, w, n, i)
        BY <1>5, <2>1, <3>1 DEF InStep
      <3>3. i \in 0..Len(wire[c])
        BY <1>1, <2>1
      <3>4. Owed(c, w, n, i)'
        BY <1>3, <3>2, <3>3
      <3> QED BY <3>1, <3>4
    <2>2. CASE i \in (Len(wire[c]) + 1)..Len(wire'[c])
      <3>1. wire'[c][i].seq >= streamSeq'[w]
        BY <1>5, <2>2
      <3>2. (wire'[c][i].seq + 1)..streamSeq'[w] = {}
        BY <1>2, <3>1
      <3> QED BY <3>2 DEF Owed
    <2> QED BY <1>1, <1>2, <2>1, <2>2
  <1> QED BY <1>4, <1>5 DEF InStep

\* Nothing is owed in a stream that has not started.
LEMMA InStepSilent ==
  ASSUME TypeOK, NEW c \in Client, NEW p \in Pane, NEW w \in Watcher, streamSeq[w] = 0
  PROVE  InStep(c, p, w)
  <1>1. \A n \in Nat : (n + 1)..streamSeq[w] = {}
    OBVIOUS
  <1> QED BY <1>1, InStepTypes DEF InStep, Owed

\* An attach to a started stream puts the client in step.
LEMMA InStepAttached ==
  ASSUME TypeOK, TypeOK', HistoryWindow, HomeInv, NEW c \in Client, NEW p \in Pane,
         \/ AttachNoCursor(c, p)
         \/ \E since \in 0..view[c][p].seq :
              AttachReplay(c, p, since) \/ AttachFallback(c, p, since),
         NEW w \in Watcher, w = panes[p]
  PROVE  InStep(c, p, w)'
  <1> DEFINE L == Len(wire[c])
  <1>1. PICK r \in Seq(Event) :
           /\ wire' = [wire EXCEPT ![c] = wire[c] \o r]
           /\ \A i \in 1..Len(r) : r[i].w = w
           /\ \/ Len(r) = 1 /\ r[1].mode = "snapshot" /\ r[1].seq = streamSeq[w]
              \/ \E since \in 0..view[c][p].seq :
                   /\ Len(r) = streamSeq[w] - since /\ Len(r) > 0
                   /\ \A i \in 1..Len(r) : r[i].seq = since + i
    BY AttachSends
  <1>2. L <= MaxUnread /\ UNCHANGED <<streamSeq, view>> /\ MaxUnread \in Nat
    BY AttachSends, EngineAssumption
  <1>3. /\ L \in Nat /\ Len(r) \in Nat /\ Len(wire'[c]) = L + Len(r)
        /\ \A i \in 1..Len(r) : wire'[c][L + i] = r[i]
    BY <1>1, WireExtended
  <1>4. /\ streamSeq[w] \in Nat /\ view[c][p].seq \in Nat
    BY InStepTypes
  <1>5. ASSUME NEW i \in 1..Len(wire'[c]) PROVE wire'[c][i].seq \in Nat
    <2>1. wire'[c][i] \in Event
      BY ElementOfSeq DEF TypeOK
    <2> QED BY <2>1 DEF Event
  <1> HIDE DEF L
  <1>6. ASSUME NEW last \in Event, Len(r) > 0, r[Len(r)] = last,
               last.seq = streamSeq[w], last.mode = "snapshot" \/ MaxUnread > 0
        PROVE  InStep(c, p, w)'
    <2>1. /\ L + Len(r) \in 1..Len(wire'[c]) /\ wire'[c][L + Len(r)] = last
          /\ last.w = w /\ last.seq \in Nat
      <3>1. Len(r) \in 1..Len(r)
        BY <1>3, <1>6
      <3>2. wire'[c][L + Len(r)] = r[Len(r)] /\ r[Len(r)].w = w
        BY <1>1, <1>3, <3>1
      <3>3. L + Len(r) \in 1..(L + Len(r))
        BY <1>3, <1>6
      <3> QED BY <1>3, <1>4, <1>6, <3>2, <3>3
    <2>2. ASSUME NEW n \in Nat, NEW i \in 0..(L + Len(r) - 1) PROVE Owed(c, w, n, i)'
      <3> SUFFICES ASSUME NEW s \in (n + 1)..streamSeq[w]
                   PROVE  \E j \in (i + 1)..Len(wire'[c]) : Tells(wire'[c][j], w, s)
        BY <1>2 DEF Owed, Tells
      <3>1. L + Len(r) \in (i + 1)..Len(wire'[c])
        BY <1>3, <1>6
      <3>2. Tells(last, w, s)
        BY <1>4, <1>6, <2>1 DEF Tells
      <3> QED BY <2>1, <3>1, <3>2
    <2>3. Owed(c, w, view[c][p].seq, 0)'
      <3>1. PICK n \in Nat : n = view[c][p].seq /\ n = view'[c][p].seq
        BY <1>2, <1>4
      <3>2. 0 \in 0..(L + Len(r) - 1)
        BY <1>3, <1>6
      <3>3. Owed(c, w, n, 0)'
        BY <2>2, <3>2
      <3> QED BY <3>1, <3>3
    <2>4. ASSUME NEW i \in 1..Len(wire'[c]) PROVE Owed(c, w, wire[c][i].seq, i)'
      <3>1. PICK n \in Nat : n = wire'[c][i].seq
        BY <1>5
      <3>2. CASE i = L + Len(r)
        <4>1. n = streamSeq'[w] /\ n \in Nat
          BY <1>2, <1>6, <2>1, <3>1, <3>2
        <4>2. (wire'[c][i].seq + 1)..streamSeq'[w] = {}
          BY <3>1, <4>1
        <4> QED BY <4>2 DEF Owed
      <3>3. CASE i # L + Len(r)
        <4>1. i \in 0..(L + Len(r) - 1)
          BY <1>3, <3>3
        <4>2. Owed(c, w, n, i)'
          BY <2>2, <4>1
        <4> QED BY <3>1, <4>2
      <3> QED BY <3>2, <3>3
    <2> QED BY <2>3, <2>4 DEF InStep
  <1>7. CASE Len(r) = 1 /\ r[1].mode = "snapshot" /\ r[1].seq = streamSeq[w]
    <2>1. 1 \in 1..Len(r) /\ r[1] \in Event
      <3>1. 1 \in 1..Len(r)
        BY <1>7
      <3> QED BY <3>1, ElementOfSeq
    <2> QED BY <1>6, <1>7, <2>1
  <1>8. ASSUME NEW since \in 0..view[c][p].seq,
               Len(r) = streamSeq[w] - since, Len(r) > 0,
               \A i \in 1..Len(r) : r[i].seq = since + i
        PROVE  InStep(c, p, w)'
    <2>1. CASE MaxUnread > 0
      <3>1. Len(r) \in 1..Len(r)
        BY <1>3, <1>8
      <3>2. r[Len(r)] \in Event
        BY <3>1, ElementOfSeq
      <3>3. r[Len(r)].seq = since + Len(r)
        BY <1>8, <3>1
      <3>4. r[Len(r)].seq = streamSeq[w]
        BY <1>4, <1>8, <3>3
      <3> QED BY <1>6, <1>8, <2>1, <3>2, <3>4
    <2>2. CASE MaxUnread = 0
      <3>1. L = 0 /\ Len(wire'[c]) = Len(r)
        BY <1>2, <1>3, <2>2
      <3>2. ASSUME NEW i \in 1..Len(r)
            PROVE  wire'[c][i] = r[i] /\ wire'[c][i].seq = since + i /\ wire'[c][i].w = w
        <4>1. L + i = i
          BY <3>1
        <4>2. wire'[c][i] = r[i]
          BY <1>3, <4>1
        <4> QED BY <1>1, <1>8, <4>2
      <3>3. ASSUME NEW n \in Nat, NEW i \in Nat, since + i <= n
            PROVE  Owed(c, w, n, i)'
        <4> SUFFICES ASSUME NEW s \in (n + 1)..streamSeq[w]
                     PROVE  \E j \in (i + 1)..Len(wire'[c]) : Tells(wire'[c][j], w, s)
          BY <1>2 DEF Owed, Tells
        <4>1. /\ s - since \in (i + 1)..Len(wire'[c]) /\ s - since \in 1..Len(r)
              /\ since + (s - since) = s
          BY <1>3, <1>4, <1>8, <3>1, <3>3
        <4>2. wire'[c][s - since].seq = s /\ wire'[c][s - since].w = w
          BY <3>2, <4>1
        <4>3. Tells(wire'[c][s - since], w, s)
          BY <4>2 DEF Tells
        <4> QED BY <4>1, <4>3
      <3>4. Owed(c, w, view[c][p].seq, 0)'
        <4>1. PICK n \in Nat : n = view[c][p].seq /\ n = view'[c][p].seq
          BY <1>2, <1>4
        <4>2. Owed(c, w, n, 0)'
          BY <1>4, <3>3, <4>1
        <4> QED BY <4>1, <4>2
      <3>5. ASSUME NEW i \in 1..Len(wire'[c]) PROVE Owed(c, w, wire[c][i].seq, i)'
        <4>1. PICK n \in Nat : n = wire'[c][i].seq
          BY <1>5
        <4>2. n = since + i /\ i \in Nat /\ since + i <= n
          BY <1>4, <3>1, <3>2, <4>1
        <4>3. Owed(c, w, n, i)'
          BY <3>3, <4>2
        <4> QED BY <4>1, <4>3
      <3> QED BY <3>4, <3>5 DEF InStep
    <2> QED BY <1>2, <2>1, <2>2
  <1> QED BY <1>1, <1>7, <1>8

\* A client that receives an event stays in step.
LEMMA InStepReceived ==
  ASSUME TypeOK, HomeInv, NEW c \in Client, Receive(c), NEW p \in Pane,
         NEW w \in Watcher, panes[p] = w, InStep(c, p, w)
  PROVE  InStep(c, p, w)'
  <1> DEFINE e == Head(wire[c])
             v == view[c][p]
             u == view'[c][p]
  <1>1. /\ e \in Event /\ e = wire[c][1] /\ 1 \in 1..Len(wire[c])
        /\ Len(wire'[c]) = Len(wire[c]) - 1
        /\ \A i \in 1..Len(wire'[c]) : wire'[c][i] = wire[c][i + 1]
    BY ReceiveTypeOK
  <1>2. /\ view' = [view EXCEPT ![c][e.pane] = Apply(view[c][e.pane], e)]
        /\ UNCHANGED <<streamSeq, log>>
    BY DEF Receive, engineVars
  <1>3. /\ Len(wire[c]) \in Nat /\ v \in View /\ v.seq \in Nat /\ streamSeq[w] \in Nat
        /\ \A i \in 1..Len(wire[c]) : wire[c][i].seq \in Nat
    BY InStepTypes
  <1>4. e.pane \in Pane /\ e.seq \in Nat /\ e.mode \in {"snapshot", "delta"}
    BY <1>1 DEF Event, Mode
  <1>5. e.w = w => e.pane = p
    BY <1>1 DEF HomeInv, Home
  <1>6. u = IF e.pane = p THEN Apply(v, e) ELSE v
    BY <1>2, <1>4 DEF TypeOK
  <1> HIDE DEF e, v, u
  <1>7. ASSUME NEW n \in Nat, NEW i \in Nat, Owed(c, w, n, i + 1) PROVE Owed(c, w, n, i)'
    <2> SUFFICES ASSUME NEW s \in (n + 1)..streamSeq[w]
                 PROVE  \/ log[w][s].by = "attach"
                        \/ \E j \in (i + 1)..Len(wire'[c]) : Tells(wire'[c][j], w, s)
      BY <1>2 DEF Owed, Tells
    <2>1. CASE \E j \in (i + 1 + 1)..Len(wire[c]) : Tells(wire[c][j], w, s)
      <3>1. PICK j \in (i + 1 + 1)..Len(wire[c]) : Tells(wire[c][j], w, s)
        BY <2>1
      <3>2. /\ j - 1 \in (i + 1)..Len(wire'[c]) /\ j - 1 \in 1..Len(wire'[c])
            /\ (j - 1) + 1 = j
        BY <1>1, <1>3
      <3>3. wire'[c][j - 1] = wire[c][j]
        BY <1>1, <3>2
      <3> QED BY <3>1, <3>2, <3>3
    <2> QED BY <1>7, <2>1 DEF Owed
  <1>8. ASSUME NEW i \in 1..Len(wire'[c]), wire'[c][i].w = w
        PROVE  Owed(c, w, wire[c][i].seq, i)'
    <2>1. i + 1 \in 1..Len(wire[c]) /\ wire'[c][i] = wire[c][i + 1] /\ i \in Nat
      BY <1>1, <1>3
    <2>2. PICK n \in Nat : n = wire[c][i + 1].seq /\ n = wire'[c][i].seq
      BY <1>3, <2>1
    <2>3. Owed(c, w, n, i + 1)
      BY <1>8, <2>1, <2>2 DEF InStep
    <2>4. Owed(c, w, n, i)'
      BY <1>7, <2>1, <2>3
    <2> QED BY <2>2, <2>4
  <1>9. ASSUME u.w = w, ~u.gap PROVE \E n \in Nat : n = u.seq /\ Owed(c, w, n, 1)
    <2>1. CASE e.w = w /\ u.seq = e.seq
      <3>1. Owed(c, w, e.seq, 1)
        BY <1>1, <2>1 DEF InStep
      <3> QED BY <1>4, <2>1, <3>1
    <2>2. CASE v.w = w /\ ~v.gap /\ u.seq = v.seq /\ (e.w = w => e.mode = "delta" /\ e.seq <= v.seq)
      <3>1. Owed(c, w, v.seq, 0)
        BY <2>2 DEF InStep, v
      <3>2. Owed(c, w, v.seq, 1)
        <4> SUFFICES ASSUME NEW s \in (v.seq + 1)..streamSeq[w],
                            NEW j \in (0 + 1)..Len(wire[c]), Tells(wire[c][j], w, s)
                     PROVE  j \in (1 + 1)..Len(wire[c])
          BY <3>1 DEF Owed
        <4>1. j # 1
          <5>1. ~Tells(e, w, s)
            BY <1>3, <1>4, <2>2 DEF Tells
          <5> QED BY <1>1, <5>1
        <4> QED BY <1>3, <4>1
      <3> QED BY <1>3, <2>2, <3>2
    <2>3. CASE e.pane # p
      <3>1. u = v /\ e.w # w
        BY <1>5, <1>6, <2>3
      <3> QED BY <1>9, <2>2, <3>1
    <2>4. CASE e.pane = p /\ e.mode = "snapshot"
      <3>1. u.w = e.w /\ u.seq = e.seq
        BY <1>6, <2>4 DEF Apply
      <3> QED BY <1>9, <2>1, <3>1
    <2>5. CASE e.pane = p /\ e.mode = "delta" /\ e.seq = v.seq + 1 /\ ~v.gap
      <3>1. u.w = e.w /\ u.seq = e.seq
        BY <1>6, <2>5 DEF Apply
      <3> QED BY <1>9, <2>1, <3>1
    <2>6. CASE e.pane = p /\ e.mode = "delta" /\ ~(e.seq = v.seq + 1 /\ ~v.gap)
      <3>1. u = [v EXCEPT !.gap = @ \/ e.seq > v.seq + 1]
        BY <1>6, <2>6 DEF Apply
      <3>2. u.w = v.w /\ u.seq = v.seq /\ u.gap = (v.gap \/ e.seq > v.seq + 1)
        BY <1>3, <3>1 DEF View
      <3>3. ~v.gap /\ e.seq <= v.seq
        <4>1. ~v.gap /\ ~(e.seq > v.seq + 1)
          BY <1>9, <3>2, Zenon
        <4>2. e.seq # v.seq + 1
          BY <2>6, <4>1, Zenon
        <4> QED BY <1>3, <1>4, <4>1, <4>2
      <3> QED BY <1>9, <2>2, <2>6, <3>2, <3>3
    <2> QED BY <1>4, <2>3, <2>4, <2>5, <2>6
  <1>10. ASSUME u.w = w, ~u.gap PROVE Owed(c, w, view[c][p].seq, 0)'
    <2>1. PICK n \in Nat : n = u.seq /\ Owed(c, w, n, 1)
      BY <1>9, <1>10
    <2>2. Owed(c, w, n, 0 + 1)
      BY <2>1
    <2>3. Owed(c, w, n, 0)'
      BY <1>7, <2>2
    <2> QED BY <2>1, <2>3 DEF u
  <1> QED BY <1>8, <1>10 DEF InStep, u

LEMMA UnsubscribeLeaves ==
  ASSUME TypeOK, NEW c \in Client, NEW P \in SUBSET Pane, Unsubscribe(c, P)
  PROVE  /\ \A p \in Pane : panes'[p] \in {0, panes[p]}
         /\ \A w \in Watcher : subscribers'[w] \subseteq subscribers[w]
         /\ \A p \in P : panes[p] \in Watcher => c \notin subscribers'[panes[p]]
  <1>0. 0 \notin Watcher
    BY DEF Watcher
  <1> QED BY <1>0 DEF Unsubscribe, TypeOK

\* What a client that is sent nothing is owed by a silent stream.
LEMMA InStepFrame ==
  ASSUME NEW c \in Client, NEW p \in Pane, NEW w \in Watcher, InStep(c, p, w),
         wire'[c] = wire[c], view'[c][p] = view[c][p],
         streamSeq'[w] = streamSeq[w], log'[w] = log[w]
  PROVE  InStep(c, p, w)'
  BY DEF InStep, Owed, Tells

\* Subscriptions end: nobody new is owed anything.
LEMMA LossShrinks ==
  ASSUME TypeOK, LossInv, UNCHANGED <<streamSeq, log, view>>,
         \A p \in Pane : panes'[p] \in {0, panes[p]},
         \A w \in Watcher : subscribers'[w] \subseteq subscribers[w],
         \A p \in Pane, w \in Watcher : panes'[p] = w =>
           \A c \in subscribers'[w] : wire'[c] = wire[c]
  PROVE  LossInv'
  <1> SUFFICES ASSUME NEW p \in Pane, NEW w \in Watcher, panes'[p] = w,
                      NEW c \in subscribers'[w]
               PROVE  InStep(c, p, w)'
    BY DEF LossInv
  <1>1. 0 \notin Watcher
    BY DEF Watcher
  <1>2. panes[p] = w /\ c \in subscribers[w] /\ c \in Client
    BY <1>1 DEF TypeOK
  <1> QED BY <1>2, InStepFrame DEF LossInv

\* An emission: to the clients of R, or logged as sent by an attach.
LEMMA EmitLoss ==
  ASSUME TypeOK, TypeOK', HistoryWindow, LossInv, UNCHANGED <<panes, subscribers, view>>,
         NEW w \in Watcher, NEW p \in Pane, NEW mode \in Mode,
         NEW chunk \in Seq(Line), NEW output \in Text, NEW by \in {"poll", "attach"},
         NEW R \in SUBSET Client, Emit(w, p, mode, chunk, output, by, R),
         by = "attach" \/ R = subscribers[w]
  PROVE  LossInv'
  <1> SUFFICES ASSUME NEW q \in Pane, NEW v \in Watcher, panes[q] = v, NEW c \in subscribers[v]
               PROVE  InStep(c, q, v)'
    BY DEF LossInv
  <1> DEFINE s == streamSeq[w]
  <1>1. PICK event \in Event :
           /\ event.w = w /\ event.seq = s + 1
           /\ streamSeq' = [streamSeq EXCEPT ![w] = @ + 1]
           /\ s \in Nat
           /\ \A n \in 1..s : log'[w][n] = log[w][n]
           /\ log'[w][s + 1].by = by
           /\ \A x \in Watcher : x # w => log'[x] = log[x]
           /\ \A d \in Client : d \notin R => wire'[d] = wire[d]
           /\ \A d \in R : /\ Len(wire[d]) \in Nat
                           /\ Len(wire'[d]) = Len(wire[d]) + 1
                           /\ \A i \in 1..Len(wire[d]) : wire'[d][i] = wire[d][i]
                           /\ wire'[d][Len(wire[d]) + 1] = event
    BY EmitSends
  <1>2. c \in Client /\ InStep(c, q, v) /\ Len(wire[c]) \in Nat /\ streamSeq[v] \in Nat
    <2>1. c \in Client
      BY DEF TypeOK
    <2> QED BY <2>1, InStepTypes DEF LossInv
  <1>3. streamSeq'[w] = s + 1 /\ \A x \in Watcher : x # w => streamSeq'[x] = streamSeq[x]
    BY <1>1 DEF TypeOK
  <1> HIDE DEF s
  <1>4. /\ Len(wire[c]) <= Len(wire'[c])
        /\ \A i \in 1..Len(wire[c]) : wire'[c][i] = wire[c][i]
        /\ \A i \in (Len(wire[c]) + 1)..Len(wire'[c]) : c \in R /\ wire'[c][i] = event
    <2>1. CASE c \in R
      <3>1. (Len(wire[c]) + 1)..(Len(wire[c]) + 1) = {Len(wire[c]) + 1}
        BY <1>2
      <3> QED BY <1>1, <1>2, <2>1, <3>1
    <2>2. CASE c \notin R
      <3>1. wire'[c] = wire[c]
        BY <1>1, <1>2, <2>2
      <3> QED BY <1>2, <3>1
    <2> QED BY <2>1, <2>2
  <1>5. CASE v # w
    <2>1. /\ streamSeq[v] <= streamSeq'[v] /\ log'[v] = log[v]
          /\ (streamSeq[v] + 1)..streamSeq'[v] = {}
      BY <1>1, <1>2, <1>3, <1>5
    <2>2. \A i \in (Len(wire[c]) + 1)..Len(wire'[c]) : wire'[c][i].w # v
      BY <1>1, <1>4, <1>5
    <2> QED BY <1>2, <1>4, <2>1, <2>2, InStepGrows
  <1>6. CASE v = w
    <2>1. /\ streamSeq[v] = s /\ streamSeq'[v] = s + 1 /\ streamSeq[v] <= streamSeq'[v]
          /\ \A n \in 1..streamSeq[v] : log'[v][n] = log[v][n]
          /\ (streamSeq[v] + 1)..streamSeq'[v] = {s + 1}
      BY <1>1, <1>3, <1>6 DEF s
    <2>2. \A i \in (Len(wire[c]) + 1)..Len(wire'[c]) :
            wire'[c][i].w = v => wire'[c][i].seq >= streamSeq'[v]
      BY <1>1, <1>4, <2>1
    <2>3. \/ log'[v][s + 1].by = "attach"
          \/ \E j \in (Len(wire[c]) + 1)..Len(wire'[c]) : Tells(wire'[c][j], v, s + 1)
      <3>1. CASE by = "attach"
        BY <1>1, <1>6, <3>1
      <3>2. CASE R = subscribers[w]
        <4>1. /\ Len(wire[c]) + 1 \in (Len(wire[c]) + 1)..Len(wire'[c])
              /\ wire'[c][Len(wire[c]) + 1] = event
          BY <1>1, <1>2, <1>6, <3>2
        <4>2. Tells(event, v, s + 1)
          BY <1>1, <1>6 DEF Tells
        <4> QED BY <4>1, <4>2
      <3> QED BY <3>1, <3>2
    <2> QED BY <1>2, <1>4, <2>1, <2>2, <2>3, InStepGrows
  <1> QED BY <1>5, <1>6

LEMMA NextLossInv ==
  TypeOK /\ HistoryWindow /\ HomeInv /\ LossInv /\ [Next]_vars => LossInv'
  <1> SUFFICES ASSUME TypeOK, HistoryWindow, HomeInv, LossInv, [Next]_vars PROVE LossInv'
    OBVIOUS
  <1>0. TypeOK' /\ 0 \notin Watcher
    BY NextTypeOK DEF Watcher
  <1>1. ASSUME NEW d \in Client, NEW q \in Pane, AttachFirst(d, q) PROVE LossInv'
    <2> DEFINE new == IF panes[q] = 0 THEN created + 1 ELSE panes[q]
    <2>1. /\ new \in Watcher /\ streamSeq[new] = 0
          /\ panes' = [panes EXCEPT ![q] = new]
          /\ subscribers' = [subscribers EXCEPT ![new] = @ \union {d}]
          /\ UNCHANGED <<streamSeq, log, wire, view>>
      BY <1>1, Zenon DEF AttachFirst
    <2> HIDE DEF new
    <2> SUFFICES ASSUME NEW p \in Pane, NEW w \in Watcher, panes'[p] = w,
                        NEW c \in subscribers'[w]
                 PROVE  InStep(c, p, w)'
      BY DEF LossInv
    <2>2. c \in Client
      BY <1>0 DEF TypeOK
    <2>3. CASE w = new
      <3>1. InStep(c, p, w)
        BY <2>1, <2>2, <2>3, InStepSilent
      <3> QED BY <2>1, <2>2, <3>1, InStepFrame
    <2>4. CASE w # new
      <3>1. panes[p] = w /\ c \in subscribers[w]
        BY <2>1, <2>4 DEF TypeOK
      <3> QED BY <2>1, <2>2, <3>1, InStepFrame DEF LossInv
    <2> QED BY <2>3, <2>4
  <1>2. ASSUME NEW d \in Client, NEW q \in Pane,
               \/ AttachNoCursor(d, q)
               \/ \E since \in 0..view[d][q].seq :
                    AttachReplay(d, q, since) \/ AttachFallback(d, q, since)
        PROVE  LossInv'
    <2> DEFINE new == panes[q]
    <2>1. /\ new \in Watcher
          /\ subscribers' = [subscribers EXCEPT ![new] = @ \union {d}]
          /\ UNCHANGED <<panes, streamSeq, view, log>>
      BY <1>2, AttachSends
    <2>2. PICK r \in Seq(Event) : /\ wire' = [wire EXCEPT ![d] = wire[d] \o r]
                                  /\ \A i \in 1..Len(r) : r[i].w = new
      BY <1>2, AttachSends
    <2>3. /\ Len(wire[d]) \in Nat /\ Len(r) \in Nat
          /\ Len(wire'[d]) = Len(wire[d]) + Len(r)
          /\ \A i \in 1..Len(wire[d]) : wire'[d][i] = wire[d][i]
          /\ \A i \in (Len(wire[d]) + 1)..(Len(wire[d]) + Len(r)) :
               i - Len(wire[d]) \in 1..Len(r) /\ wire'[d][i] = r[i - Len(wire[d])]
          /\ \A c \in Client : c # d => wire'[c] = wire[c]
      BY <2>2, WireExtended
    <2> SUFFICES ASSUME NEW p \in Pane, NEW w \in Watcher, panes[p] = w,
                        NEW c \in subscribers'[w]
                 PROVE  InStep(c, p, w)'
      BY <2>1 DEF LossInv
    <2>4. c \in Client
      BY <1>0 DEF TypeOK
    <2>5. CASE c = d /\ w = new
      <3>1. p = q
        BY <1>0, <2>1, <2>5 DEF HomeInv, Home
      <3> QED BY <1>0, <1>2, <2>5, <3>1, InStepAttached
    <2>6. CASE c # d
      <3>1. c \in subscribers[w]
        BY <2>1, <2>6 DEF TypeOK
      <3> QED BY <2>1, <2>3, <2>4, <2>6, <3>1, InStepFrame DEF LossInv
    <2>7. CASE c = d /\ w # new
      <3>1. c \in subscribers[w]
        BY <2>1, <2>7 DEF TypeOK
      <3>2. InStep(c, p, w) /\ streamSeq[w] \in Nat
        BY <2>4, <3>1, InStepTypes DEF LossInv
      <3>3. /\ Len(wire[c]) <= Len(wire'[c])
            /\ \A i \in 1..Len(wire[c]) : wire'[c][i] = wire[c][i]
        BY <2>3, <2>7
      <3>4. \A i \in (Len(wire[c]) + 1)..Len(wire'[c]) : wire'[c][i].w = new
        BY <2>2, <2>3, <2>7
      <3>5. /\ streamSeq[w] <= streamSeq'[w] /\ (streamSeq[w] + 1)..streamSeq'[w] = {}
            /\ log'[w] = log[w]
        BY <2>1, <3>2
      <3> HIDE DEF new
      <3> QED BY <1>0, <2>1, <2>4, <2>7, <3>2, <3>3, <3>4, <3>5, InStepGrows
    <2> QED BY <2>5, <2>6, <2>7
  <1>3. ASSUME NEW c \in Client, (\E p \in Pane : Detach(c, p)) \/ DetachAll(c) PROVE LossInv'
    <2>1. (\E P \in SUBSET Pane : Unsubscribe(c, P)) /\ UNCHANGED <<streamSeq, log, view, wire>>
      <3>1. \A p \in Pane : {p} \in SUBSET Pane
        OBVIOUS
      <3> QED BY <1>3, <3>1 DEF Detach, DetachAll
    <2> QED BY <2>1, UnsubscribeLeaves, LossShrinks
  <1>4. ASSUME NEW c \in Client, Close(c) PROVE LossInv'
    <2>1. /\ Unsubscribe(c, Pane) /\ UNCHANGED <<streamSeq, log, view>>
          /\ wire' = [wire EXCEPT ![c] = << >>]
      BY <1>4 DEF Close
    <2>2. /\ \A p \in Pane : panes'[p] \in {0, panes[p]}
          /\ \A w \in Watcher : subscribers'[w] \subseteq subscribers[w]
          /\ \A p \in Pane : panes[p] \in Watcher => c \notin subscribers'[panes[p]]
      BY <2>1, UnsubscribeLeaves
    <2>3. ASSUME NEW p \in Pane, NEW w \in Watcher, panes'[p] = w, NEW d \in subscribers'[w]
          PROVE  wire'[d] = wire[d]
      <3>1. panes[p] = w /\ d # c /\ d \in Client
        BY <1>0, <2>2, <2>3 DEF TypeOK
      <3> QED BY <2>1, <3>1 DEF TypeOK
    <2> QED BY <2>1, <2>2, <2>3, LossShrinks
  <1>5. ASSUME NEW k \in calls, AttachFail(k) PROVE LossInv'
    <2>1. \A p \in Pane : panes'[p] \in {0, panes[p]}
      BY <1>5, CallType DEF AttachFail, TypeOK
    <2>2. \A w \in Watcher : subscribers'[w] \subseteq subscribers[w]
      BY <1>5, CallType DEF AttachFail, TypeOK
    <2>3. UNCHANGED <<streamSeq, log, view, wire>>
      BY <1>5 DEF AttachFail
    <2> QED BY <2>1, <2>2, <2>3, LossShrinks
  <1>6. ASSUME NEW k \in calls, AttachResume(k) PROVE LossInv'
    <2>1. UNCHANGED <<panes, subscribers, view>> /\ "snapshot" \in Mode
      BY <1>6 DEF AttachResume, Mode
    <2> QED BY <1>0, <1>6, <2>1, ResumeEmits, CallType, EmitLoss
  <1>7. ASSUME NEW entry \in pollTodo, PollEmit(entry) PROVE LossInv'
    <2>1. UNCHANGED <<panes, subscribers, view>>
      BY <1>7 DEF PollEmit
    <2> QED BY <1>0, <1>7, <2>1, PollEmits, EmitLoss
  <1>8. ASSUME NEW d \in Client, Receive(d) PROVE LossInv'
    <2>1. /\ UNCHANGED <<panes, subscribers, streamSeq, log>>
          /\ wire' = [wire EXCEPT ![d] = Tail(@)]
          /\ view' = [view EXCEPT ![d][Head(wire[d]).pane] = Apply(@, Head(wire[d]))]
      BY <1>8 DEF Receive, engineVars
    <2> SUFFICES ASSUME NEW p \in Pane, NEW w \in Watcher, panes[p] = w, NEW c \in subscribers[w]
                 PROVE  InStep(c, p, w)'
      BY <2>1 DEF LossInv
    <2>2. c \in Client /\ InStep(c, p, w)
      BY DEF TypeOK, LossInv
    <2>3. CASE c = d
      BY <1>8, <2>2, <2>3, InStepReceived
    <2>4. CASE c # d
      <3>1. wire'[c] = wire[c] /\ view'[c] = view[c]
        BY <2>1, <2>2, <2>4 DEF TypeOK
      <3> QED BY <2>1, <2>2, <3>1, InStepFrame
    <2> QED BY <2>3, <2>4
  <1>9. ASSUME UNCHANGED <<panes, subscribers, streamSeq, log, view, wire>> PROVE LossInv'
    BY <1>9, LossShrinks
  <1>10. ASSUME NEW k \in calls, AttachCapture(k) PROVE LossInv'
    BY <1>9, <1>10 DEF AttachCapture
  <1>11. ASSUME NEW entry \in pollTodo, PollCapture(entry) \/ PollSkip(entry) PROVE LossInv'
    BY <1>9, <1>11 DEF PollCapture, PollSkip
  <1>12. ASSUME NEW p \in Pane, NEW t \in Text, PaneChange(p, t) PROVE LossInv'
    BY <1>9, <1>12 DEF PaneChange, engineVars
  <1>13. CASE PollStart \/ PollCaptureFail \/ UNCHANGED vars
    BY <1>9, <1>13 DEF PollStart, PollCaptureFail, vars, engineVars
  <1> QED BY <1>1, <1>2, <1>3, <1>4, <1>5, <1>6, <1>7, <1>8, <1>10, <1>11, <1>12, <1>13 DEF Next

\* A subscriber in step with its watcher misses no event unknowingly.
THEOREM EngineNoSilentLoss == Spec => []NoSilentLoss
  <1>1. Init => HomeInv /\ LossInv
    <2> SUFFICES ASSUME Init PROVE HomeInv /\ LossInv
      OBVIOUS
    <2>1. /\ \A p \in Pane : panes[p] = 0
          /\ pollTodo = {} /\ calls = {}
          /\ \A w \in Watcher : log[w] = << >> /\ subscribers[w] = {}
          /\ \A c \in Client : wire[c] = << >>
      BY DEF Init
    <2>2. Len(<< >>) = 0 /\ 1..0 = {}
      OBVIOUS
    <2> QED BY <2>1, <2>2 DEF HomeInv, LossInv
  <1>2. LossInv => NoSilentLoss
    <2>1. 0 + 1 = 1
      OBVIOUS
    <2> QED BY <2>1 DEF LossInv, InStep, Owed, NoSilentLoss
  <1> QED BY <1>1, <1>2, InitTypeOK, NextTypeOK, NextHistoryWindow, NextHomeInv, NextLossInv,
             PTL DEF Spec

=============================================================================
