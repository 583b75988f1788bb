---------------------------- MODULE BridgeEngine ----------------------------
(***************************************************************************)
(* The pane streaming engine of the CommandRelay gateway                   *)
(* (src/src/bridge/bridge-engine.ts).                                      *)
(*                                                                         *)
(* The engine keeps one watcher per watched pane.  A client attaches to a  *)
(* pane and is sent either a replay of the bounded event history or a      *)
(* snapshot; a timer polls every watched pane and broadcasts what changed. *)
(* attach and pollOnce both suspend while `tmux capture-pane` runs, so     *)
(* other handlers run between the capture and its continuation.            *)
(*                                                                         *)
(* A watcher is an object: continuations keep a reference to it after it   *)
(* has left the map.  Watchers therefore have identities, numbered in the  *)
(* order of their creation, which is also the Map's iteration order.       *)
(***************************************************************************)
EXTENDS Naturals, Sequences, FiniteSetsExt

CONSTANTS
  Client,       \* connections (each WebSocket has its own client id)
  Pane,         \* pane ids
  Line,         \* the lines a pane may show
  Text,         \* the pane contents considered: a set of sequences of lines
  MaxHistory,   \* maxHistoryEvents
  MaxWatchers,  \* bound: watchers created in a behaviour
  MaxCalls,     \* bound: attach calls suspended at the same time
  MaxEdits,     \* bound: changes of pane contents
  MaxUnread     \* bound: unread events with which a client still attaches

ASSUME EngineAssumption ==
  /\ Text \subseteq Seq(Line)
  /\ << >> \in Text
  /\ MaxHistory \in Nat \ {0}
  /\ MaxWatchers \in Nat
  /\ MaxCalls \in Nat
  /\ MaxEdits \in Nat
  /\ MaxUnread \in Nat

VARIABLES
  panes,        \* the Map: pane -> watcher, 0 when absent
  created,      \* how many watchers were ever created
  subscribers,  \* watcher -> its subscribers
  lastOutput,   \* watcher -> the text its last event left
  streamSeq,    \* watcher -> number of its last event
  history,      \* watcher -> the retained events
  pollTimer,    \* is the interval timer running
  pollTodo,     \* <<pane, watcher>> entries the running pollOnce has left
  pollCapture,  \* the capture the running pollOnce awaits
  calls,        \* the attach calls awaiting their first capture
  content,      \* what each pane shows (external: tmux)
  edits,        \* how often a pane has changed
  wire,         \* client -> events sent and not yet received, in order
  view,         \* client -> pane -> what a protocol client shows
  log           \* history variable: watcher -> every event with its text

engineVars == <<panes, created, subscribers, lastOutput, streamSeq, history,
                pollTimer, pollTodo, pollCapture, calls>>
vars == <<engineVars, content, edits, wire, view, log>>

Watcher == 1..MaxWatchers
CallId == 1..MaxCalls
Mode == {"snapshot", "delta"}
CaptureState == {"pending", "ok", "failed"}

Capture == [st : CaptureState, out : Text]
PendingCapture == [st |-> "pending", out |-> << >>]

\* BridgePaneEvent.  `w` is not on the wire: it names the emitting watcher
\* so that properties can tell incarnations of a pane's stream apart.
Event == [mode : Mode, pane : Pane, chunk : Seq(Line),
          seq : Nat, w : Watcher]

\* What the log keeps of an event: the text it left the pane's stream at and
\* whether the poll loop (to everyone) or an attach (to one client) sent it.
LogEntry == [event : Event, text : Text, by : {"poll", "attach"}]

Call == [id : CallId, client : Client, pane : Pane, w : Watcher,
         open : BOOLEAN, capture : Capture]

\* A client's picture of a pane: the text and the number it reached, the
\* watcher that sent the last event (0: none), whether it skipped a number
\* and, as a history variable, whether its events all come from one watcher.
View == [w : 0..MaxWatchers, seq : Nat, text : Seq(Line),
         gap : BOOLEAN, clean : BOOLEAN]
NoView == [w |-> 0, seq |-> 0, text |-> << >>, gap |-> FALSE, clean |-> TRUE]

TypeOK ==
  /\ panes \in [Pane -> 0..MaxWatchers]
  /\ created \in 0..MaxWatchers
  /\ subscribers \in [Watcher -> SUBSET Client]
  /\ lastOutput \in [Watcher -> Text]
  /\ streamSeq \in [Watcher -> Nat]
  /\ history \in [Watcher -> Seq(Event)]
  /\ pollTimer \in BOOLEAN
  /\ pollTodo \subseteq Pane \X Watcher
  /\ pollCapture \in Capture
  /\ calls \subseteq Call
  /\ content \in [Pane -> Text]
  /\ edits \in 0..MaxEdits
  /\ wire \in [Client -> Seq(Event)]
  /\ view \in [Client -> [Pane -> View]]
  /\ log \in [Watcher -> Seq(LogEntry)]

Init ==
  /\ panes = [p \in Pane |-> 0]
  /\ created = 0
  /\ subscribers = [w \in Watcher |-> {}]
  /\ lastOutput = [w \in Watcher |-> << >>]
  /\ streamSeq = [w \in Watcher |-> 0]
  /\ history = [w \in Watcher |-> << >>]
  /\ pollTimer = FALSE
  /\ pollTodo = {}
  /\ pollCapture = PendingCapture
  /\ calls = {}
  /\ content = [p \in Pane |-> << >>]
  /\ edits = 0
  /\ wire = [c \in Client |-> << >>]
  /\ view = [c \in Client |-> [p \in Pane |-> NoView]]
  /\ log = [w \in Watcher |-> << >>]

-----------------------------------------------------------------------------
(* Helpers *)

\* isPolling is true exactly while an iteration of pollOnce has entries left.
isPolling == pollTodo # {}

\* Mutant: the texts are compared by their lengths.
StartsWithByLength(current, previous) == Len(previous) <= Len(current)

StartsWith(current, previous) ==
  /\ Len(previous) <= Len(current)
  /\ SubSeq(current, 1, Len(previous)) = previous

\* The non-null results of computeDelta(previous, current).
deltaMode(previous, current) ==
  IF StartsWith(current, previous) THEN "delta" ELSE "snapshot"

deltaChunk(previous, current) ==
  IF StartsWith(current, previous)
    THEN SubSeq(current, Len(previous) + 1, Len(current))
    ELSE current

\* The bounded push of nextEvent.
PushHistory(h, event) ==
  IF Len(h) < MaxHistory THEN Append(h, event) ELSE Tail(Append(h, event))

EventOf(w, p, mode, chunk, seq) ==
  [mode |-> mode, pane |-> p, chunk |-> chunk, seq |-> seq, w |-> w]

\* Mutant: an event is not sent to a client that has unread ones.
EmitUnlessBusy(w, p, mode, chunk, output, by, receivers) ==
  LET event == EventOf(w, p, mode, chunk, streamSeq[w] + 1) IN
  /\ lastOutput' = [lastOutput EXCEPT ![w] = output]
  /\ streamSeq' = [streamSeq EXCEPT ![w] = @ + 1]
  /\ history' = [history EXCEPT ![w] = PushHistory(@, event)]
  /\ log' = [log EXCEPT ![w] = Append(@, [event |-> event, text |-> output, by |-> by])]
  /\ wire' = [c \in Client |->
                IF c \in receivers /\ wire[c] = << >> THEN <<event>> ELSE wire[c]]

\* watcher.lastOutput := output, nextEvent(...) and onOutput to receivers.
Emit(w, p, mode, chunk, output, by, receivers) ==
  LET event == EventOf(w, p, mode, chunk, streamSeq[w] + 1) IN
  /\ lastOutput' = [lastOutput EXCEPT ![w] = output]
  /\ streamSeq' = [streamSeq EXCEPT ![w] = @ + 1]
  /\ history' = [history EXCEPT ![w] = PushHistory(@, event)]
  /\ log' = [log EXCEPT ![w] = Append(@, [event |-> event, text |-> output, by |-> by])]
  /\ wire' = [c \in Client |->
                IF c \in receivers THEN Append(wire[c], event) ELSE wire[c]]

\* history.filter(event => event.streamSeq > since): numbers ascend along the
\* history (HistoryWindow), so what the filter keeps is a suffix of it.
Replayed(w, since) ==
  LET h == history[w]
      kept == CHOOSE k \in 0..Len(h) :
                \A i \in 1..Len(h) : (h[i].seq > since) <=> (i > k)
  IN SubSeq(h, kept + 1, Len(h))

\* replayed.length > 0 && !replayGapDetected
CanReplay(w, since) ==
  LET r == Replayed(w, since) IN Len(r) > 0 /\ r[1].seq = since + 1

\* Mutant: the timer is stopped without a look at the map.
StopAlways(m) == pollTimer' = FALSE

\* stopIfIdle() once the map has become m.
StopIfIdle(m) == pollTimer' = (pollTimer /\ \E p \in Pane : m[p] # 0)

-----------------------------------------------------------------------------
(* attach, detach, detachAll *)

\* attach on a watcher that has events, with a lastSeq the history continues.
AttachReplay(c, p, since) ==
  LET w == panes[p] IN
  /\ Len(wire[c]) <= MaxUnread
  /\ w # 0 /\ streamSeq[w] > 0
  /\ CanReplay(w, since)
  /\ subscribers' = [subscribers EXCEPT ![w] = @ \union {c}]
  /\ wire' = [wire EXCEPT ![c] = @ \o Replayed(w, since)]
  /\ pollTimer' = TRUE
  /\ UNCHANGED <<panes, created, lastOutput, streamSeq, history, pollTodo,
                 pollCapture, calls, content, edits, view, log>>

\* attach on a watcher that has events, without a lastSeq or with one the
\* history does not continue: the current text under the current number.
AttachSnapshot(c, p) ==
  LET w == panes[p] IN
  /\ subscribers' = [subscribers EXCEPT ![w] = @ \union {c}]
  /\ wire' = [wire EXCEPT ![c] =
               Append(@, EventOf(w, p, "snapshot", lastOutput[w], streamSeq[w]))]
  /\ pollTimer' = TRUE
  /\ UNCHANGED <<panes, created, lastOutput, streamSeq, history, pollTodo,
                 pollCapture, calls, content, edits, view, log>>

AttachNoCursor(c, p) ==
  /\ Len(wire[c]) <= MaxUnread
  /\ panes[p] # 0 /\ streamSeq[panes[p]] > 0
  /\ AttachSnapshot(c, p)

AttachFallback(c, p, since) ==
  /\ Len(wire[c]) <= MaxUnread
  /\ panes[p] # 0 /\ streamSeq[panes[p]] > 0
  /\ ~CanReplay(panes[p], since)
  /\ AttachSnapshot(c, p)

\* attach on a watcher without events, created when absent: subscribes the
\* client and suspends until the first capture is back.
AttachFirst(c, p) ==
  LET w == IF panes[p] = 0 THEN created + 1 ELSE panes[p] IN
  /\ Len(wire[c]) <= MaxUnread
  /\ w \in Watcher /\ streamSeq[w] = 0
  /\ \E id \in CallId \ {k.id : k \in calls} :
       /\ \A other \in 1..(id - 1) : \E k \in calls : k.id = other
       /\ calls' = calls \union {[id |-> id, client |-> c, pane |-> p, w |-> w,
                                  open |-> TRUE, capture |-> PendingCapture]}
  /\ panes' = [panes EXCEPT ![p] = w]
  /\ created' = IF panes[p] = 0 THEN w ELSE created
  /\ subscribers' = [subscribers EXCEPT ![w] = @ \union {c}]
  /\ UNCHANGED <<lastOutput, streamSeq, history, pollTimer, pollTodo,
                 pollCapture, content, edits, wire, view, log>>

\* The suspended attach resumes with the captured text: an event for the
\* attaching client alone, dropped when its connection is gone.
AttachResume(k) ==
  /\ k.capture.st = "ok"
  /\ calls' = calls \ {k}
  /\ Emit(k.w, k.pane, "snapshot", k.capture.out, k.capture.out, "attach",
          IF k.open THEN {k.client} ELSE {})
  /\ pollTimer' = TRUE
  /\ UNCHANGED <<panes, created, subscribers, pollTodo, pollCapture,
                 content, edits, view>>

\* The suspended attach resumes with an error.  The watcher it holds loses
\* the client; the entry under the pane's key goes when that watcher is
\* empty and silent.
AttachFail(k) ==
  LET remaining == IF k.open THEN subscribers[k.w] \ {k.client}
                             ELSE subscribers[k.w]
      drop == remaining = {} /\ streamSeq[k.w] = 0
      m == IF drop THEN [panes EXCEPT ![k.pane] = 0] ELSE panes
  IN
  /\ k.capture.st = "failed"
  /\ calls' = calls \ {k}
  /\ subscribers' = [subscribers EXCEPT ![k.w] = remaining]
  /\ panes' = m
  /\ StopIfIdle(m)
  /\ UNCHANGED <<created, lastOutput, streamSeq, history, pollTodo,
                 pollCapture, content, edits, wire, view, log>>

\* Unsubscribes c from the mapped watchers of the panes in P; watchers left
\* without a subscriber leave the map.
Unsubscribe(c, P) ==
  LET hit(w) == w # 0 /\ \E p \in P : panes[p] = w
      left(w) == IF hit(w) THEN subscribers[w] \ {c} ELSE subscribers[w]
      m == [p \in Pane |->
              IF panes[p] # 0 /\ p \in P /\ left(panes[p]) = {} THEN 0 ELSE panes[p]]
  IN
  /\ subscribers' = [w \in Watcher |-> left(w)]
  /\ panes' = m
  /\ StopIfIdle(m)

\* The `detach` message.
Detach(c, p) ==
  /\ panes[p] # 0
  /\ Unsubscribe(c, {p})
  /\ UNCHANGED <<created, lastOutput, streamSeq, history, pollTodo, pollCapture,
                 calls, content, edits, wire, view, log>>

\* The `disconnect` message: detachAll on a connection that stays open.
DetachAll(c) ==
  /\ \E p \in Pane : panes[p] # 0
  /\ Unsubscribe(c, Pane)
  /\ UNCHANGED <<created, lastOutput, streamSeq, history, pollTodo, pollCapture,
                 calls, content, edits, wire, view, log>>

\* The socket closes: detachAll, unread events are lost, and suspended
\* attaches of this connection have nobody to answer to.  The name c then
\* stands for the next connection of the same user, which kept its view.
Close(c) ==
  /\ Unsubscribe(c, Pane)
  /\ wire' = [wire EXCEPT ![c] = << >>]
  /\ calls' = {IF k.client = c THEN [k EXCEPT !.open = FALSE] ELSE k : k \in calls}
  /\ UNCHANGED <<created, lastOutput, streamSeq, history, pollTodo, pollCapture,
                 content, edits, view, log>>

-----------------------------------------------------------------------------
(* pollOnce *)

\* The timer fires and no iteration is running.
PollStart ==
  /\ pollTimer
  /\ ~isPolling
  /\ \E p \in Pane : panes[p] # 0
  /\ pollTodo' = {<<p, panes[p]>> : p \in {q \in Pane : panes[q] # 0}}
  /\ pollCapture' = PendingCapture
  /\ UNCHANGED <<panes, created, subscribers, lastOutput, streamSeq, history,
                 pollTimer, calls, content, edits, wire, view, log>>

\* The entry in hand: entries are visited in the order of their creation.
IsCurrent(entry) == \A other \in pollTodo : entry[2] <= other[2]

\* The loop moves past the entry: to the next capture, or to its end.
NextEntry(entry) ==
  /\ pollTodo' = pollTodo \ {entry}
  /\ pollCapture' = PendingCapture

\* The capture shows a text that differs from the watcher's: broadcast it.
PollEmit(entry) ==
  LET p == entry[1]
      w == entry[2]
      output == pollCapture.out
  IN
  /\ IsCurrent(entry) /\ pollCapture.st = "ok"
  /\ output # lastOutput[w]
  /\ Emit(w, p, deltaMode(lastOutput[w], output), deltaChunk(lastOutput[w], output),
          output, "poll", subscribers[w])
  /\ NextEntry(entry)
  /\ UNCHANGED <<panes, created, subscribers, pollTimer, calls, content, edits, view>>

\* Mutant: a failed capture leaves the loop, and isPolling set.
PollSkipUncaught(entry) ==
  /\ IsCurrent(entry)
  /\ pollCapture.st = "ok" /\ pollCapture.out = lastOutput[entry[2]]
  /\ NextEntry(entry)
  /\ UNCHANGED <<panes, created, subscribers, lastOutput, streamSeq, history,
                 pollTimer, calls, content, edits, wire, view, log>>

\* Nothing changed, or the capture failed (subscribers get an error event).
PollSkip(entry) ==
  /\ IsCurrent(entry)
  /\ \/ pollCapture.st = "ok" /\ pollCapture.out = lastOutput[entry[2]]
     \/ pollCapture.st = "failed"
  /\ NextEntry(entry)
  /\ UNCHANGED <<panes, created, subscribers, lastOutput, streamSeq, history,
                 pollTimer, calls, content, edits, wire, view, log>>

-----------------------------------------------------------------------------
(* External: tmux and the clients *)

CaptureResult(capture, p) ==
  {[st |-> "ok", out |-> content[p]], [st |-> "failed", out |-> << >>]}

\* `tmux capture-pane` for a suspended attach reads the pane, or fails.
AttachCapture(k) ==
  /\ k.capture.st = "pending"
  /\ \E r \in CaptureResult(k.capture, k.pane) :
       calls' = (calls \ {k}) \union {[k EXCEPT !.capture = r]}
  /\ UNCHANGED <<panes, created, subscribers, lastOutput, streamSeq, history,
                 pollTimer, pollTodo, pollCapture, content, edits, wire, view, log>>

\* `tmux capture-pane` for the poll loop reads the pane.
PollCapture(entry) ==
  /\ IsCurrent(entry) /\ pollCapture.st = "pending"
  /\ pollCapture' = [st |-> "ok", out |-> content[entry[1]]]
  /\ UNCHANGED <<panes, created, subscribers, lastOutput, streamSeq, history,
                 pollTimer, pollTodo, calls, content, edits, wire, view, log>>

PollCaptureFail ==
  /\ isPolling /\ pollCapture.st = "pending"
  /\ pollCapture' = [st |-> "failed", out |-> << >>]
  /\ UNCHANGED <<panes, created, subscribers, lastOutput, streamSeq, history,
                 pollTimer, pollTodo, calls, content, edits, wire, view, log>>

\* A program writes to the pane, or the captured window scrolls or clears.
PaneChange(p, t) ==
  /\ edits < MaxEdits
  /\ t # content[p]
  /\ content' = [content EXCEPT ![p] = t]
  /\ edits' = edits + 1
  /\ UNCHANGED <<engineVars, wire, view, log>>

\* A protocol client applies an event: a snapshot replaces its text, the next
\* delta extends it, a known number is ignored, a skipped one is a gap.
Apply(v, e) ==
  IF e.mode = "snapshot"
    THEN [w |-> e.w, seq |-> e.seq, text |-> e.chunk, gap |-> FALSE, clean |-> TRUE]
  ELSE IF e.seq = v.seq + 1 /\ ~v.gap
    THEN [w |-> e.w, seq |-> e.seq, text |-> v.text \o e.chunk, gap |-> FALSE,
          clean |-> v.clean /\ (v.w = e.w \/ v.seq = 0)]
  ELSE [v EXCEPT !.gap = @ \/ e.seq > v.seq + 1]

Receive(c) ==
  /\ wire[c] # << >>
  /\ LET e == Head(wire[c]) IN
       view' = [view EXCEPT ![c][e.pane] = Apply(@, e)]
  /\ wire' = [wire EXCEPT ![c] = Tail(@)]
  /\ UNCHANGED <<engineVars, content, edits, log>>

-----------------------------------------------------------------------------
Next ==
  \/ \E c \in Client, p \in Pane :
       \/ AttachFirst(c, p)
       \/ AttachNoCursor(c, p)
       \/ \E since \in 0..view[c][p].seq :
            AttachReplay(c, p, since) \/ AttachFallback(c, p, since)
       \/ Detach(c, p)
  \/ \E c \in Client : DetachAll(c) \/ Close(c) \/ Receive(c)
  \/ \E k \in calls : AttachCapture(k) \/ AttachResume(k) \/ AttachFail(k)
  \/ PollStart
  \/ \E entry \in pollTodo :
       PollCapture(entry) \/ PollEmit(entry) \/ PollSkip(entry)
  \/ PollCaptureFail
  \/ \E p \in Pane, t \in Text : PaneChange(p, t)

Spec == Init /\ [][Next]_vars

\* Promise continuations and interval timers run, sockets deliver, and every
\* capture-pane process ends (the adapters give it a timeout); a pane is not
\* unreadable forever, which is strong fairness of the successful capture.
Fairness ==
  /\ WF_vars(PollStart)
  /\ SF_vars(\E entry \in pollTodo : PollCapture(entry))
  /\ WF_vars(\E entry \in pollTodo : PollEmit(entry) \/ PollSkip(entry))
  /\ \A i \in CallId :
       /\ WF_vars(\E k \in calls : k.id = i /\ AttachCapture(k))
       /\ WF_vars(\E k \in calls : k.id = i /\ (AttachResume(k) \/ AttachFail(k)))
  /\ \A c \in Client : WF_vars(Receive(c))

FairSpec == Spec /\ Fairness

-----------------------------------------------------------------------------
(* Properties *)

\* nextEvent numbers the events of a watcher 1, 2, 3, ... and the retained
\* history is exactly the newest MaxHistory of them, in order.
HistoryWindow ==
  \A w \in Watcher :
    /\ Len(log[w]) = streamSeq[w]
    /\ Len(history[w]) = Min({streamSeq[w], MaxHistory})
    /\ \A i \in 1..Len(history[w]) :
         LET s == streamSeq[w] - Len(history[w]) + i IN
         history[w][i] = log[w][s].event /\ history[w][i].seq = s

\* A client whose events all came from one watcher shows exactly the text the
\* watcher had when it sent the client's last event: replays, snapshots and
\* deltas computed after stale captures never corrupt it.
ViewExact ==
  \A c \in Client, p \in Pane :
    LET v == view[c][p] IN
    v.clean /\ v.w # 0 => v.seq \in 1..Len(log[v.w]) /\ v.text = log[v.w][v.seq].text

\* An event that tells a client of event s of watcher w: s itself, or a newer
\* snapshot.  A client that attaches with unread events may do so under the
\* number of an earlier watcher; a later delta then shows it the gap.
Tells(event, w, s) ==
  /\ event.w = w
  /\ \/ event.seq = s
     \/ event.mode = "snapshot" /\ event.seq >= s
     \/ MaxUnread > 0 /\ event.seq > s

\* A subscriber in step with its watcher misses no event of the poll loop
\* unknowingly: an event that tells it of each later one is on its way, except
\* for the snapshots that a concurrent first attach sent to another client only.
NoSilentLoss ==
  \A p \in Pane, w \in Watcher : panes[p] = w =>
    \A c \in subscribers[w] :
      view[c][p].w = w /\ ~view[c][p].gap =>
        \A s \in (view[c][p].seq + 1)..streamSeq[w] :
          \/ log[w][s].by = "attach"
          \/ \E i \in 1..Len(wire[c]) : Tells(wire[c][i], w, s)

\* The timer runs as long as a pane whose stream has started is watched:
\* no order of attach, failure, detach and close leaves it unpolled.
PolledWhileWatched ==
  \A p \in Pane : panes[p] # 0 /\ streamSeq[panes[p]] > 0 => pollTimer

Subscribed(c, p) == panes[p] # 0 /\ c \in subscribers[panes[p]]

\* Whether the view is empty or built from the pane's present watcher alone.
FollowsWatcher(c, p) == view[c][p].clean /\ view[c][p].w \in {0, panes[p]}

\* The newest event of the pane's stream is the snapshot of an overlapping first
\* attach of another client, which the engine sends to that client alone.
Overtaken(c, p) ==
  LET w == panes[p] IN
  streamSeq[w] > view[c][p].seq /\ log[w][streamSeq[w]].by = "attach"

\* A subscriber that follows the pane's watcher comes to show what the pane
\* shows, whatever was captured, lost or retried before, with two exceptions: it
\* saw a skipped number (and must attach again), or the first snapshot of an
\* overlapping attach, newer than its own, went to the other client only; later
\* polls find nothing new, and the client stays behind until the pane changes.
Converges ==
  \A c \in Client, p \in Pane :
    []<>(Subscribed(c, p) /\ FollowsWatcher(c, p)
           => \/ view[c][p].text = content[p]
              \/ view[c][p].gap
              \/ Overtaken(c, p))

=============================================================================
