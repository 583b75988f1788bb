# CommandRelay: TLA+ models, checks and proofs

CommandRelay (`src/`) lets phones, browsers and terminals watch and drive the
terminal panes of a developer machine. A Node gateway polls tmux panes (locally
or over SSH) and cmux surfaces and streams what they show over WebSockets; a
relay proxy can stand in front of it; a web page, a client library with a
terminal UI, and iOS and Android clients speak its protocol; a family of proxy
packages serves outgoing requests. This directory holds models of that code,
TLC runs on small instances, and TLAPS proofs of what holds for every instance.

## 1. Inventory

| part | code | state it keeps | operations |
|---|---|---|---|
| Pane streaming engine | `src/src/bridge` | Map pane -> watcher (subscribers, last text, sequence number, bounded history), poll timer, `isPolling` | `attach`, `detach`, `detachAll`, `pollOnce` and their continuations after `await` |
| WebSocket server | `src/src/server` | per connection: authenticated, input enabled, attached panes; lane map pane -> owner and lease; audit lines under way | one handler per message, its awaits, socket close |
| Rate limiter | `src/src/server/rate-limiter.ts` | per key the instants of the granted events | `consume`, `clear` |
| Telemetry | `src/src/telemetry` | counters, one ring of latencies per operation | record, snapshot, layered status |
| Protocol library | `src/packages/commandrelay-protocol` | none | envelope parsing, strict and lenient |
| tmux, SSH, cmux adapters; multiplexer | `src/src/tmux`, `ssh`, `cmux`, `runtime` | the verified host key; otherwise child processes under way | probe, list, capture, send input line by line; routing |
| Startup | `src/src/config.ts`, `index.ts`, `startup` | phase of the process | load, validate, preflight, probe, listen, shut down |
| Relay proxy | `src/packages/commandrelay-relay-proxy` | options, TLS watch, sessions, upgrade reservations, upstream queues, idle timers, counters | start, admit, upgrade, messages both ways, every way a session or the process ends |
| Client library | `src/packages/commandrelay-client` | the current socket, its greeting, requests in flight, cached protocol module | connect, requests, close, socket events, timers |
| Web client | `src/apps/web` | one state object for all connections, pending requests, timers | form, buttons, socket events, heartbeat, reconnect |
| Terminal UI | `src/packages/commandrelay-tui` | the client object, reconnect timer, counters, cooldown, block after a failed authentication, profile file, checklist report | bootstrap, reconnect, commands, checklist |
| Proxy packages, control plane | `src/packages/proxy-*`, `src/src/control-plane` | settings, bounded caches of agents, statistics, requests | decide, resolve, update, reload, clear, request, abort |
| iOS, Android, orchestration, operations scripts | `src/apps`, `src/scripts`, `src/packages` | | not modelled, see section 6 |

`PROJECT.json` lists every part with what is, or why it is not, modelled, and
under `hazards` what is hard to test, each at its line with the properties that
would catch it.

### How the parts interact

The server calls the engine from its message handlers and gets output back
through the `onOutput` callback; the engine and the server call the runtime
adapter and await one process per call. Node runs handlers one at a time, so
everything between two `await`s is atomic and everything across one is not: the
engine suspends at each `capture-pane`, the server at `engine.attach`, at each
line of `sendInput` and at each audit line. The relay is driven by the events of
two sockets per session and by timers. Clients and gateway share nothing but the
message stream and the cursor (`lastSeq`) a client brings back after a
reconnect; but each client keeps one state record that the events of several of
its own sockets write.

### What is hard, and what correctness means

| part | hard behaviour | properties |
|---|---|---|
| engine | overlapping attaches on one watcher; captures older than what has been published; watchers dropped and re-created while continuations hold the old object | `ViewExact`, `NoSilentLoss`, `PolledWhileWatched`, `Converges` |
| server, lanes | leases that expire lazily, attaches that end after their connection has gone, inputs in flight across a change of owner | `LaneImplemented`, `LaneOwnerAttached`, `StreamedOnlyToAttached` |
| server, messages | handlers of one connection that overtake each other; runtime calls and audit lines that fail or are late | `PolicyTold`, `AuditTrue`, `SendsOnlyAsWished`, `Answered` |
| limiter, telemetry | events exactly at the edge of the window, rings that wrap | `WindowBound`, `RetryAfterSuffices`, `SnapshotExact`, `FailsWhileSlow` |
| startup and adapters | refusals in the right order; one host key and many commands; children that time out after having done their work | `Fit`, `PinnedFirst`, `TypedInOrder`, `ListingRoutesBack`, `OpsSettle` |
| relay | messages before the upstream opens, ten ways for a session to end, some of them twice, peers that never answer; flags, variables and defaults; files that change | `InOrder`, `BacklogBounded`, `StatsExact`, `BytesExact`, `SessionsEnd`, `TokenHonoured`, `RotationReported` |
| client library | timeouts against answers, closes and errors of several sockets of one object | `NoLostPromise`, `OneConnection`, `CallsSettle` |
| web client | closes of sockets that were left behind; state of one connection seen by the next | `WebRetries`, `WebInputAsTold` |
| terminal UI | late events of orphaned clients, one timer field reset from five places | `LossIsRetried`, `RejectedTokenForgotten`, `ProfilesExist`, `QaReportHonest` |
| proxy packages | a cache at its limit while others update and clear it; requests that fail while they are read | `CacheIsRecent`, `ControllerHonest`, `ExplanationTrue`, `RequestsWatched` |

## 2. Modules and how they correspond to the code

**BridgeEngine** (with `MCBridgeEngine`, `BridgeEngine_proofs`). A watcher is a
JavaScript object that continuations keep after it has left the Map, so
watchers have identities `1..MaxWatchers` in order of creation and `panes` maps
a pane to one of them or to 0. `attach` is four actions, for its four exits
before the first suspension (`AttachReplay`, `AttachFallback`,
`AttachNoCursor`, `AttachFirst`) and two for its continuation (`AttachResume`,
`AttachFail`). `pollOnce` is `PollStart`, then per entry of the snapshot it
holds a capture and `PollEmit` or `PollSkip`; `pollTodo` is the rest of its
`for` loop. `AttachCapture`, `PollCapture`, `PollCaptureFail` and `PaneChange`
are tmux, which reads the pane when the process runs, not when its result is
used. A pane's text is a sequence of lines; `computeDelta` is kept (prefix test,
suffix or whole text). `Receive`/`Apply` is the protocol client: a snapshot
replaces, the next delta extends, a known number is ignored, a skipped one is a
gap. Every event carries the watcher that sent it; it is not on the wire and is
only for the properties. `log` is the unbounded history the bounded one is
compared with.

**BridgeServer** (with `MCBridgeServer`, `BridgeServer_proofs`) and
**InputLane**. One action per message handler, including its early returns. A
lane is an owner and the instant its lease ends; an expired lease stays in the
map until the next request meets it, as in the code. `engine.attach` is
external here: it ends some time later, well or badly. `streamed` is the set of
panes the engine has the connection subscribed to; besides that, the continuation
of an attach sends its first output whether or not the connection still has the
pane (`bridge-engine.ts:219`). `due` counts, for a pane a connection has left, the
attaches that were suspended then and have not sent theirs. An input is a number
of pieces, one `send-keys` process each. `InputLane` is what the lane
promises: no owner, or one; it changes hands only through being free, by expiry
or by a takeover. `BridgeServer` implements it under the mapping that reads an
expired lease as no lease.

**RelayProtocol** and **MessageIntake** (with `MCIntake`, `Intake_proofs`). The same server seen
from the raw frame: a frame is what parsing tells apart in it (size, JSON,
version, type, payload, requestId), `parseClientMessage` and the payload
validators are operators, and a handler is a slot with the list of awaits it has
left (`todo`), so that handlers of one connection overlap and overtake each
other at every runtime call and audit line. The audit log is optional, and the
append of an input's line may fail, which nobody is told (`lost`). Answers, audit lines, policy
messages, ownership and the attach-lag entries are what each await leaves.
Limiter verdicts are a choice and leases end at any time, because the other
modules are about those. `wish` sums up what a client's requests ask for, in
their order, and is what `SendsOnlyAsWished` compares with.

**SlidingWindowRateLimiter** (with `Intake_proofs`) and **BridgeTelemetry**,
joined in `MCLimits`. `consume` and `clear` over integer time, with the list of all grants
as a history variable; the latency rings with their write index, totals,
percentiles and the layered status, with the list of all samples.

**StartupConfig** and **BridgeRuntime** (with `MCRuntime`,
`BridgeRuntime_proofs`). What the bridge makes
of its environment (`loadConfig`, `validateStartupConfig`, the SSH target
grammar, the ssh preflight, the startup profile) as operators on raw values that
are unset, blank or what the parsers tell apart; then the process: start, probe
of every backend, listen, requests, shutdown. Each adapter call is a child
process that ends well, badly or in a timeout, having done its work or not.
`tasks` has one entry per operation and backend; `typed` is, per operation, what
reached a terminal, each entry a sequence of lines or the `C-m` that ends one.
The rows of a listing are a set: the adapters remove no duplicates, and a pane of
a linked tmux window comes twice in the code. Pane ids are sequences of
tokens, because a raw id may hold the multiplexer's delimiter. tmux, ssh and
cmux themselves are external.

**RelayProxy** and **RelayProcess**, composed in `MCRelayProxy`, with
`RelayProxy_proofs` about both. `RelayProxy` has
the sessions: sockets have the `readyState`s of the ws library; `closeSession`,
with its disposal of both sockets and the 750 ms second try, is one operator
that every end of a session uses. A message is its size. Two outcomes of the
library that the code does not expect are modelled as they are: a refused
handshake neither calls back nor throws (`HandshakeRefused`), and a socket that
is still connecting has no transport to destroy, so that its later error finds
no listener (`crashed`). The idle timer may fire before `Date.now()` has reached
its limit (`IdleTooEarly`): the handler returns, and `idleTimer` has no timer of
that session until its next activity. `RelayProcess` has the process around them: flags and
environment, options and their validation, the admission tests and operator
pages, the watch on the TLS files, signals and the end. In the composition a
signal to an open relay is the sessions' `Close` (`Stopping`), and sessions run
only while the process listens (`Sessions`). They are explored for one command
line, `PlainArgv`, since no other setting reaches them.

**RelayClient** and **WebClient**, joined in `MCRelayClient`, with
`RelayClient_proofs` about both. `RelayClient` is one client object; its sockets are numbered in
the order `connect` opens them, because a socket that is no longer `this.socket`
may still have its listeners on. `shake` is the promise of the `connect` that
opened a socket, `state` what each request's caller has got, `heard` the sockets
with listeners. `clearSocket` is one operator that every end of a connection
uses; it ends the connection that is current when it runs, as in the code, which
is not always the one that failed. The commands differ only in the types they
expect, except `disconnect`, which closes when its answer comes. The gateway's
side and the ws library are external. The timer of a handshake exists as long as
its promise waits: `requestTimeoutMs` is positive, as by default.
`WebClient` is the page: its state object `S` with the functions of `app.js` as
operators on it. As in the code no handler asks which socket an event is of; a
request goes out on the current socket, whichever socket was heard. A browser
delivers messages only on open sockets. Its pending requests are a set, as ids
are never used twice. Of `attachPane` the detach of the pane shown before is left
out: the page does nothing with its answer.

**TuiSession**, with **ConnectionProfiles** and **QaMode** (`MCTui`,
`TuiSession_proofs`). The shared
state record of the terminal UI, the bootstraps under way with who called each
(`origin` decides what a failure does), the socket of every client object ever
made, and the command in flight. What runs in microtasks is a step of its own
that the others wait for (`Quiet`). The profile file is what loading it yields;
a crash in the middle of a save leaves an unreadable one. A socket that is closed
while it is still connecting, by a handshake timeout, `/quit` or `/profile use`,
may end the process: its listeners have been removed, and its error event finds
none (`ConnectFails`, `Leave`, with `ProcessEnds`). `QaMode` is the
production checklist and its report file; `ui = "qa"` when the process runs that
instead.

**ProxyCore**, **BoundedCache** and **ProxyRuntime** (`MCProxy`,
`ProxyRuntime_proofs`). Routing as
operators over hosts, ports and NO_PROXY tokens (a host is a sequence of pieces,
the dot one of them, so that `evilcorp` ends with `corp` and is no subdomain of
it); beside it, translated from its own lines, the copy of the matching in
`cli-proxy`; the LRU cache as a sequence; and one process with one of
five uses of them (`kind`): the runtime controller and JSON client, the control
plane client, undici with fetch, axios, got. A request has a timeout or none
(`timed`; `timeoutMs` 0 disables it, `packages/proxy-http-client/README.md:156`).
A target the factory throws for leaves a disposed controller active again
(`ControllerThrows`).

## 3. Runs

| run | question | bounds and why they are enough |
|---|---|---|
| `EngineClients` | two connections on one pane | 2 suspended attaches, history 1, 2 edits: the attaches overlap each other, the loop and a trimmed history |
| `EnginePanes` | does a started stream stay polled when one connection has two panes | 2 watchers, 2 suspended attaches, history 2: continuations of a dropped watcher cross those of its successor, and one iteration of the loop crosses both panes |
| `EngineConverges` | liveness of the stream | 2 clients whose first attaches overlap (2 suspended attaches), 1 watcher, 1 edit, failing captures |
| `ServerLane` | lanes, leases, refinement of `InputLane` | 2 connections, 2 panes, limit 1, lease 2 of 3 ticks, 2 pieces: a lease ends while its owner is idle, attached or sending |
| `Intake` | messages of one connection, from frame to answer | a frame of every type, well and badly formed, 2 handlers at a time, a rival for the pane, failing calls and failing audit lines, with and without an audit log: two handlers are what an overtaking needs |
| `Limits` | window and ring arithmetic | 2 events per 2 ticks over 7 ticks, more than three windows; rings of 3 with 5 samples, so that they wrap |
| `Runtime` | the bridge process and its adapters | a default environment and those that differ in one or two settings, 2 operations beside the probe, one change of a backend or of the host key |
| `Relay` | the relay process and its sessions | 2 connections and slots, 2 messages of size 1 or 2 against limits 2 and 2, so that the queue fills by count and by bytes; environments with two odd settings; one rotation of the files |
| `Client` | requests and connections of the library; the web page | 2 sockets, 2 requests, 2 overlapping calls, 2 messages under way: a late timer or close of one connection meets the other and its requests. The page: 2 sockets, 1 pane, 1 request at a time |
| `Tui` | the terminal UI | 2 client objects in use at once, of which one can be orphaned; 2 retries and 2 failures before the cooldown; 1 profile; every kind of token and answer |
| `Proxy` | the proxy packages | 1 request, with or without a timeout, and 2 lookups of other callers on a cache of 2 with 3 agents; 3 environments that cover the forms of each variable, 7 targets that cover those of a host (a subdomain, one that only ends alike, a trailing dot, none) and protocols the agents refuse |
| `RelayVersions` | the one disagreement with a document that has a run | the environments of `Relay`; expected to fail |

The remaining constants bound the environment (`MaxEdits`, `MaxWatchers`,
`MaxCalls`, `MaxUnread`, `MaxClock`, `MaxSends`, `MaxAttaching`, `MaxMessages`,
`MaxDown`, `MaxTime`, `MaxSamples`, `MaxSockets`, `MaxRequests`, `MaxWire`,
`MaxOutputs`, `MaxPending`, `MaxChanges`, `MaxRotations`, `MaxAgents`,
`MaxResolves`), each named in the guard of the action it limits. `MaxUnread = 0`
lets a client attach only with an empty socket buffer; events that are already
sent when it attaches are covered by the second connection's and the poll
loop's. `MaxAttaching = 1` is one `engine.attach` under way per connection in the
server model; overlapping attaches are the engine model's subject. In `Tui` one
command that waits is in flight at a time, a `/reconnect` apart: the line handler
does not serialise them, the model does. Symmetry is used in runs that check no
liveness (`EngineClients`, `EnginePanes`, `ServerLane`, `Tui`), over connections,
panes and client objects, none of which is compared.

Deadlock is checked in the engine runs and in `Runtime`. The others really may
stop: the clock or the number of samples is at its bound, all connections are
closed, the process has ended or crashed, or every agent has been created.

### Fairness

* `Converges`: the interval timer fires while it is set (`PollStart`), promise
  continuations run, every capture process ends (the adapters give it a
  timeout), sockets deliver (all weak fairness), and a pane is not unreadable
  for ever: strong fairness of the successful capture. Without the last the code
  promises nothing. The property has two exceptions, both in the code: a client
  that saw a skipped number has to attach again, and one whose overlapping first
  attach was overtaken (`Overtaken`) stays behind until the pane changes, because
  the newer snapshot went to the other client only and polls compare with it.
* `SessionsEnd`, `RotationReported`: `setTimeout` and `setInterval` fire
  (`Tick`, `CheckIdleTimeout`, `updateUpstreamTlsWatchState`); no peer owes an
  answer, so a session that ends does so because of the relay. That the idle
  timer fires does not mean that it ends the session: the check may come too
  early, and the property excepts a session that has lost its timer this way.
* `CallsSettle`: the timers of handshakes and requests fire; nothing is assumed
  of the network, the gateway or the caller.
* `OpsSettle`: some continuation or child process that can go on does
  (`Progress`); every child has a timeout.
* `Answered`: each handler's await ends (`Resume`); whether well or badly is open.

### What the violation run shows

`RelayVersions`: the relay's command line tool does not start unless both TLS
versions are set, although they are documented as optional. An unset variable
becomes `""`, and only `undefined` is let through (`index.ts:598`).

## 4. Proofs

Each theorem holds for every value of the constants that satisfies the module's
`ASSUME`: any sets of clients, panes and texts, any limits. Type correctness is
an inductive invariant in each module and is the first conjunct of all others.

* **BridgeEngine_proofs**. `EngineHistoryWindow` is inductive with the type
  invariant: `log` grows with `streamSeq`, and `PushHistory` keeps the newest
  events. `EnginePolledWhileWatched` needs `TimerInv`: the watchers that the map and the
  loop refer to have been created (`UsedAreCreated`), so that a fresh watcher
  is one the loop does not hold; and while the loop still holds an entry of a
  mapped watcher the timer runs (`PendingArePolled`), so that the loop cannot
  start the stream of an unpolled watcher.
  `EngineViewExact` needs `StreamInv`: the watcher's text is the one of its last
  log entry (`LastLogged`); every delta in the log extends the text before it
  (`LogTrue`); every event on a wire is one of the log or a snapshot of its
  entry (`WireTrue`); a view without events is empty (`FreshView`). The argument
  is that a delta is applied only at the number after the view's, and there the
  log says what the text becomes.
  `EngineNoSilentLoss` needs two more. `HomeInv`: a watcher belongs to one pane
  for good, so that what continuations, loop entries and events name is
  consistent after the map has moved on. `LossInv`: of a subscriber in step with
  its watcher, the events after the view are owed by the wire, and likewise the
  events after each event on the wire (`Owed`, `InStep`), because a snapshot
  under way may take over a view that has a gap. When a client may attach with
  unread events (`MaxUnread > 0`), its cursor may be an earlier watcher's number;
  then any later event counts, as it shows the gap (`Tells`).
* **Intake_proofs**, of what a message meets first. The limiter: the queue is a
  suffix of the grants (`QueueIsSuffix`) and what was dropped is older than the
  window (`DroppedIsOld`); `LimiterWindowBound` follows. Denials need the facts
  that held at the denial to be remembered (`QueueBounded`, `DenialFacts`), which
  gives `LimiterDeniedOnlyWhenFull` and the action property `LimiterRetryAfter`.
  The handlers: `IntakeInv` describes what a handler has left to do (`Plan`: at
  most one call, first, then audit lines, at last the answer). An input that
  reached its pane has its lines attempted or due, and makes no call that could
  still throw (`SlotInv`); what a connection was told of input holds, or an
  answer that nothing can stop will tell it (`PolicyOK`); what a connection may
  do is what its requests add up to (`WishOK`). These give `IntakeAuditTrue`,
  `IntakePolicyTold` and the action property `IntakeSendsOnlyAsWished`, for any
  number of handlers, frames and errors and without an assumption on them.
  The telemetry: `TelemetryInv` says of every ring how it lies over the samples
  (`Ring`: slot by slot, which of the newest samples it holds) and that the
  counters and extremes are those of all samples (`Counts`, `Extremes`). A full
  ring is therefore a rotation of the newest samples, and sorting it sorts them;
  that a sorted order exists at all is shown by inserting one sample after the
  other. Of a sorted sequence the nearest rank is the percentile
  (`NearestRank`, by counting the samples below and above it), and there is only
  one (`OnePercentile`). `TelemetrySnapshotExact` and `TelemetryFailsWhileSlow`
  follow, for rings of any size and any whole latencies, negative ones included
  (`TelemetryAssumption`). `TelemetrySpec` is the telemetry by itself, with the
  bound `MaxSamples` left to be any number.
* **BridgeServer_proofs**. A lane's owner is open, authenticated and attached,
  and leases are bounded by the clock (`LeaseBounded`); attached sets are finite
  (`AttachedFinite`), which `ServerAttachLimit` needs for its cardinalities.
  `ServerLaneImplemented` maps every step of the server to a step of `InputLane`
  or to a stutter. `ServerStreamedOnlyToAttached` also needs that what a
  connection is owed for a pane it has left covers the attaches still suspended. `ServerKillSwitch` (no input under way when
  `globalInputDisabled`) has no run: its constant is FALSE in the others.
* **BridgeRuntime_proofs**. `RuntimeInv` says of the process that a configuration
  that got beyond loading was fit (`PhaseInv`) and that a pinned key which counts
  as verified was scanned, and a pinned bridge listens only behind it (`ScanInv`);
  and of each operation (`OpInv`) that its child processes are of configured
  backends and do what the operation is for (`TaskOK`), that a tmux child of a
  pinned host runs only once the key is verified (`PinOK`), that what was typed
  and what is left to type make up the input (`SendOK`), and that the rows of a
  listing were made from configured backends (`RowsOK`). A step changes the
  process (`BootStep`, `ExitStep`), one child (`TaskStep`) or one operation
  (`OpStep`); the rest of an operation's facts do not depend on it.
  `RuntimeListingRoutesBack` then rests on the pane id grammar alone: the first
  delimiter of a namespaced id is the one the multiplexer put there, whatever the
  raw id holds. The facts about `FlattenSeq` and about removing duplicates from
  the list of backends are proved by a least counterexample. The assumptions say
  what the raw values of an environment are made of; that the marks for unset,
  blank and rejected values differ is `SentinelsDiffer`.
* **RelayProxy_proofs**. `IInv` says of every connection that before its
  acceptance it has left no trace (`Fresh`), that a session has an upstream
  (`Paired`), that what the upstream got and what waits make up what the client
  sent (`Ordered`), and that the queue is within its limits and empty once the
  upstream is open (`Bounded`). `RelayStatsExact` also needs the sets it counts
  to be finite (`CountInv`): a session leaves the set in the step that counts it
  as closed, however often its ends fire. `RelayBytesExact` adds that the two
  byte counters are the sums over the queues and over what the clients sent
  (`Accounting`, of each step), for which there have to be finitely many connections
  (`ConnAssumption`). `RelayTokenHonoured`, about the process, needs `OptionsInv`: from its configuration on, the process runs with
  what the command line and the environment gave it.
* **RelayClient_proofs**. Of the library, `ClientInv` is the type invariant, the
  three safety properties and `OneCall`: without an overlap at most one `connect`
  waits for the protocol module, and none while there is a connection; so a
  socket that is opened finds no other one. The cases reduce to three lemmas,
  for a step that ends the connection (`ClearedStep`), one that settles a request
  (`SettledStep`) and one that does neither (`QuietStep`).
  Of the page, `WebInv`: while no two sockets have overlapped, the only one alive
  is the page's own, and what the page believes of input and pane is what this
  connection was told. Each function of `app.js` is shown once to make, end or
  replace no socket (`Calm`) and to allow no input (`Tame`), so that an event is
  the sum of the functions it calls. `WebPageRetries` is a consequence;
  `WebPageInputAsTold` is an action property, about the step that sends a command.
* **TuiSession_proofs**. `TuiLossIsRetried` needs `TuiInv`: without a reason to
  stop, something that will retry is armed, open or still to fail (`CoverInv`);
  a session that is to stay closed has no timer (`TimerInv`), and a command that
  leaves keeps it so until it is settled (`LeaveInv`). `TuiProfilesExist` is
  carried by the store's own invariant, that the active profile is one of its
  names (`ActiveExists`). `TuiQaReportHonest` needs `QaInv`: the sections before the
  loop's index are decided, those after it untouched, and the file says what the
  statuses say. That the requested sections are known and each there once is an
  assumption on the constant (`SectionsAssumption`), which TLC evaluates with the
  code's own selection.
* **ProxyRuntime_proofs**. `RecentOf`: the cache holds the last distinct keys that
  were used, in their order, for any limit. `AgentInv`: every entry has an open
  agent of its own, and none that is open was lost, unless the limit is 0 or the
  package is undici (section 5). `ControllerInv`: the counters add up to the
  decisions. `Watched`: a request under way with a timeout has its timer
  or is being destroyed, an aborted one is being destroyed, and one that is over
  has neither timer nor listener. `ProxyExplanationTrue`
  needs no invariant but that of the types: the two implementations of the host,
  port and rule tests agree on every target and rule (`CopiesAgree`), the rules
  parsed from a list are one by one those of its tokens, in their order
  (`RulesFacts`), so that the explainer finds a rule where proxy-core bypasses, and
  one that bypasses alone (`FindFacts`), and the setting it names is the one that is
  read (`SourceFacts`). It assumes of
  `NO_PROXY` that it is unset or a list of tokens (`EnvironmentAssumption`).

What a recursive function computes (the partial sums of bytes and latencies, the
rules of a list) is proved without an induction rule: the set of lengths at which
it would go wrong has a least element, and the step before that one contradicts
it (`NatLeast`, from the well-foundedness of `<`).

The type-correctness theorems, `EngineHistoryWindow`,
`LimiterDeniedOnlyWhenFull`, `ServerKillSwitch`, `ServerAttachLimit` and
`ClientPendingNeedsSocket` are used by the others, or are cheap beside them, and
have no run of their own.

Every invariant and every safety property of the runs is stated by a theorem.
Only model-checked are the liveness properties `Converges`, `SessionsEnd`,
`RotationReported`, `CallsSettle`, `OpsSettle` and `Answered`: fairness and
`ENABLED` are out of the prover's reach.

## 5. Met while modelling

The models keep the code's behaviour in all of these; no property claims
otherwise.

Engine and server:
* A failing attach deletes the map entry by pane id although the watcher there is
  not the one it holds (`bridge-engine.ts:236`): the newer watcher's subscribers
  get no more output, contrary to the comment at line 81.
* An attach whose capture comes back after its detach starts a timer with no pane
  to poll (line 221, comment at 91).
* Numbers restart with each watcher and `lastSeq` names none: a cursor of an
  earlier watcher may be continued with deltas of another text
  (`docs/ssh-transport-contract.md:60`).
* Of two overlapping first attaches of two connections, the one that resumes later
  sets `lastOutput` and sends it to its own client only: if the pane then stays as
  it is, polls see no change and the other client keeps the older text (lines
  216-219). An attach that resumes after its detach still sends its snapshot.
* Of two overlapping first attaches of a connection, the failing one leaves a
  watcher without subscribers (`protocol-v1.md:251`); a failed attach leaves the
  pane in the attached set (`protocol-v1.md:201`); another client's first snapshot
  takes a number, so that a subscriber sees a hole.
* The lane is checked before the first line of an input and not between lines, so
  that the lines of two owners interleave (`bridge-server.ts:436`,
  `protocol-v1.md:297`). An expired lease gives a lane away without takeover
  (`protocol-v1.md:289`; `operations.md:428` describes leases).
* `input_takeover` is audited only after the input has been sent;
  `invalid_input`, `pane_not_attached` and `input_too_large` are not audited, and
  a failure in the middle of an input only as `runtime_failure`; a line that cannot
  be appended is lost with a warning (`audit-log.ts:65`)
  (`docs/ssh-transport-contract.md:69`, `docs/controlled-input-audit.md`).
* A padded type (`" input "`) escapes the `requestId` requirement
  (`protocol-v1.md:67`); the errors of the limiter, the parser and
  `pane_poll_failed` carry no `requestId`; `disconnect` sends no policy update.
* A request exactly `retryAfterMs` later is denied again (`rate-limiter.ts:58`,
  `protocol-v1.md:316`).

Startup and adapters:
* A fingerprint with `=` padding is accepted and never matches; the host key is
  verified once for the life of the process; a mismatch at startup shows as
  "tmux backend unavailable".
* The multiplexer rejects a whole listing when one backend fails; a pane of a
  linked tmux window is listed twice (`tmux-adapter.ts:85`);
  `connectTimeoutSeconds` is not forwarded; the lenient integer parser reads
  `12abc` as 12; a second signal while closing exits with 1.

Relay:
* `restart_required` is forgotten when the files cannot be read once
  (`index.ts:836`, relay README:120); a rotation between load and first snapshot
  goes unnoticed.
* A failed listen with the TLS watch on leaves the process alive, so that no
  supervisor restarts it; `--token " "` overrides the variable and is trimmed to
  no token; flags are not held to the ranges of the variables.
* A refused handshake keeps its reservation; a session that ends while its
  upstream connects leaves an orphan or an unhandled error; the idle timer is not
  set again when it fires early (`index.ts:335`), and an idle session then stays; a second signal cuts the grace period short.

Clients:
* Library: `dispatchIncoming` returns when a message has no `requestId`
  (`index.ts:352`), and output has none, so the `output` event is never emitted
  (`SKILL.md:8`); a late handshake timer ends a newer connection; closing a
  connecting socket leaves an error event without a listener; a `send` that throws
  leaves the request's own promise rejected with nobody to handle it
  (`index.ts:326`), which ends a Node process by default.
* Web: `onClose` does not ask which socket closed, so connecting while the old
  socket is closing can leave a page that is ready without a current socket, and
  two live ones; after a failed and a repeated authentication `desired` stays
  false and a later loss is not retried; `onClose` forgets the pane that
  `onAuthenticated` would resume; between the detach of the pane shown before and
  the ack of the next one, commands still go out for the former (`app.js:223`).
  Outside the model: output that comes before the
  attach ack is dropped although its number is kept (`app.js:256`).
* Terminal UI: `/token` leaves an armed retry timer, which then orphans a healthy
  client; a close during a disconnect ends the process (`cli-runtime.ts:247`); a
  failed first connection schedules nothing although it says so (`cli.ts:123`);
  `/open` without the executable ends the process; `/profile use` of a missing
  name switches to the active profile and clears the file's; `/profile add` of an
  existing name erases its token; a loss during authentication erases a good
  token. A refused token stops only the retry a close
  would arm: when a retry itself fails at authentication, the timer's `catch`
  schedules the next one all the same (`cli-runtime.ts:104`), where the package's
  `SKILL.md:91` says that after token failures "the client is blocked from
  reconnect loops". A handshake timeout, or leaving while a socket connects, may
  end the process.
* iOS, from reading only: one replay cursor for all panes
  (`ReadOnlyStreamView.swift:118`), and the end of an old stream may terminate the
  new connection.

Proxy packages:
* undici's `close` is called without its receiver, and the dispatcher stays open
  (`proxy-undici-dispatcher-factory.ts:282`); `maxCacheEntries` 0 loses every
  agent; an eviction destroys the agent of a request under way.
* The explainer calls a proxied `ftp` target routed by `ALL_PROXY`; a factory throws
  for it (`proxy-agent-factory.ts:442`), which the explainer's agent part shows.
* `NO_PROXY` wins over `no_proxy`, contrary to the comment; an invalid port drops
  the rule instead of widening it; `http://host:80` matches every port.
* `fetchJson` has no limit of time for the body; ordinary network errors of the
  control plane are not `ControlPlaneTransportError`s.

## 6. Not modelled, and why

* The iOS and Android packages: Swift and Kotlin implementations of the same
  client behaviour as the library, the terminal UI and the web page, which were
  taken first.
* Orchestration helpers: builders of documents for agents, without state.
  Operations scripts: CI, release and measurement, not part of the running system.
* Of the modelled parts: wording and layout of messages, logs and pages; the web
  page's session list and output text; `cli-proxy`'s argument parser; the
  closing of the HTTP server; `session-state-machine.ts`, which only tests use;
  `session_list` payloads; the configuration fingerprint of the relay's status.
* Request targets that `new URL` cannot read: it throws in the relay's listeners
  (`index.ts:677`, and `isRelayPath`). The page's detach of the pane shown before.
  Duplicate rows of a listing.
* Clocks do not run backwards, except that the relay's `Date.now()` may lag behind
  its timers and telemetry may record a negative
  latency. Telemetry's rounding is exact for
  windows of up to 256 samples, the code's default.
* Engine and server are two modules: `engine.attach` is external in
  `BridgeServer`, and the engine's clients follow the protocol. Their composition
  is not checked.
