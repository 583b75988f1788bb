--------------------------- MODULE BridgeRuntime ---------------------------
(***************************************************************************)
(* The bridge process and its runtime backends: main and shutdown          *)
(* (src/index.ts), the adapter factory and the multiplexer (src/runtime),  *)
(* the tmux adapter over local processes or over ssh with a pinned host    *)
(* key, and the cmux adapter.  Every adapter call is a child process that  *)
(* the others overlap; a call may fail or time out, and a timed out one    *)
(* may have done its work.  Pane ids are sequences of tokens, because raw  *)
(* ids may hold the delimiter the multiplexer puts after a backend's id.   *)
(***************************************************************************)
EXTENDS StartupConfig
CONSTANTS Env,         \* the environments, each with the state of its files
          Ops,         \* operations that clients request once the bridge listens
          Token,       \* what pane ids are made of
          Line,        \* lines of inputs
          PaneId,      \* pane ids that clients name
          Text,        \* inputs, each the sequence of its lines
          RawPanes,    \* backend id -> the raw ids of its panes
          CmuxReply,   \* what `cmux list-surfaces` may print
          MaxChanges   \* bound: changes of the backends and of the host key

VARIABLES env, phase, exitCode, status, hostKey, changes, verified, tasks, op, result, typed,
          scanned
vars == <<env, phase, exitCode, status, hostKey, changes, verified, tasks, op, result, typed,
          scanned>>

Boot == "boot"   \* the startup probe, beside the clients' operations
Backend == {"tmux", "cmux"}
Config == loadConfig(env)
Over == Config.transportMode
Backends == Config.runtimeBackends
NoOp == [kind |-> "none"]
NoTask == [at |-> "none"]
NoTasks == [b \in Backend |-> NoTask]

Init ==
  /\ env \in Env
  /\ phase = "load" /\ exitCode = None
  /\ status = [b \in Backend |-> IF b \in env.down THEN "down" ELSE "up"]
  /\ hostKey = "k1"
  /\ changes = 0 /\ verified = FALSE
  /\ tasks = [o \in Ops \cup {Boot} |-> NoTasks]
  /\ op = [o \in Ops \cup {Boot} |-> NoOp]
  /\ result = [o \in Ops |-> None]
  /\ typed = [o \in Ops |-> <<>>]
  /\ scanned = {}
----------------------------------------------------------------------------
(* Pane ids and the multiplexer                                            *)

Delimiter == ":"

\* Only a multiplexer of several backends names panes after their backend.
shouldNamespacePaneIds == Len(Backends) > 1

buildNamespacedPaneId(b, raw) == <<b, Delimiter>> \o raw

\* Mutant: splits at the last delimiter.
ResolveLast(id) ==
  LET i == SelectLastInSeq(id, LAMBDA t : t = Delimiter) IN
  IF ~shouldNamespacePaneIds THEN [backend |-> Backends[1], raw |-> id]
  ELSE IF i <= 1 \/ i = Len(id) \/ Head(id) \notin ToSet(Backends) THEN Reject
  ELSE [backend |-> Head(id), raw |-> SubSeq(id, i + 1, Len(id))]

\* All that comes before the first delimiter is a backend's id, one token.
resolvePaneTarget(id) ==
  LET i == SelectInSeq(id, LAMBDA t : t = Delimiter) IN
  IF ~shouldNamespacePaneIds THEN [backend |-> Backends[1], raw |-> id]
  ELSE IF i # 2 \/ i = Len(id) \/ Head(id) \notin ToSet(Backends) THEN Reject
  ELSE [backend |-> Head(id), raw |-> SubSeq(id, i + 1, Len(id))]

RowOf(b, raw) ==
  [id |-> IF shouldNamespacePaneIds THEN buildNamespacedPaneId(b, raw) ELSE raw,
   backend |-> b, raw |-> raw]
----------------------------------------------------------------------------
(* cmux output.  A reply is [noise, json, places]: log lines before the    *)
(* JSON ("bracketed" ones hold a "[" or "{", where the recovery starts to  *)
(* cut), whether JSON follows, and the surface lists at the four places    *)
(* the envelope may keep one.  A surface is [type, id, surfaceId].         *)

parseJsonOutput(reply) == reply.json /\ reply.noise # "bracketed"

extractSurfaces(reply) ==
  LET found == SelectSeq(reply.places, LAMBDA p : p # None)
  IN  IF found = <<>> THEN <<>> ELSE Head(found)

toPaneRow(surface) == IF surface.id # None THEN surface.id ELSE surface.surfaceId

cmuxRows(reply) ==
  IF ~parseJsonOutput(reply) THEN {}
  ELSE {toPaneRow(s) : s \in {x \in ToSet(extractSurfaces(reply)) :
                                x.type = "terminal" /\ toPaneRow(x) # None}}
----------------------------------------------------------------------------
(* Adapter calls.  A task is one adapter call of an operation on one       *)
(* backend: at the key scan, at the key's fingerprint, at its command, or  *)
(* done with out.                                                          *)

\* What sendInput types, command by command: every line that is not empty, and
\* C-m between lines; cmux gets the whole text in one command.
SendKeys(b, text) ==
  IF b = "cmux" THEN <<text>>
  ELSE FlattenSeq([i \in DOMAIN text |->
         (IF text[i] = "" THEN <<>> ELSE << <<text[i]>> >>)
           \o (IF i < Len(text) THEN << <<"C-m">> >> ELSE <<>>)])

\* The adapter compares with the padding it was given: ssh-keygen prints none.
normalizeFingerprint(f) == IF f.padded THEN None ELSE f.key

\* runTmux: the pinned key is checked by the first call that needs it.
FirstStep(b) ==
  IF b = "tmux" /\ Over = "ssh" /\ Config.fingerprint # None /\ ~verified THEN "scan" ELSE "run"

Task(b, cmd, raw, todo) ==
  [at |-> FirstStep(b), cmd |-> cmd, raw |-> raw, todo |-> todo, key |-> None,
   ok |-> FALSE, rows |-> {}]

\* ssh (external) refuses a key that is not in its known_hosts when strict.
buildSshArgs == [strict |-> Config.strict, knownHosts |-> Config.knownHosts]
SshAccepts == buildSshArgs.strict => hostKey \in env.files.known

Reaches(b) == status[b] # "down" /\ (b = "tmux" /\ Over = "ssh" => SshAccepts)

\* ok: the answer of an availability check, success of any other call.
Ended(o, b, ok, rows) ==
  [tasks EXCEPT ![o][b] = [@ EXCEPT !.at = "done", !.ok = ok, !.rows = rows]]

\* A failed call: isAvailable answers FALSE, the others reject.
Failed(o, b) == Ended(o, b, FALSE, {})

Running == phase \in {"probe", "recheck", "listening", "closing"}

\* ssh-keyscan: fails, prints nothing, or prints the key the host has now.
KeyScan(o, b) ==
  /\ Running /\ tasks[o][b].at = "scan"
  /\ \/ tasks' = Failed(o, b) /\ UNCHANGED scanned
     \/ /\ tasks' = [tasks EXCEPT ![o][b] = [@ EXCEPT !.at = "keygen", !.key = hostKey]]
        /\ scanned' = scanned \cup {hostKey}
  /\ UNCHANGED <<env, phase, exitCode, status, hostKey, changes, verified, op, result, typed>>

\* Mutant: any fingerprint will do.
AnyKey(key) == TRUE

verifyExpectedHostFingerprint(key) == key = normalizeFingerprint(Config.fingerprint)

\* ssh-keygen: fails or prints no fingerprint, or the key's, which is compared.
KeyGen(o, b) ==
  /\ Running /\ tasks[o][b].at = "keygen"
  /\ \/ tasks' = Failed(o, b) /\ UNCHANGED verified
     \/ /\ verifyExpectedHostFingerprint(tasks[o][b].key)
        /\ verified' = TRUE
        /\ tasks' = [tasks EXCEPT ![o][b] = [@ EXCEPT !.at = "run"]]
  /\ UNCHANGED <<env, phase, exitCode, status, hostKey, changes, op, result, typed, scanned>>

isNoServerError(b) == status[b] = "idle"

\* The panes listPanes returns rows for; tmux without a server has none.  The
\* adapters drop no row, so the array names a pane of a linked window twice: which
\* panes it names is kept, and not how often or in which order.
Rows(b, reply) ==
  IF b = "cmux" THEN cmuxRows(reply) ELSE IF isNoServerError(b) THEN {} ELSE RawPanes[b]

RunQuery(o, b) ==
  /\ Running /\ tasks[o][b].at = "run" /\ tasks[o][b].cmd # "send"
  /\ \/ tasks' = Failed(o, b)
     \/ /\ Reaches(b)
        /\ CASE tasks[o][b].cmd = "-V" ->
                  \E reply \in CmuxReply :
                    tasks' = Ended(o, b, b = "cmux" => parseJsonOutput(reply), {})
             [] tasks[o][b].cmd = "list" ->
                  \E reply \in CmuxReply : tasks' = Ended(o, b, TRUE, Rows(b, reply))
             [] tasks[o][b].cmd = "capture" ->
                  /\ status[b] = "up" /\ tasks[o][b].raw \in RawPanes[b]
                  /\ tasks' = Ended(o, b, TRUE, {})
  /\ UNCHANGED <<env, phase, exitCode, status, hostKey, changes, verified, op, result, typed,
                 scanned>>

\* What follows a key that was typed: the next one, or the end.
NextKey(o, b) ==
  IF Len(tasks[o][b].todo) = 1 THEN Ended(o, b, TRUE, {})
  ELSE [tasks EXCEPT ![o][b] = [@ EXCEPT !.todo = Tail(tasks[o][b].todo), !.at = FirstStep(b)]]

\* Mutant: a key that fails does not end the loop.
NextKeyAnyway(o, b) == NextKey(o, b)

\* A key that fails ends the loop with the error.
KeyFails(o, b) == Failed(o, b)

\* One send-keys process: typed or not, and reported or not.
RunSend(o, b) ==
  LET t == tasks[o][b] IN
  /\ Running /\ t.at = "run" /\ t.cmd = "send"
  /\ \/ tasks' = KeyFails(o, b) /\ UNCHANGED typed
     \/ /\ Reaches(b) /\ status[b] = "up" /\ t.raw \in RawPanes[b]
        /\ typed' = [typed EXCEPT ![o] =
                       Append(@, [backend |-> b, raw |-> t.raw, key |-> Head(t.todo)])]
        /\ tasks' \in {NextKey(o, b), KeyFails(o, b)}
  /\ UNCHANGED <<env, phase, exitCode, status, hostKey, changes, verified, op, result, scanned>>
----------------------------------------------------------------------------
(* Operations of the listening bridge                                      *)

Listening == phase = "listening"

\* createRuntimeAdapter: tmux alone is used without a multiplexer.
Direct == isTmuxOnly(Backends)

StartTasks(cmd) ==
  [b \in Backend |-> IF b \in ToSet(Backends) THEN Task(b, cmd, None, <<>>) ELSE NoTask]

\* The multiplexer's listPanes checks every backend first.
ListPanes(o) ==
  /\ Listening /\ op[o] = NoOp
  /\ op' = [op EXCEPT ![o] = [kind |-> IF Direct THEN "list" ELSE "check"]]
  /\ tasks' = [tasks EXCEPT ![o] = StartTasks(IF Direct THEN "list" ELSE "-V")]
  /\ UNCHANGED <<env, phase, exitCode, status, hostKey, changes, verified, result, typed, scanned>>

Checked(o) == \A b \in ToSet(Backends) : tasks[o][b].at = "done"

\* ... and lists the ones that answered.
ListReachable(o) ==
  /\ phase \in {"listening", "closing"} /\ op[o] = [kind |-> "check"] /\ Checked(o)
  /\ op' = [op EXCEPT ![o] = [kind |-> "list"]]
  /\ tasks' = [tasks EXCEPT ![o] =
       [b \in Backend |-> IF b \in ToSet(Backends) /\ tasks[o][b].ok
                          THEN Task(b, "list", None, <<>>) ELSE NoTask]]
  /\ UNCHANGED <<env, phase, exitCode, status, hostKey, changes, verified, result, typed, scanned>>

\* Mutant: the listing waits for the backends that were not listed too.
AwaitAll(o) == \A b \in ToSet(Backends) : tasks[o][b].at = "done"

\* Promise.all: every listing that was started has ended.
AllListed(o) == \A b \in Backend : tasks[o][b].at \in {"none", "done"}

Outcome(ok, rows) == [ok |-> ok, rows |-> rows]

\* The first listing that rejects rejects the whole.
SettleList(o) ==
  LET bad == \E b \in Backend : tasks[o][b].at = "done" /\ ~tasks[o][b].ok IN
  /\ phase \in {"listening", "closing"} /\ op[o] = [kind |-> "list"] /\ result[o] = None
  /\ bad \/ AllListed(o)
  /\ result' = [result EXCEPT ![o] =
       IF bad THEN Outcome(FALSE, {})
       ELSE Outcome(TRUE, UNION {{RowOf(b, raw) : raw \in tasks[o][b].rows} :
                                   b \in {x \in Backend : tasks[o][x].at = "done"}})]
  /\ tasks' = [tasks EXCEPT ![o] = NoTasks]
  /\ UNCHANGED <<env, phase, exitCode, status, hostKey, changes, verified, op, typed, scanned>>

\* capturePane and sendInput: routed, or rejected at once.
Routed(o, kind, id, text) ==
  LET target == IF Direct THEN [backend |-> "tmux", raw |-> id] ELSE resolvePaneTarget(id)
      todo == IF target = Reject \/ kind = "capture" THEN <<>> ELSE SendKeys(target.backend, text)
  IN
  /\ Listening /\ op[o] = NoOp
  /\ op' = [op EXCEPT ![o] = [kind |-> kind, id |-> id, text |-> text]]
  /\ IF target = Reject THEN result' = [result EXCEPT ![o] = Outcome(FALSE, {})] /\ UNCHANGED tasks
     ELSE IF kind = "send" /\ todo = <<>>
          THEN result' = [result EXCEPT ![o] = Outcome(TRUE, {})] /\ UNCHANGED tasks
     ELSE /\ tasks' = [tasks EXCEPT ![o][target.backend] =
                         Task(target.backend, kind, target.raw, todo)]
          /\ UNCHANGED result
  /\ UNCHANGED <<env, phase, exitCode, status, hostKey, changes, verified, typed, scanned>>

CapturePane(o) == \E id \in PaneId : Routed(o, "capture", id, <<>>)
SendInput(o) == \E id \in PaneId, text \in Text : Routed(o, "send", id, text)

Settle(o) ==
  \E b \in Backend :
    /\ phase \in {"listening", "closing"}
    /\ op[o].kind \in {"capture", "send"} /\ tasks[o][b].at = "done"
    /\ result' = [result EXCEPT ![o] = Outcome(tasks[o][b].ok, {})]
    /\ tasks' = [tasks EXCEPT ![o] = NoTasks]
    /\ UNCHANGED <<env, phase, exitCode, status, hostKey, changes, verified, op, typed, scanned>>
----------------------------------------------------------------------------
(* main and shutdown                                                       *)

Exit(code) ==
  /\ phase' = "exited" /\ exitCode' = code
  /\ tasks' = [o \in DOMAIN tasks |-> NoTasks]

ProbeBackends ==
  /\ phase' = "probe"
  /\ tasks' = [tasks EXCEPT ![Boot] = StartTasks("-V")]
  /\ op' = [op EXCEPT ![Boot] = [kind |-> "check"]]
  /\ UNCHANGED exitCode

\* loadConfig and validateStartupConfig
Load ==
  /\ phase = "load"
  /\ IF LoadThrows(Config) \/ ~validateStartupConfig(Config, env.files)
     THEN Exit(1) /\ UNCHANGED op
     ELSE IF Over = "ssh" THEN phase' = "preflight" /\ UNCHANGED <<exitCode, tasks, op>>
     ELSE ProbeBackends
  /\ UNCHANGED <<env, status, hostKey, changes, verified, result, typed, scanned>>

preflightSshTransport ==
  /\ phase = "preflight"
  /\ IF checkSshClientAvailability(env.files.ssh) = "available"
     THEN ProbeBackends ELSE Exit(1) /\ UNCHANGED op
  /\ UNCHANGED <<env, status, hostKey, changes, verified, result, typed, scanned>>

\* checkRuntimeBackendAvailability
Signals == [b \in ToSet(Backends) |-> tasks[Boot][b].ok]

logRuntimeBackendAvailability == Cardinality({b \in DOMAIN Signals : Signals[b]})

\* Mutant: the profile is logged and not asserted.
ListensAnyway == logRuntimeBackendAvailability > 0

\* A multiplexer wants distinct ids without the delimiter.
validateBackends(bs) == Len(bs) = Cardinality(ToSet(bs)) /\ Delimiter \notin ToSet(bs)

StartsUp ==
  /\ logRuntimeBackendAvailability > 0 \/ isTmuxOnly(Backends)
  /\ Direct \/ validateBackends(Backends)
  /\ assertStartupProfilePass(evaluateStartupProfile(Config, env.files, env.node, Signals))

\* The count of available backends, the startup profile, then the server,
\* which asks the adapter once more.
Start ==
  /\ phase = "probe" /\ Checked(Boot)
  /\ IF StartsUp
     THEN /\ phase' = "recheck"
          /\ tasks' = [tasks EXCEPT ![Boot] = StartTasks("-V")]
          /\ UNCHANGED exitCode
     ELSE Exit(1)
  /\ UNCHANGED <<env, status, hostKey, changes, verified, op, result, typed, scanned>>

\* startBridgeServer: some backend must answer, and the port must be free.
startBridgeServer ==
  /\ phase = "recheck" /\ Checked(Boot)
  /\ \/ /\ \E b \in DOMAIN Signals : Signals[b]
        /\ phase' = "listening"
        /\ tasks' = [tasks EXCEPT ![Boot] = NoTasks]
        /\ UNCHANGED exitCode
     \/ Exit(1)
  /\ UNCHANGED <<env, status, hostKey, changes, verified, op, result, typed, scanned>>

\* SIGINT or SIGTERM: close() and exit(0).  A second signal closes the HTTP
\* server again, which rejects: nobody handles it and the process exits with 1.
Signal ==
  /\ \/ Listening /\ phase' = "closing" /\ UNCHANGED <<exitCode, tasks>>
     \/ phase = "closing" /\ Exit(1)
  /\ UNCHANGED <<env, status, hostKey, changes, verified, op, result, typed, scanned>>

Closed ==
  /\ phase = "closing" /\ Exit(0)
  /\ UNCHANGED <<env, status, hostKey, changes, verified, op, result, typed, scanned>>

\* The world: a backend comes, goes or loses its server; the host is rekeyed.
Change ==
  /\ Running /\ changes < MaxChanges
  /\ changes' = changes + 1
  /\ \/ \E b \in ToSet(Backends) :
          status' \in {[status EXCEPT ![b] = s] : s \in {"up", "idle", "down"} \ {status[b]}}
        /\ UNCHANGED hostKey
     \/ Over = "ssh" /\ hostKey' = "k2" /\ hostKey # "k2" /\ UNCHANGED status
  /\ UNCHANGED <<env, phase, exitCode, verified, tasks, op, result, typed, scanned>>

Stopped == phase = "exited" /\ UNCHANGED vars

Progress ==
  \/ Load \/ preflightSshTransport \/ Start \/ startBridgeServer \/ Closed
  \/ \E o \in DOMAIN tasks, b \in Backend :
       KeyScan(o, b) \/ KeyGen(o, b) \/ RunQuery(o, b) \/ RunSend(o, b)
  \/ \E o \in Ops : ListReachable(o) \/ SettleList(o) \/ Settle(o)

Next ==
  \/ Progress \/ Signal \/ Change \/ Stopped
  \/ \E o \in Ops : ListPanes(o) \/ CapturePane(o) \/ SendInput(o)

\* Every child process ends: execFile and runCommandWithInput have timeouts.
Spec == Init /\ [][Next]_vars /\ WF_vars(Progress)
----------------------------------------------------------------------------
(* Properties                                                              *)

\* Every pane has an id: both adapters drop a row without one.
RawId == Seq(Token) \ {<<>>}

Row == [id : Seq(Token), backend : Backend, raw : RawId]

TypedKey == Seq(Line \cup {"C-m"})

TaskRecord ==
  [at : {"scan", "keygen", "run", "done"}, cmd : {"-V", "list", "capture", "send"},
   raw : Seq(Token) \cup {None}, todo : Seq(TypedKey), key : {None, "k1", "k2"}, ok : BOOLEAN,
   rows : SUBSET RawId]

OpRecord ==
  {[kind |-> k] : k \in {"none", "check", "list"}}
    \cup [kind : {"capture", "send"}, id : PaneId, text : Text \cup {<<>>}]

\* What the parameters are made of; None is no host key, and stat tells the
\* states of the audit paths apart.
ASSUME RuntimeAssumption ==
  /\ Boot \notin Ops
  /\ Backend \cup {Delimiter} \subseteq Token
  /\ PaneId \subseteq Seq(Token) /\ Text \subseteq Seq(Line)
  /\ RawPanes \in [Backend -> SUBSET RawId]
  /\ \A r \in CmuxReply : parseJsonOutput(r) \in BOOLEAN /\ cmuxRows(r) \subseteq RawId
  /\ None \notin {"k1", "k2"}
  /\ \A e \in Env :
       /\ e.backends \in {None, Blank} \/ e.backends \in Seq(ToSet(e.backends))
       /\ e.files.auditParent \in {"stat_error", "missing", "not_dir", "readonly", "writable"}
       /\ e.files.auditFile \in {"stat_error", "missing", "dir", "readonly", "writable"}

\* The values each variable ranges over.
TypeOK ==
  /\ env \in Env
  /\ phase \in {"load", "preflight", "probe", "recheck", "listening", "closing", "exited"}
  /\ exitCode \in {None, 0, 1}
  /\ status \in [Backend -> {"up", "idle", "down"}]
  /\ hostKey \in {"k1", "k2"} /\ scanned \subseteq {"k1", "k2"}
  /\ changes \in Nat /\ verified \in BOOLEAN
  /\ tasks \in [Ops \cup {Boot} -> [Backend -> TaskRecord \cup {NoTask}]]
  /\ op \in [Ops \cup {Boot} -> OpRecord]
  /\ result \in [Ops -> {None} \cup [ok : BOOLEAN, rows : SUBSET Row]]
  /\ typed \in [Ops -> Seq([backend : Backend, raw : Seq(Token), key : TypedKey])]

Pinned == ~LoadThrows(Config) /\ Over = "ssh" /\ Config.fingerprint # None

\* With a pinned fingerprint no tmux command runs, and the bridge does not
\* listen, unless a scan has shown that very key: neither a failed scan nor
\* another key, in any order of calls, lets the adapter through.
PinnedFirst ==
  Pinned /\ (phase \in {"listening", "closing"} \/
             \E o \in DOMAIN tasks : tasks[o]["tmux"].at = "run")
    => Config.fingerprint.key \in scanned

\* A bridge that listens can serve and is guarded: tmux, when configured,
\* answered the probe, some backend did in any case and again just before,
\* an audit file can be written, and a bind that other hosts reach has a token.
ListensOnlyIfFit ==
  /\ phase' = "listening" /\ phase # "listening" =>
       phase = "recheck" /\ \E b \in ToSet(Backends) : Signals[b]
  /\ phase = "probe" /\ phase' = "recheck" =>
    /\ \E b \in ToSet(Backends) : Signals[b]
    /\ "tmux" \in ToSet(Backends) => Signals["tmux"]
    /\ isLoopbackHost(Config.host) \/ Config.authToken \notin {None, Blank}
    /\ Config.auditLogPath # None =>
         env.files.auditParent = "writable" /\ env.files.auditFile \in {"missing", "writable"}
    /\ Over = "ssh" => Direct

\* Every start, and every second look at the backends, ends as ListensOnlyIfFit says.
Fit == [][ListensOnlyIfFit]_vars

KeysOf(s) == [i \in DOMAIN s |-> s[i].key]

\* An input is typed key by key in its order: whole when sendInput reports
\* success, a prefix of it when it fails or the bridge stops in between, and
\* never with a gap, whatever other input is typed at the same time.
TypedInOrder ==
  \A o \in Ops : op[o].kind = "send" /\ typed[o] # <<>> =>
    LET want == SendKeys(typed[o][1].backend, op[o].text)
    IN  /\ IsPrefix(KeysOf(typed[o]), want)
        /\ result[o] # None /\ result[o].ok => KeysOf(typed[o]) = want

\* Each id a listing gives to a client routes back to the backend and the raw id
\* it came from, so a capture or an input goes to the pane that was listed.
ListingRoutesBack ==
  \A o \in Ops : result[o] # None =>
    \A r \in result[o].rows :
      resolvePaneTarget(r.id) = [backend |-> r.backend, raw |-> r.raw]

\* Every operation that was started ends, or the process does: no listing
\* waits for a backend that was never asked.
OpsSettle ==
  \A o \in Ops : (op[o] # NoOp) ~> (result[o] # None \/ phase = "exited")
============================================================================
