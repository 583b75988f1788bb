---------------------------- MODULE RelayProcess ----------------------------
(***************************************************************************)
(* The relay proxy as a process (src/packages/commandrelay-relay-proxy):   *)
(* command line and environment (cli.ts), options and their validation,    *)
(* the operator endpoints and admission tests (index.ts,                   *)
(* request-guards.ts), the watch on the files the upstream TLS material    *)
(* came from, and the end of the process.  Its sessions are RelayProxy's.  *)
(*                                                                         *)
(* Text that nothing tests (passphrase, servername, subprotocols) is left  *)
(* out.  A raw value is None (unset), Blank (white space), Junk or what    *)
(* the parsers make of it; a comma list is a set, a path a sequence of     *)
(* names and slashes, a TLS version its place in the supported order.      *)
(***************************************************************************)
EXTENDS Integers, Sequences, FiniteSets, FiniteSetsExt, SequencesExt

CONSTANTS
  None, Empty, Blank, Junk,  \* undefined, "", white space, text no parser accepts
  File,                      \* files of TLS material
  Argv,                      \* command lines: sequences of [flag, value]
  Env,                       \* environments: Setting -> raw value
  Request,                   \* [upgrade, method, path, origin, bearer]
  MaxRotations               \* bound: how often files are replaced

ASSUME ProcessAssumption ==
  /\ Cardinality({None, Empty, Blank, Junk}) = 4
  /\ MaxRotations \in Nat

IntegerSetting == {"listenPort", "maxConnections", "idleTimeoutMs", "shutdownTimeoutMs"}
PathSetting == {"relayPath", "healthPath"}
FileSetting == {"caFile", "certFile", "keyFile", "pfxFile"}
TextSetting == {"requiredToken", "allowedOrigins", "minVersion", "maxVersion"} \union FileSetting
Setting == IntegerSetting \union PathSetting \union TextSetting \union
           {"listenHost", "upstreamUrl", "rejectUnauthorized", "watchIntervalMs", "restartOnChange"}

VARIABLES
  argv, env,   \* what the process was started with
  disk,        \* external: file -> version of its contents
  unreadable,  \* external: files that cannot be read
  phase,       \* start, configured, binding, stuck, open, closing, exited
  error,       \* why the start failed, None when it did not
  options,     \* setting -> value the relay runs with
  loaded,      \* file -> version the TLS options were read from
  watch        \* tlsWatchState: status, lastSnapshot and baseline (file -> version)

processVars == <<argv, env, disk, unreadable, phase, error, options, loaded, watch>>

-----------------------------------------------------------------------------
(* Parsers *)

trim(raw) == IF raw \in {None, Blank} THEN Empty ELSE raw

\* [default, min, max] of the integer settings.
IntegerRange(s) == CASE s = "listenPort" -> <<8788, 1, 65535>>
              [] s = "maxConnections" -> <<128, 1, 10000>>
              [] s = "idleTimeoutMs" -> <<120000, 1000, 600000>>
              [] s = "shutdownTimeoutMs" -> <<10000, 1000, 60000>>

parseBoundedInteger(raw, range) ==
  IF raw \in Int /\ range[2] <= raw /\ raw <= range[3] THEN raw ELSE range[1]

parseNonNegativeInteger(raw, fallback) == IF raw \in Nat THEN raw ELSE fallback

normalizeWatchInterval(value) == IF value <= 0 THEN 0 ELSE Max({250, value})

\* Slashes around the path are dropped and one is put before it.
normalizePath(raw, fallback) ==
  LET names == {i \in 1..Len(raw) : raw[i] # "/"} IN
  IF raw \in {None, Empty, Blank} \/ raw = <<"/">> THEN fallback
  ELSE <<"/">> \o IF names = {} THEN << >> ELSE SubSeq(raw, Min(names), Max(names))

\* Junk where parseBoolean throws.
parseBoolean(raw, fallback) == IF trim(raw) = Empty THEN fallback ELSE raw

parseRelayProxyEnv(e) ==
  [s \in Setting |->
     CASE s \in IntegerSetting -> parseBoundedInteger(e[s], IntegerRange(s))
       [] s = "relayPath" -> normalizePath(e[s], <<"/", "ws">>)
       [] s = "healthPath" -> normalizePath(e[s], <<"/", "health">>)
       [] s = "listenHost" -> IF trim(e[s]) = Empty THEN "127.0.0.1" ELSE e[s]
       [] s = "upstreamUrl" -> IF e[s] = None THEN "ws:" ELSE trim(e[s])
       [] s = "rejectUnauthorized" -> IF e[s] = None THEN TRUE ELSE e[s]
       [] s = "watchIntervalMs" -> normalizeWatchInterval(parseNonNegativeInteger(e[s], 0))
       [] s = "restartOnChange" -> IF e[s] = None THEN FALSE ELSE trim(e[s])
       [] s \in TextSetting -> trim(e[s])]

\* One step of parseArgs.  Help ends the parsing, whatever follows; a flag
\* that is unknown or without a value, or a variable named by
\* --token-from-env that is unset or blank, throws.
parseArg(acc, arg) ==
  IF acc.end # None THEN acc
  ELSE CASE arg.flag = "help" -> [acc EXCEPT !.end = "help"]
         [] arg.flag \in Setting /\ arg.value # None ->
              [acc EXCEPT !.config[arg.flag] = arg.value]
         [] arg.flag = "tokenFromEnv" /\ trim(arg.value) # Empty ->
              [acc EXCEPT !.config["requiredToken"] = arg.value]
         [] OTHER -> [acc EXCEPT !.end = "throws"]

parseArgs(args) ==
  FoldLeft(parseArg, [config |-> [s \in Setting |-> Empty], end |-> None], args)

\* An integer on the command line is not held to the environment's range.
IntegerArgThrows(s, value) ==
  /\ value # Empty
  /\ ~(value \in Int /\ value >= IF s = "watchIntervalMs" THEN 0 ELSE 1)

\* What main hands to normalizeRelayOptions: the command line first.
merged(config, parsed) == [s \in Setting |-> IF config[s] # Empty THEN config[s] ELSE parsed[s]]

-----------------------------------------------------------------------------
(* TLS material *)

FilesOf(raw, s) == IF trim(raw) = Empty THEN {} ELSE IF s = "caFile" THEN raw ELSE {raw}

\* Mutant: the bundle with certificate and key in one file is forgotten.
CollectWithoutPfx(values) == UNION {FilesOf(values[s], s) : s \in FileSetting \ {"pfxFile"}}

\* The files whose change the watch will notice.
collectUpstreamTlsSourcePaths(values) == UNION {FilesOf(values[s], s) : s \in FileSetting}

SupportedTlsVersion == 1..3

\* The failures of normalizeUpstreamTls in the order of its tests.  A version
\* that is not set is "" and not undefined, and is tested as any other.
normalizeUpstreamTls(values, missing) ==
  LET has(s) == FilesOf(values[s], s) # {} IN
  << <<parseBoolean(values["rejectUnauthorized"], TRUE) = Junk, "boolean">>,
     <<UNION {FilesOf(values[s], s) : s \in FileSetting} \cap missing # {}, "read">>,
     <<has("certFile") # has("keyFile"), "cert_key">>,
     <<has("pfxFile") /\ has("certFile"), "pfx">>,
     <<values["minVersion"] \notin SupportedTlsVersion, "minVersion">>,
     <<values["maxVersion"] \notin SupportedTlsVersion, "maxVersion">>,
     <<\E min, max \in SupportedTlsVersion :
         values["minVersion"] = min /\ values["maxVersion"] = max /\ min > max, "order">> >>

\* Why main throws before it creates the relay: the first failing test.
StartError(args, e, missing) ==
  LET parse == parseArgs(args)
      values == merged(parse.config, parseRelayProxyEnv(e))
      failing == SelectSeq(
        << <<parse.end = "throws", "arguments">>,
           <<\E s \in IntegerSetting \union {"watchIntervalMs"} :
               IntegerArgThrows(s, parse.config[s]), "arguments">>,
           <<values["upstreamUrl"] \notin {"ws:", "wss:"}, "upstream_url">> >>
        \o normalizeUpstreamTls(values, missing)
        \o << <<parseBoolean(values["restartOnChange"], FALSE) = Junk, "boolean">> >>,
        LAMBDA test : test[1])
  IN IF failing = << >> THEN None ELSE failing[1][2]

\* normalizeRelayOptions, then normalizeRuntimeOptions in createRelayProxyServer.
normalizeRuntimeOptions(values) ==
  [s \in Setting |->
     CASE s = "listenHost" -> IF trim(values[s]) = Empty THEN "127.0.0.1" ELSE values[s]
       [] s = "relayPath" -> normalizePath(values[s], <<"/", "ws">>)
       [] s = "healthPath" -> normalizePath(values[s], <<"/", "health">>)
       [] s \in {"idleTimeoutMs", "shutdownTimeoutMs"} -> Max({1000, values[s]})
       [] s = "requiredToken" -> trim(values[s])
       [] s = "allowedOrigins" -> IF trim(values[s]) = Empty THEN {} ELSE values[s]
       [] s = "rejectUnauthorized" -> parseBoolean(values[s], TRUE)
       [] s = "restartOnChange" -> parseBoolean(values[s], FALSE)
       [] s = "watchIntervalMs" -> normalizeWatchInterval(values[s])
       [] OTHER -> values[s]]

-----------------------------------------------------------------------------
(* Requests: the status code a listening relay answers with *)

isTokenValidFromRequest(r) ==
  options["requiredToken"] = Empty \/ r.bearer = options["requiredToken"]

isOriginAllowed(r) == options["allowedOrigins"] = {} \/ r.origin \in options["allowedOrigins"]

\* Mutant: the status page is answered before the token is tested.
ServeHealthEarly(r) ==
  CASE r.method # "GET" -> 405
    [] r.path = <<"/", "status">> -> 200
    [] r.path # options["healthPath"] -> 404
    [] ~isTokenValidFromRequest(r) -> 401
    [] OTHER -> 200

\* The URLs it is asked for parse; `new URL` of another throws in the listener.
serveHealth(r) ==
  CASE r.method # "GET" -> 405
    [] r.path \notin {options["healthPath"], <<"/", "status">>} -> 404
    [] ~isTokenValidFromRequest(r) -> 401
    [] OTHER -> 200

\* onUpgrade up to its limit of connections, which RelayProxy has.
upgradeStatus(r) ==
  CASE r.method # "GET" -> 405
    [] r.path # options["relayPath"] -> 404
    [] ~isOriginAllowed(r) -> 403
    [] ~isTokenValidFromRequest(r) -> 401
    [] OTHER -> 101

-----------------------------------------------------------------------------
(* The process *)

Snapshot(paths) == [f \in paths |-> disk[f]]
NoFiles == [f \in {} |-> 0]

ProcessInit ==
  /\ argv \in Argv /\ env \in Env
  /\ disk = [f \in File |-> 0]
  /\ unreadable \in {{}, File}
  /\ phase = "start" /\ error = None
  /\ options = None /\ loaded = NoFiles
  /\ watch = [status |-> "disabled", lastSnapshot |-> NoFiles, baseline |-> NoFiles]

\* main up to createRelayProxyServer: the TLS files are read.
Configure ==
  LET parse == parseArgs(argv)
      values == merged(parse.config, parseRelayProxyEnv(env))
      why == StartError(argv, env, unreadable)
  IN
  /\ phase = "start"
  /\ \/ parse.end = "help" /\ phase' = "exited" /\ UNCHANGED <<error, options, loaded>>
     \/ /\ parse.end # "help" /\ why # None
        /\ phase' = "exited" /\ error' = why
        /\ UNCHANGED <<options, loaded>>
     \/ /\ parse.end # "help" /\ why = None
        /\ phase' = "configured"
        /\ options' = normalizeRuntimeOptions(values)
        /\ loaded' = Snapshot(UNION {FilesOf(values[s], s) : s \in FileSetting})
        /\ UNCHANGED error
  /\ UNCHANGED <<argv, env, disk, unreadable, watch>>

SourcePaths == collectUpstreamTlsSourcePaths(options)
Enabled == options["watchIntervalMs"] > 0 /\ SourcePaths # {}

\* createUpstreamTlsWatchState, on files that may have changed since they were
\* read, and the first refresh, which finds the same; then listen is called.
createRelayProxyServer ==
  /\ phase = "configured"
  /\ phase' = "binding"
  /\ watch' =
       IF ~Enabled
         THEN [watch EXCEPT !.status = IF options["watchIntervalMs"] > 0
                                         THEN "unsupported" ELSE "disabled"]
       ELSE IF SourcePaths \cap unreadable # {} THEN [watch EXCEPT !.status = "unavailable"]
       ELSE [status |-> "monitoring", lastSnapshot |-> Snapshot(SourcePaths),
             baseline |-> Snapshot(SourcePaths)]
  /\ UNCHANGED <<argv, env, disk, unreadable, error, options, loaded>>

\* The timer of the watch runs from createRelayProxyServer to close.
Watching == phase \in {"binding", "stuck", "open"} /\ Enabled

\* refreshTlsWatchState.
RefreshUnavailable ==
  /\ Watching /\ SourcePaths \cap unreadable # {}
  /\ watch' = [watch EXCEPT !.status = "unavailable"]
  /\ UNCHANGED <<argv, env, disk, unreadable, phase, error, options, loaded>>

\* computeChangedTlsMaterialPaths: also files the last snapshot lacks.
changedPaths ==
  {f \in SourcePaths : f \notin DOMAIN watch.lastSnapshot \/ watch.lastSnapshot[f] # disk[f]}

\* A quiet check keeps restart_required; it replaces any other status, the
\* "unavailable" that followed a restart_required too.
updateUpstreamTlsWatchState ==
  /\ Watching /\ SourcePaths \cap unreadable = {}
  /\ watch' =
       IF changedPaths # {}
         THEN [watch EXCEPT !.status = "restart_required", !.lastSnapshot = Snapshot(SourcePaths)]
       ELSE IF watch.status = "restart_required" THEN watch
       ELSE [watch EXCEPT !.status = "monitoring", !.baseline = Snapshot(SourcePaths)]
  /\ UNCHANGED <<argv, env, disk, unreadable, phase, error, options, loaded>>

\* The listener is up and main installs its signal handlers.
Listening ==
  /\ phase = "binding" /\ options["listenPort"] <= 65535
  /\ phase' = "open"
  /\ UNCHANGED <<argv, env, disk, unreadable, error, options, loaded, watch>>

\* The port is taken or is none: main sets the exit code, and the process ends
\* when nothing is left to do, which the timer of the watch prevents.
ListenFails ==
  /\ phase = "binding"
  /\ phase' = IF Enabled THEN "stuck" ELSE "exited"
  /\ error' = "listen"
  /\ UNCHANGED <<argv, env, disk, unreadable, options, loaded, watch>>

\* A signal: before the handlers are installed it ends the process; a second
\* one finds close() done and exits at once.
Signal ==
  /\ phase \in {"binding", "stuck", "open", "closing"}
  /\ phase' = IF phase = "open" THEN "closing" ELSE "exited"
  /\ UNCHANGED <<argv, env, disk, unreadable, error, options, loaded, watch>>

\* close() ends when the HTTP server has closed its connections ...
Drained ==
  /\ phase = "closing" /\ phase' = "exited"
  /\ UNCHANGED <<argv, env, disk, unreadable, error, options, loaded, watch>>

\* ... or after shutdownTimeoutMs.
ShutdownTimeout ==
  /\ phase = "closing" /\ phase' = "exited"
  /\ UNCHANGED <<argv, env, disk, unreadable, error, options, loaded, watch>>

\* External: another process replaces a file, or makes the files (un)readable.
Rotate(f) ==
  /\ phase \notin {"start", "closing", "exited"}
  /\ MapThenSumSet(LAMBDA g : disk[g], File) < MaxRotations
  /\ disk' = [disk EXCEPT ![f] = @ + 1]
  /\ UNCHANGED <<argv, env, unreadable, phase, error, options, loaded, watch>>

Access ==
  /\ phase \notin {"start", "closing", "exited"} /\ loaded # NoFiles
  /\ unreadable' = IF unreadable = {} THEN File ELSE {}
  /\ UNCHANGED <<argv, env, disk, phase, error, options, loaded, watch>>

ProcessNext ==
  \/ Configure \/ createRelayProxyServer \/ RefreshUnavailable \/ updateUpstreamTlsWatchState
  \/ Listening \/ ListenFails \/ Signal \/ Drained \/ ShutdownTimeout
  \/ \E f \in DOMAIN loaded : Rotate(f)
  \/ Access

\* The watch's interval timer keeps firing.
ProcessFairness == WF_processVars(updateUpstreamTlsWatchState)

ProcessSpec == ProcessInit /\ [][ProcessNext]_processVars /\ ProcessFairness

-----------------------------------------------------------------------------
(* Properties *)

\* The token the operator asked for: the last one on the command line, else
\* the environment's.
AskedToken ==
  LET config == parseArgs(argv).config IN
  IF config["requiredToken"] # Empty THEN config["requiredToken"] ELSE env["requiredToken"]

\* The relay's README, security note 3: a token given on the command line or in
\* the environment is asked of upgrades and of both operator pages, by
\* onUpgrade and serveHealth, whatever else is configured.  A blank token counts
\* as none, also on the command line, where it hides the environment's.
TokenHonoured ==
  phase = "open" /\ trim(AskedToken) # Empty =>
    \A r \in Request :
      (IF r.upgrade THEN upgradeStatus(r) ELSE serveHealth(r)) \in {101, 200}
        => r.bearer = AskedToken

\* With a watch interval, a replaced file that the relay took TLS material
\* from is reported as restart_required by a later check of the watch, unless
\* the files cannot be read, or the relay ends.
RotationReported ==
  /\ phase = "open" /\ options["watchIntervalMs"] > 0
  /\ \E f \in DOMAIN loaded : f \in DOMAIN watch.lastSnapshot => watch.lastSnapshot[f] # disk[f]
  ~> watch.status = "restart_required" \/ unreadable # {} \/ phase # "open"

\* docs/proxy/external-app-consumption.md:81: the TLS versions are optional, so
\* a relay without them is not refused for them.
VersionsOptional ==
  error \in {"minVersion", "maxVersion"} =>
    \E s \in {"minVersion", "maxVersion"} :
      merged(parseArgs(argv).config, parseRelayProxyEnv(env))[s]
        \notin SupportedTlsVersion \union {Empty}

=============================================================================
