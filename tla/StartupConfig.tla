-------------------------- MODULE StartupConfig --------------------------
(***************************************************************************)
(* What the bridge makes of its environment before it opens a socket:      *)
(* loadConfig and validateStartupConfig (src/config.ts), the SSH target    *)
(* grammar (src/ssh/ssh-target.ts), the ssh client preflight               *)
(* (src/ssh/ssh-preflight.ts) and the startup profile                      *)
(* (src/startup/startup-profile.ts).  A raw environment value is None      *)
(* (unset), Blank (only white space) or what the parsers tell apart in it. *)
(***************************************************************************)
EXTENDS Integers, Sequences, FiniteSets, SequencesExt
CONSTANTS None,    \* undefined or null
          Blank,   \* a value of white space only
          Reject   \* the parser throws
ASSUME SentinelsDiffer == Cardinality({None, Blank, Reject}) = 3
----------------------------------------------------------------------------
(* Parsers.  A raw integer is [num, clean]: the integer parseInt reads at  *)
(* its start, None when there is none, and whether nothing else follows.   *)

InBounds(n, min, max) == min <= n /\ n <= max

\* The lenient parser reads "12abc" as 12 and answers junk with the default.
parseIntEnv(raw, fallback, min, max) ==
  IF raw \in {None, Blank} \/ raw.num = None \/ ~InBounds(raw.num, min, max)
  THEN fallback ELSE raw.num

parseStrictIntEnv(raw, fallback, min, max) ==
  IF raw \in {None, Blank} THEN fallback
  ELSE IF ~raw.clean \/ ~InBounds(raw.num, min, max) THEN Reject ELSE raw.num

\* Blank is not falsy: it is trimmed to "" and matches no keyword.
parseBooleanEnv(raw, fallback) ==
  IF raw = None THEN fallback ELSE IF raw \in BOOLEAN THEN raw ELSE Reject

parseBooleanEnvWithAlias(primary, alias, fallback) ==
  parseBooleanEnv(IF primary # None THEN primary ELSE alias, fallback)

parseOptionalStringEnv(raw) == IF raw = Blank THEN None ELSE raw

parseStringEnv(raw, fallback) == IF raw \in {None, Blank} THEN fallback ELSE raw

parseEnumEnv(raw, fallback, allowed) ==
  IF raw \in {None, Blank} THEN fallback ELSE IF raw \in allowed THEN raw ELSE Reject

\* A fingerprint is [key, prefix, padded]: the pattern wants the prefix in
\* capitals and allows the "=" that ssh-keygen never prints.
parseOptionalSshFingerprintSha256Env(raw) ==
  IF raw \in {None, Blank} THEN None ELSE IF raw.prefix = "SHA256" THEN raw ELSE Reject

\* A profile name is [len, head, plain]: a letter or digit first, and only
\* letters, digits, ".", "_" and "-".
isValidSshProfileName(p) == p # Blank /\ p.len \in 1 .. 128 /\ p.head /\ p.plain

parseSshProfileNameEnv(raw, fallback) ==
  IF raw = None THEN fallback ELSE IF isValidSshProfileName(raw) THEN raw ELSE Reject

\* Order kept, duplicates dropped at their later places.
Deduped(s) ==
  LET deduped[i \in 0 .. Len(s)] ==
        IF i = 0 THEN <<>>
        ELSE IF s[i] \in ToSet(deduped[i - 1]) THEN deduped[i - 1]
        ELSE Append(deduped[i - 1], s[i])
  IN  deduped[Len(s)]

SupportedRuntimeBackends == {"tmux", "cmux"}

\* The comma-separated list, blank entries already filtered out.
parseRuntimeBackendsEnv(raw) ==
  IF raw \in {None, Blank, <<>>} THEN <<"tmux">>
  ELSE IF ToSet(raw) \subseteq SupportedRuntimeBackends THEN Deduped(raw) ELSE Reject
----------------------------------------------------------------------------
(* An SSH target is [space, parts]: white space anywhere, and its parts    *)
(* between the @ signs.  A host is [open, close, colon, ip, quad, labels]; *)
(* a label is [len, plain, dash] (only letters, digits and "-"; a dash at  *)
(* an end).                                                                *)

isValidHostname(h) ==
  /\ FoldLeft(LAMBDA n, l : n + l.len + 1, 0, h.labels) \in 2 .. 254
  /\ \A i \in DOMAIN h.labels :
       h.labels[i].len \in 1 .. 63 /\ h.labels[i].plain /\ ~h.labels[i].dash

isValidSshHost(h) ==
  \/ h.open /\ h.close /\ h.ip = 6
  \/ ~h.open /\ ~h.close /\ ~h.colon /\ (h.ip = 4 \/ (~h.quad /\ isValidHostname(h)))

parseSshTarget(t) ==
  /\ ~t.space
  /\ Len(t.parts) \in 1 .. 2
  /\ Len(t.parts) = 2 => t.parts[1].len > 0 /\ t.parts[1].plain
  /\ isValidSshHost(Last(t.parts))

parseOptionalSshTargetEnv(raw) ==
  IF raw \in {None, Blank} THEN None ELSE IF parseSshTarget(raw) THEN raw ELSE Reject
----------------------------------------------------------------------------
\* The bounded settings: default, least and greatest value.
Bounds ==
  [port |-> <<8787, 1, 65535>>, pollIntervalMs |-> <<350, 100, 5000>>,
   replayLines |-> <<200, 20, 5000>>, maxHistoryEvents |-> <<300, 50, 5000>>,
   maxInputBytes |-> <<4096, 16, 65536>>, maxAttachedPanes |-> <<8, 1, 64>>,
   maxMessagesPerMinute |-> <<240, 30, 5000>>, maxInputsPerMinute |-> <<60, 5, 2000>>,
   inputLaneLeaseMs |-> <<30000, 1000, 300000>>]

\* env.ints leaves out the settings the environment does not set.
boundedSettings(ints) ==
  [v \in DOMAIN Bounds |->
     parseIntEnv(IF v \in DOMAIN ints THEN ints[v] ELSE None,
                 Bounds[v][1], Bounds[v][2], Bounds[v][3])]

loadConfig(env) ==
  [runtimeBackends |-> parseRuntimeBackendsEnv(env.backends),
   host |-> IF env.host = None THEN "127.0.0.1" ELSE env.host,
   transportMode |-> parseEnumEnv(env.transport, "ws", {"ws", "ssh"}),
   sshProfileName |-> parseSshProfileNameEnv(env.profile, "primary"),
   sshTarget |-> parseOptionalSshTargetEnv(env.target),
   sshPort |-> parseStrictIntEnv(env.sshPort, 22, 1, 65535),
   sshCommand |-> parseStringEnv(env.sshCommand, "ssh"),
   sshConnectTimeoutSeconds |-> parseStrictIntEnv(env.sshTimeout, 8, 1, 60),
   strict |-> parseBooleanEnv(env.strict, TRUE),
   knownHosts |-> parseOptionalStringEnv(env.knownHosts),
   fingerprint |-> parseOptionalSshFingerprintSha256Env(env.fingerprint),
   strictProtocolParsing |-> parseBooleanEnvWithAlias(env.strictV1, env.strictAlias, TRUE),
   appStaticEnabled |-> parseBooleanEnv(env.appStatic, TRUE),
   globalInputDisabled |-> parseBooleanEnv(env.killSwitch, FALSE),
   allowInputOwnershipOverride |-> parseBooleanEnv(env.ownershipOverride, TRUE),
   authToken |-> parseOptionalStringEnv(env.token),
   auditLogPath |-> parseOptionalStringEnv(env.auditLog),
   ints |-> boundedSettings(env.ints)]

\* loadConfig throws when one of its parsers does.
LoadThrows(c) == \E f \in DOMAIN c : c[f] = Reject

isLoopbackHost(host) == host \in {"127.0.0.1", "::1", "localhost"}

isTmuxOnly(backends) == backends = <<"tmux">>

\* files: the states of the paths the configuration names.
validateStartupConfig(c, files) ==
  /\ isLoopbackHost(c.host) \/ c.authToken # None
  /\ c.transportMode = "ssh" =>
       /\ c.sshTarget # None
       /\ isTmuxOnly(c.runtimeBackends)
       /\ c.knownHosts # None => files.knownHosts = "readable"
  /\ c.strict \/ c.fingerprint = None
----------------------------------------------------------------------------
(* The preflight.  A run of `ssh -V` is [end, out, err]: how it ended and  *)
(* what the version patterns make of its stdout and of its stderr.         *)

extractSshVersion(text) == text \in {"OpenSSH", "dropbear", "ssh version", "SSH-2.0"}

\* The error of a run that failed carries both streams.
readErrorText(run) == {run.out, run.err}

Version(texts) == \E t \in texts : extractSshVersion(t)

\* runCommand returns stdout alone: OpenSSH's version, on stderr, is read by
\* a second run of the same command.
readVersionFromExecFile(run) == Version({run.out, run.err})

classifyFailureReason(run) ==
  CASE run.end = "missing" -> "ssh_command_not_found"
    [] run.end = "timeout" -> "ssh_version_check_timeout"
    [] OTHER -> "ssh_version_check_failed"

checkSshClientAvailability(run) ==
  IF run.end = "ok"
  THEN IF extractSshVersion(run.out) \/ readVersionFromExecFile(run) THEN "available" ELSE "ssh_version_check_failed"
  ELSE IF Version(readErrorText(run)) THEN "available" ELSE classifyFailureReason(run)
----------------------------------------------------------------------------
(* The startup profile: each check passes, fails or is skipped; a stat     *)
(* that fails for any reason but ENOENT throws.                            *)

evaluateNodeRuntimeVersionPolicy(major) ==
  IF major = None \/ major < 22 THEN "fail" ELSE "pass"

\* signals: the availability rows of the startup probe.
evaluateTmuxBackendSignalPolicy(backends, signals) ==
  IF "tmux" \notin ToSet(backends) THEN "skip"
  ELSE IF "tmux" \in DOMAIN signals /\ signals["tmux"] THEN "pass" ELSE "fail"

evaluateAppStaticDirPolicy(enabled, dir) ==
  CASE ~enabled -> "skip" [] dir = "stat_error" -> "throw"
    [] dir = "readable_dir" -> "pass" [] OTHER -> "fail"

\* parent: the audit file's directory; file: the audit file itself.
evaluateAuditLogPathPolicy(path, parent, file) ==
  CASE path = None -> "skip"
    [] parent = "stat_error" -> "throw"
    [] parent \in {"missing", "not_dir"} -> "fail"
    [] file = "stat_error" -> "throw"
    [] file = "dir" \/ parent = "readonly" \/ file = "readonly" -> "fail"
    [] OTHER -> "pass"

evaluateStartupProfile(c, files, node, signals) ==
  [node |-> evaluateNodeRuntimeVersionPolicy(node),
   tmux |-> evaluateTmuxBackendSignalPolicy(c.runtimeBackends, signals),
   app |-> evaluateAppStaticDirPolicy(c.appStaticEnabled, files.appDir),
   audit |-> evaluateAuditLogPathPolicy(c.auditLogPath, files.auditParent, files.auditFile)]

assertStartupProfilePass(report) ==
  \A check \in DOMAIN report : report[check] \in {"pass", "skip"}
============================================================================
