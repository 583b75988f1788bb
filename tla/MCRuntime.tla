----------------------------- MODULE MCRuntime -----------------------------
(***************************************************************************)
(* Instance of BridgeRuntime: a default environment, and those that differ *)
(* from it in one or two settings or files.                                *)
(***************************************************************************)
EXTENDS BridgeRuntime

Label(len) == [len |-> len, plain |-> TRUE, dash |-> FALSE]
Host(labels) ==
  [open |-> FALSE, close |-> FALSE, colon |-> FALSE, ip |-> 0, quad |-> FALSE, labels |-> labels]
Target == [space |-> FALSE, parts |-> <<Label(3), Host(<<Label(3), Label(4)>>)>>]
Key(key, padded) == [key |-> key, prefix |-> "SHA256", padded |-> padded]
Num(n, clean) == [num |-> n, clean |-> clean]

LocalEnv ==
  [backends |-> None, host |-> None, transport |-> None, profile |-> None, target |-> None,
   sshPort |-> None, sshCommand |-> None, sshTimeout |-> None, strict |-> None,
   knownHosts |-> None, fingerprint |-> None, strictV1 |-> None, strictAlias |-> None,
   appStatic |-> None, killSwitch |-> None, ownershipOverride |-> None, token |-> None,
   auditLog |-> None, ints |-> <<>>, node |-> 22, down |-> {"cmux"},
   files |-> [knownHosts |-> "readable", known |-> {"k1"}, appDir |-> "readable_dir",
              auditParent |-> "writable", auditFile |-> "missing",
              ssh |-> [end |-> "ok", out |-> "", err |-> "OpenSSH"]]]

SshEnv ==
  [LocalEnv EXCEPT !.transport = "ssh", !.target = Target, !.fingerprint = Key("k1", FALSE),
                   !.knownHosts = "kh"]

\* cmux alone, and every setting that does not change how the bridge runs.
TunedEnv ==
  [LocalEnv EXCEPT !.backends = <<"cmux">>, !.down = {}, !.host = "0.0.0.0", !.token = "t", !.appStatic = FALSE, !.auditLog = "log",
                   !.files.appDir = "missing", !.files.auditFile = "writable",
                   !.strictAlias = FALSE, !.profile = [len |-> 3, head |-> TRUE, plain |-> TRUE],
                   !.ints = [port |-> Num(99999, TRUE), replayLines |-> Num(40, FALSE)]]

LocalVariants ==
  {LocalEnv, TunedEnv, [TunedEnv EXCEPT !.token = None], [TunedEnv EXCEPT !.token = Blank],
   [TunedEnv EXCEPT !.node = 20], [TunedEnv EXCEPT !.appStatic = Blank],
   [TunedEnv EXCEPT !.appStatic = TRUE], [TunedEnv EXCEPT !.files.auditFile = "dir"],
   [TunedEnv EXCEPT !.files.auditFile = "stat_error"],
   [TunedEnv EXCEPT !.files.auditParent = "missing"],
   [TunedEnv EXCEPT !.files.auditParent = "readonly"], [TunedEnv EXCEPT !.profile = Blank],
   [LocalEnv EXCEPT !.down = Backend], [LocalEnv EXCEPT !.files.appDir = "stat_error"],
   [LocalEnv EXCEPT !.fingerprint = Key("k1", FALSE), !.strict = FALSE]}

BackendVariants ==
  {[LocalEnv EXCEPT !.backends = <<"tmux", "cmux", "tmux">>, !.down = {}],
   [LocalEnv EXCEPT !.backends = <<"cmux", "tmux">>],
   [LocalEnv EXCEPT !.backends = <<"cmux", "tmux">>, !.down = {"tmux"}],
   [LocalEnv EXCEPT !.backends = <<"cmux">>],
   [LocalEnv EXCEPT !.backends = <<"screen">>], [LocalEnv EXCEPT !.backends = <<>>, !.down = Backend]}

SshVariants ==
  {SshEnv, [SshEnv EXCEPT !.files.known = {"k1", "k2"}], [SshEnv EXCEPT !.target = None], [SshEnv EXCEPT !.target.space = TRUE],
   [SshEnv EXCEPT !.target.parts = <<Host(<<Label(0)>>)>>],
   [SshEnv EXCEPT !.backends = <<"tmux", "cmux">>], [SshEnv EXCEPT !.sshPort = Num(22, FALSE)],
   [SshEnv EXCEPT !.knownHosts = "kh", !.files.knownHosts = "missing"],
   [SshEnv EXCEPT !.fingerprint = Key("k1", TRUE)], [SshEnv EXCEPT !.fingerprint = Key("k2", FALSE)],
   [SshEnv EXCEPT !.strict = FALSE],
   [SshEnv EXCEPT !.fingerprint = None, !.strict = FALSE,
                  !.files.ssh = [end |-> "failed", out |-> "", err |-> "OpenSSH"]],
   [SshEnv EXCEPT !.files.ssh = [end |-> "missing", out |-> "", err |-> ""]],
   [SshEnv EXCEPT !.files.ssh = [end |-> "timeout", out |-> "", err |-> ""]]}

MCEnv == LocalVariants \cup BackendVariants \cup SshVariants

MCToken == {"1", "s", ":", "tmux", "cmux"}
one == <<"1">>
split == <<"s", ":", "1">>
MCPaneId == {one, <<"tmux", ":">> \o one, <<"cmux", ":">> \o split, <<"tmux", "1", ":">> \o one}
MCText == {<<"a", "b">>, <<"">>}
MCRawPanes == [tmux |-> {one}, cmux |-> {one, split}]

Surface(type, id, surfaceId) == [type |-> type, id |-> id, surfaceId |-> surfaceId]
MCCmuxReply ==
  {[noise |-> "plain", json |-> TRUE,
    places |-> <<None, <<Surface("terminal", one, None), Surface("browser", <<"2">>, None),
                         Surface("terminal", None, split)>>, <<>>, None>>],
   [noise |-> "bracketed", json |-> TRUE, places |-> <<None, None, <<>>, None>>]}
============================================================================
