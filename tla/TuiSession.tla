----------------------------- MODULE TuiSession -----------------------------
(***************************************************************************)
(* The terminal UI (packages/commandrelay-tui): one shared state record    *)
(* that the reconnect timers, the events of every client object ever made, *)
(* the bootstraps under way and the user's commands all read and write.    *)
(*                                                                         *)
(* A bootstrap (cli.ts connectAndBootstrap) makes a client, connects it,   *)
(* authenticates it and lists the sessions, with an await between each;    *)
(* who called it decides what happens when it fails.  What runs in         *)
(* microtasks, before any other event, is a step of its own that the other *)
(* steps wait for (Quiet).  A client object is named by a member of        *)
(* Clients, free again once nothing refers to it; how many there are bounds *)
(* how many are in use at once.  One command that waits is in flight at a  *)
(* time, except for a /reconnect under way: a bound of the model, the line *)
(* handler does not serialise them.                                        *)
(***************************************************************************)
EXTENDS ConnectionProfiles, QaMode

CONSTANTS
    Clients, NoClient,
    MaxAttempts,         \* RECONNECT_ATTEMPTS_MAX
    FailureThreshold,    \* RECONNECT_FAILURE_THRESHOLD
    Installed,           \* terminal backends with an executable
    PreferredBackends,   \* what --backend may name, "unset" without it
    ProfileBackend,      \* the backend each profile was saved with, or "unset"
    Sources,             \* the token files and variables, in their order
    SectionRequests      \* what --qa-sections may be given

ASSUME ClientsAssumption == NoClient \notin Clients
ASSUME LimitsAssumption == MaxAttempts \in Nat \ {0} /\ FailureThreshold \in Nat \ {0}
ASSUME BackendAssumption ==
    /\ Installed \subseteq {"tmux", "ghostty"}
    /\ PreferredBackends \subseteq {"tmux", "ghostty", "console", "unset"}
    /\ ProfileBackend \in [Profiles -> {"tmux", "ghostty", "console", "unset"}]
ASSUME SourcesAssumption == Sources \in Seq(Tokens \cup {"none"})
ASSUME SectionsAssumption ==
    \A r \in SectionRequests :
      LET sections == SelectedSections(r)
      IN  /\ sections \in Seq(Range(SectionOrder))
          /\ \A i, j \in DOMAIN sections : sections[i] = sections[j] => i = j

VARIABLES
    state,      \* CliState
    link,       \* client -> "down", "opening", "open": its socket
    boot,       \* client -> the bootstrap that made it
    cmd,        \* the command in flight
    file,       \* what profiles.json loads as
    ui,         \* "startup", "loop" (reading lines), "dead", or "qa"
    rejected,   \* history: the gateway refused "bad" and the user has not entered it since
    unscheduled \* history: the last attempt ended where the code schedules no other

sessionVars == <<state, link, boot, cmd, file, ui, rejected, unscheduled>>
vars == <<sessionVars, qaVars>>

Backends == {"tmux", "ghostty", "console"}
Origin == {"startup", "timer", "manual", "token"}
Stage == {"none", "connecting", "rejected", "prompt", "auth", "listing"}

CliState ==
    [client : Clients \cup {NoClient}, connected : BOOLEAN, heartbeat : BOOLEAN, timer : {"none", "retry", "cooldown"},
     attempts : 0..MaxAttempts, failures : 0..FailureThreshold - 1, cooling : BOOLEAN,
     userClose : BOOLEAN, blocked : BOOLEAN, token : Tokens \cup {"none"},
     profile : Profiles \cup {NoProfile}, backend : Backends]

NoBoot == [stage |-> "none", origin |-> "startup", token |-> "none", candidate |-> "none"]
NoCmd == [kind |-> "none", client |-> NoClient, arg |-> "none"]

(* detectTerminalBackend, then the backend of the selected profile. *)
HasExecutable(b) == b = "console" \/ b \in Installed

DetectTerminalBackend(preferred) ==
    CASE preferred # "unset" /\ HasExecutable(preferred) -> preferred
      [] ~(preferred # "unset" /\ HasExecutable(preferred)) /\ "tmux" \in Installed -> "tmux"
      [] ~(preferred # "unset" /\ HasExecutable(preferred)) /\ "tmux" \notin Installed
           /\ "ghostty" \in Installed -> "ghostty"
      [] OTHER -> "console"

ProfileOverride(p, b) ==
    IF p # NoProfile /\ ProfileBackend[p] # "unset" THEN ProfileBackend[p] ELSE b

TokenOfProfile(store, p) ==
    IF p # NoProfile /\ store.saved[p] \in Tokens THEN store.saved[p] ELSE "none"

(* main up to connectAndBootstrap, with the module already loaded: the first client. *)
StartState(store, c, preferred, wanted) ==
    LET p == ResolveProfileSelection(store, wanted)
        saved == TokenOfProfile(store, p)
    IN  [client |-> c, connected |-> FALSE, heartbeat |-> FALSE, timer |-> "none", attempts |-> 0, failures |-> 0,
         cooling |-> FALSE, userClose |-> FALSE, blocked |-> FALSE,
         token |-> IF saved # "none" THEN saved ELSE ResolveStoredAuthToken(Sources),
         profile |-> p,
         backend |-> IF preferred # "unset" THEN DetectTerminalBackend(preferred)
                     ELSE ProfileOverride(p, DetectTerminalBackend("unset"))]

FreshLink(c) == [d \in Clients |-> IF d = c THEN "opening" ELSE "down"]
FreshBoot(c) == [d \in Clients |-> IF d = c THEN [NoBoot EXCEPT !.stage = "connecting"] ELSE NoBoot]

Init ==
    /\ file = Empty
    /\ \E c \in Clients, b \in PreferredBackends :
         /\ state = StartState(Empty, c, b, NoProfile)
         /\ link = FreshLink(c) /\ boot = FreshBoot(c)
    /\ cmd = NoCmd /\ rejected = FALSE /\ unscheduled = FALSE
    /\ \/ ui = "startup" /\ QaOff
       \/ ui = "qa" /\ \E r \in SectionRequests : QaInit(r)
----------------------------------------------------------------------------
(* The pieces the handlers are made of, as functions of the state record. *)

(* A cooldown that arms no timer. *)
ScheduleNotInCooldown(s) ==
    IF s.userClose \/ s.timer # "none" \/ s.cooling THEN s
    ELSE IF s.attempts >= MaxAttempts
         THEN [s EXCEPT !.cooling = TRUE, !.attempts = 0, !.failures = 0]
         ELSE [s EXCEPT !.attempts = @ + 1, !.timer = "retry"]

(* scheduleReconnect: one timer, for the next attempt or the rest of the cooldown. *)
ScheduleReconnect(s) ==
    IF s.userClose \/ s.timer # "none" THEN s
    ELSE IF s.cooling THEN [s EXCEPT !.timer = "cooldown"]
    ELSE IF s.attempts >= MaxAttempts
         THEN [s EXCEPT !.cooling = TRUE, !.attempts = 0, !.failures = 0, !.timer = "cooldown"]
         ELSE [s EXCEPT !.attempts = @ + 1, !.timer = "retry"]

(* The state a handler leaves once the connection is gone. *)
Dropped(s) == [s EXCEPT !.client = NoClient]

(* The "close" listener, of whichever client closed. *)
OnClose(s, authClose) ==
    LET gone == [Dropped(s) EXCEPT !.connected = FALSE, !.heartbeat = FALSE]
        kept == IF authClose
                THEN [gone EXCEPT !.blocked = TRUE, !.token = "none", !.timer = "none"]
                ELSE gone
    IN  IF kept.userClose \/ kept.blocked THEN kept ELSE ScheduleReconnect(kept)

(* A refused token that stays for the next attempt. *)
AfterFailureKeepsToken(s, authError) ==
    IF authError
    THEN [s EXCEPT !.blocked = TRUE, !.failures = 0, !.attempts = 0, !.cooling = FALSE]
    ELSE IF s.failures + 1 >= FailureThreshold
         THEN [s EXCEPT !.cooling = TRUE, !.failures = 0, !.attempts = 0]
         ELSE [s EXCEPT !.failures = @ + 1]

(* The catch of connectAndBootstrap. *)
AfterFailure(s, authError) ==
    IF authError
    THEN [s EXCEPT !.blocked = TRUE, !.token = "none", !.failures = 0, !.attempts = 0, !.cooling = FALSE]
    ELSE IF s.failures + 1 >= FailureThreshold
         THEN [s EXCEPT !.cooling = TRUE, !.failures = 0, !.attempts = 0]
         ELSE [s EXCEPT !.failures = @ + 1]

(* What the caller of the bootstrap does with the error. *)
AfterRethrow(s, origin, authError) ==
    CASE origin = "startup" -> s
      [] origin = "timer" -> ScheduleReconnect(s)
      [] origin = "manual" -> IF authError THEN s ELSE ScheduleReconnect(s)
      [] origin = "token" -> [s EXCEPT !.blocked = @ \/ authError, !.token = "none"]

Free == {c \in Clients : /\ link[c] = "down" /\ boot[c].stage = "none"
                         /\ c # state.client /\ c # cmd.client}

(* connectAndBootstrap up to its first await that an event can precede; /token
   remembers the token it was given, whatever others make of state.token. *)
Bootstrap(s, origin) ==
    \E c \in Free :
        /\ state' = [s EXCEPT !.userClose = FALSE, !.client = c]
        /\ link' = [link EXCEPT ![c] = "opening"]
        /\ boot' = [boot EXCEPT ![c] = [stage |-> "connecting", origin |-> origin, token |-> "none",
                                      candidate |-> IF origin = "token" THEN s.token ELSE "none"]]
        /\ unscheduled' = FALSE

(* reconnectNow past its guard. *)
ReconnectNow(s) ==
    Bootstrap([s EXCEPT !.timer = "none", !.blocked = FALSE, !.failures = 0,
                        !.attempts = 0, !.cooling = FALSE], "manual")
----------------------------------------------------------------------------
(* process.exit, or an exception nobody catches: the sockets and the
   continuations go with the process. *)
ProcessEnds ==
    /\ ui' = "dead" /\ cmd' = NoCmd
    /\ link' = [c \in Clients |-> "down"]
    /\ boot' = [c \in Clients |-> NoBoot]
    /\ UNCHANGED unscheduled

(* Microtasks: promises already settled, whose continuations run before any
   other event. *)
BootDue(c) == boot[c].stage = "rejected" \/ (boot[c].stage \in {"auth", "listing"} /\ link[c] = "down")
CmdDue == cmd.kind = "left" \/ (cmd.client # NoClient /\ link[cmd.client] = "down")
Quiet == ui \in {"startup", "loop"} /\ ~CmdDue /\ \A c \in Clients : ~BootDue(c)

(* A bootstrap fails: its catch, client.close, and its caller's catch. *)
FailBootstrap(c, s, authError) ==
    /\ state' = AfterRethrow(AfterFailure(s, authError), boot[c].origin, authError)
    /\ link' = [link EXCEPT ![c] = "down"]
    /\ boot' = [boot EXCEPT ![c] = NoBoot]
    /\ ui' = IF boot[c].origin = "startup" THEN "loop" ELSE ui
    /\ unscheduled' = (boot[c].origin \in {"startup", "token"})

(* The end of connectAndBootstrap: touchProfile, whose save may throw into the
   catch, startHeartbeat, the caller. *)
FinishBootstrap(c) ==
    \/ /\ state' = [state EXCEPT !.heartbeat = @ \/ state.client # NoClient]
       /\ boot' = [boot EXCEPT ![c] = NoBoot]
       /\ ui' = IF boot[c].origin = "startup" THEN "loop" ELSE ui
       /\ file' = IF boot[c].origin = "token"
                  THEN SetProfileToken(file, state.profile, boot[c].candidate) ELSE file
       /\ UNCHANGED <<link, unscheduled>>
    \/ /\ state.profile # NoProfile
       /\ FailBootstrap(c, state, FALSE)
       /\ UNCHANGED file

SettleBoot(c) ==
    /\ ui \in {"startup", "loop"} /\ BootDue(c)
    /\ \/ /\ boot[c].stage = "rejected"
          /\ FailBootstrap(c, state, FALSE)
          /\ UNCHANGED file
       \/ /\ boot[c].stage = "auth"
          /\ FailBootstrap(c, [state EXCEPT !.token = "none"], FALSE)
          /\ UNCHANGED file
       \/ /\ boot[c].stage = "listing"          \* refreshSessions(true) swallows the error
          /\ FinishBootstrap(c)
    /\ UNCHANGED <<cmd, rejected, qaVars>>

(* A command whose socket went: its catch.  disconnectCleanly's own catch
   calls state.client.close, and throws when the close event came first. *)
SettleCmd ==
    /\ ui = "loop" /\ CmdDue
    /\ \/ /\ cmd.kind = "token"
          /\ state' = [state EXCEPT !.token = "none"]
          /\ cmd' = NoCmd
          /\ UNCHANGED <<link, boot, ui, unscheduled>>
       \/ /\ cmd.kind = "leave"
          /\ IF state.client = NoClient
             THEN ProcessEnds
             ELSE cmd' = [cmd EXCEPT !.kind = "left"] /\ UNCHANGED <<link, boot, ui, unscheduled>>
          /\ UNCHANGED state
       \/ /\ cmd.kind = "left" /\ cmd.arg = "exit"
          /\ state' = Dropped(state)
          /\ ProcessEnds
       \/ /\ cmd.kind = "left" /\ cmd.arg = "use"
          /\ cmd' = NoCmd
          /\ LET s == [Dropped(state) EXCEPT !.userClose = FALSE]
             IN  IF s.connected THEN state' = s /\ unscheduled' = TRUE /\ UNCHANGED <<link, boot>>
                 ELSE ReconnectNow(s)
          /\ UNCHANGED ui
    /\ UNCHANGED <<file, rejected, qaVars>>
----------------------------------------------------------------------------
(* The gateway's answers and the sockets. *)

Authenticated(c, t) ==
    /\ state' = [state EXCEPT !.token = t, !.blocked = FALSE, !.attempts = 0, !.failures = 0, !.cooling = FALSE]
    /\ boot' = [boot EXCEPT ![c].stage = "listing", ![c].token = "none"]

(* hello arrives: the listener, then the bootstrap as far as its next await. *)
Hello(c, requiresAuth) ==
    /\ Quiet /\ link[c] = "opening" /\ boot[c].stage = "connecting"
    /\ link' = [link EXCEPT ![c] = "open"]
    /\ LET greeted == [state EXCEPT !.connected = TRUE]
       IN  IF ~requiresAuth
           THEN /\ state' = [greeted EXCEPT !.blocked = FALSE, !.attempts = 0, !.failures = 0, !.cooling = FALSE]
                /\ boot' = [boot EXCEPT ![c].stage = "listing", ![c].token = "none"]
           ELSE /\ state' = greeted
                /\ boot' = [boot EXCEPT
                     ![c].stage = IF state.token = "none" THEN "prompt" ELSE "auth",
                     ![c].token = state.token]
    /\ UNCHANGED <<cmd, file, ui, rejected, unscheduled, qaVars>>

(* The socket cannot be opened, the hello is none, or the handshake timer runs
   out on a socket that is open: no close event.  On a socket that is still
   connecting the timer takes its listeners off and terminates it, and the error
   event that follows ends the process.  (A request is under way only on an open
   socket.) *)
ConnectFails(c) ==
    /\ Quiet /\ boot[c].stage = "connecting"
    /\ \/ FailBootstrap(c, state, FALSE) /\ UNCHANGED cmd
       \/ link[c] = "opening" /\ cmd.client # c /\ ProcessEnds /\ UNCHANGED state
    /\ UNCHANGED <<file, rejected, qaVars>>

(* The peer or the network closes the socket. *)
Close(c, authClose) ==
    /\ Quiet /\ link[c] \in {"opening", "open"}
    /\ state' = OnClose(state, authClose)
    /\ link' = [link EXCEPT ![c] = "down"]
    /\ boot' = IF boot[c].stage = "connecting" THEN [boot EXCEPT ![c].stage = "rejected"] ELSE boot
    /\ UNCHANGED <<cmd, file, ui, rejected, unscheduled, qaVars>>

(* auth_ok, auth_error or the request's timeout answer a bootstrap's auth. *)
AuthAnswer(c, answer) ==
    /\ Quiet /\ boot[c].stage = "auth" /\ link[c] = "open"
    /\ \/ /\ answer = "ok" /\ boot[c].token = "good"
          /\ Authenticated(c, "good")
          /\ UNCHANGED <<link, ui, rejected, unscheduled>>
       \/ /\ answer = "refused" /\ boot[c].token = "bad"
          /\ rejected' = TRUE
          /\ FailBootstrap(c, state, TRUE)
       \/ /\ answer = "timeout"
          /\ FailBootstrap(c, [state EXCEPT !.token = "none"], FALSE)
          /\ UNCHANGED rejected
    /\ UNCHANGED <<cmd, file, qaVars>>

(* The sessions arrive or the request times out. *)
Listed(c) ==
    /\ Quiet /\ boot[c].stage = "listing" /\ link[c] = "open"
    /\ FinishBootstrap(c)
    /\ UNCHANGED <<cmd, rejected, qaVars>>

(* The ack of the command in flight (or its refusal, which changes nothing). *)
CmdAnswer(ok) ==
    /\ Quiet /\ cmd.client # NoClient
    /\ \/ /\ cmd.kind = "token" /\ ok = (cmd.arg = "good")
          /\ state' = IF ok THEN [state EXCEPT !.token = "good"]
                      ELSE [state EXCEPT !.blocked = TRUE, !.token = "none"]
          /\ file' = IF ok THEN SetProfileToken(file, state.profile, "good") ELSE file
          /\ rejected' = (rejected \/ ~ok)
          /\ cmd' = NoCmd /\ UNCHANGED link
       \/ /\ cmd.kind = "leave"         \* ack, error or timeout: disconnect() closes in the end
          /\ link' = [link EXCEPT ![cmd.client] = "down"]
          /\ cmd' = IF ok THEN [cmd EXCEPT !.kind = "left"] ELSE cmd
          /\ UNCHANGED <<state, file, rejected>>
    /\ UNCHANGED <<boot, ui, unscheduled, qaVars>>
----------------------------------------------------------------------------
(* Timers. *)

RetryFires ==
    /\ Quiet /\ state.timer = "retry"
    /\ Bootstrap([Dropped(state) EXCEPT !.timer = "none", !.heartbeat = FALSE], "timer")
    /\ UNCHANGED <<cmd, file, ui, rejected, qaVars>>

CooldownPasses ==
    /\ Quiet /\ state.cooling
    /\ state' = [state EXCEPT !.cooling = FALSE]
    /\ UNCHANGED <<link, boot, cmd, file, ui, rejected, unscheduled, qaVars>>

(* Armed for the rest of the cooldown, so it ends first. *)
CooldownFires ==
    /\ Quiet /\ state.timer = "cooldown" /\ ~state.cooling
    /\ state' = ScheduleReconnect([state EXCEPT !.timer = "none"])
    /\ UNCHANGED <<link, boot, cmd, file, ui, rejected, unscheduled, qaVars>>
----------------------------------------------------------------------------
(* The user.  Commands that only report (help, list, status, health) change
   nothing here; attach, detach, enable, disable and typed input act on the
   pane and the policy, which none of these steps read. *)

Prompting ==
    /\ Quiet /\ ui = "loop" /\ cmd = NoCmd
    /\ \A c \in Clients : boot[c].origin # "token"

(* The answer to the prompt of a bootstrap; an empty one is an error. *)
PromptAnswered(c, t) ==
    /\ Quiet /\ boot[c].stage = "prompt"
    /\ rejected' = (rejected /\ t # "bad")
    /\ IF t = "none"
       THEN FailBootstrap(c, state, FALSE)
       ELSE /\ boot' = [boot EXCEPT ![c].stage = "auth", ![c].token = t]
            /\ UNCHANGED <<state, link, ui, unscheduled>>
    /\ UNCHANGED <<cmd, file, qaVars>>

(* /token, from the prompt's answer on: the prompt itself changes nothing. *)
TokenCommand(t) ==
    /\ Prompting
    /\ rejected' = (rejected /\ t # "bad")
    /\ IF state.client = NoClient
       THEN /\ Bootstrap([state EXCEPT !.token = t, !.blocked = FALSE], "token")
            /\ UNCHANGED cmd
       ELSE /\ IF link[state.client] = "open"
               THEN cmd' = [kind |-> "token", client |-> state.client, arg |-> t] /\ UNCHANGED state
               ELSE state' = [state EXCEPT !.token = "none"] /\ UNCHANGED cmd
            /\ UNCHANGED <<link, boot, unscheduled>>
    /\ UNCHANGED <<file, ui, qaVars>>

(* /reconnect is refused while there is a client, however dead. *)
ReconnectCommand ==
    /\ Prompting
    /\ state.client = NoClient /\ ~state.connected
    /\ ReconnectNow(state)
    /\ UNCHANGED <<cmd, file, ui, rejected, qaVars>>

(* disconnectCleanly up to the request, which fails at once on a dead socket.  A
   socket that awaits its hello takes the request; one that is still connecting
   is closed with its listeners off, and its error event ends the process. *)
Leaving(s) == [s EXCEPT !.connected = FALSE, !.userClose = TRUE, !.timer = "none", !.heartbeat = FALSE]

Leave(s, next) ==
    /\ state' = Leaving(s)
    /\ \/ /\ cmd' = [kind |-> "leave", client |-> s.client, arg |-> next]
          /\ UNCHANGED <<link, boot, ui, unscheduled>>
       \/ link[s.client] = "opening" /\ ProcessEnds

(* /quit; Ctrl-C ends the process without waiting for the disconnect. *)
QuitCommand ==
    /\ Prompting
    /\ IF state.client = NoClient
       THEN state' = Leaving(state) /\ ProcessEnds
       ELSE Leave(state, "exit")
    /\ UNCHANGED <<file, rejected, qaVars>>

ProfileAdd(n) ==
    /\ Prompting
    /\ file' = UpsertProfile(file, n)
    /\ state' = [state EXCEPT !.profile = n, !.backend = ProfileOverride(n, state.backend)]
    /\ UNCHANGED <<link, boot, cmd, ui, rejected, unscheduled, qaVars>>

ProfileRemove(n) ==
    /\ Prompting
    /\ file' = RemoveProfile(file, n)
    /\ state' = IF state.profile = n
                THEN [state EXCEPT !.profile = ResolveProfileSelection(file', NoProfile)]
                ELSE state
    /\ UNCHANGED <<link, boot, cmd, ui, rejected, unscheduled, qaVars>>

(* The name is looked up with the active profile as a fallback. *)
ProfileUse(n) ==
    /\ Prompting
    /\ LET store == file
           p == ResolveProfileSelection(store, n)
           s == [state EXCEPT !.backend = ProfileOverride(p, state.backend), !.profile = p,
                              !.token = TokenOfProfile(store, p)]
       IN  /\ p # NoProfile
           /\ file' = SetActiveProfile(store, n)
           /\ rejected' = (rejected /\ s.token # "bad")
           /\ IF state.client # NoClient THEN Leave(s, "use")
              ELSE ~state.connected /\ ReconnectNow(s) /\ UNCHANGED <<cmd, ui>>
    /\ UNCHANGED qaVars

ProfileToken(n, t) ==
    /\ Prompting
    /\ n \in Names(file)
    /\ file' = SetProfileToken(file, n, t)
    /\ state' = IF state.profile = n THEN [state EXCEPT !.token = t] ELSE state
    /\ rejected' = (rejected /\ t # "bad")
    /\ UNCHANGED <<link, boot, cmd, ui, unscheduled, qaVars>>

(* /open: spawn reports a missing executable by an error event nobody listens
   for, which ends the process; otherwise nothing here changes. *)
Open ==
    /\ Prompting /\ ~HasExecutable(state.backend)
    /\ ProcessEnds
    /\ UNCHANGED <<state, file, rejected, qaVars>>

(* The process has ended, or dies in the middle of writeFileSync, and is
   started again; dying elsewhere leaves what ending does.  No profile can be
   asked for of a torn file. *)
Restart(torn, wanted) ==
    /\ IF torn THEN ui = "loop" /\ wanted = NoProfile ELSE ui = "dead"
    /\ file' = IF torn THEN Unreadable ELSE file
    /\ \E c \in Clients :
         /\ state' = StartState(file', c, "unset", wanted)
         /\ link' = FreshLink(c) /\ boot' = FreshBoot(c)
    /\ ui' = "startup" /\ cmd' = NoCmd /\ rejected' = FALSE /\ unscheduled' = FALSE
    /\ UNCHANGED qaVars

RunChecklist ==
    /\ ui = "qa"
    /\ \/ \E skip \in BOOLEAN : QaStart(skip)
       \/ \E passed \in BOOLEAN : QaFinishSection(passed)
       \/ QaFinish
    /\ UNCHANGED sessionVars
----------------------------------------------------------------------------
ClientStep(c) ==
    \/ SettleBoot(c)
    \/ \E b \in BOOLEAN : Hello(c, b) \/ Close(c, b)
    \/ ConnectFails(c)
    \/ \E a \in {"ok", "refused", "timeout"} : AuthAnswer(c, a)
    \/ Listed(c)
    \/ \E t \in Tokens \cup {"none"} : PromptAnswered(c, t)

ProfileStep(n) ==
    \/ ProfileAdd(n) \/ ProfileRemove(n) \/ ProfileUse(n)
    \/ \E t \in Tokens : ProfileToken(n, t)

UserStep ==
    \/ \E t \in Tokens : TokenCommand(t)
    \/ ReconnectCommand \/ QuitCommand \/ Open
    \/ \E n \in Profiles : ProfileStep(n)
    \/ \E torn \in BOOLEAN, n \in Profiles \cup {NoProfile} : Restart(torn, n)

Next ==
    \/ \E c \in Clients : ClientStep(c)
    \/ SettleCmd
    \/ \E ok \in BOOLEAN : CmdAnswer(ok)
    \/ RetryFires \/ CooldownPasses \/ CooldownFires
    \/ UserStep
    \/ RunChecklist

Spec == Init /\ [][Next]_vars
----------------------------------------------------------------------------
\* The values each variable ranges over.
TypeOK ==
    /\ state \in CliState
    /\ link \in [Clients -> {"down", "opening", "open"}]
    /\ boot \in [Clients -> [stage : Stage, origin : Origin, token : Tokens \cup {"none"}, candidate : Tokens \cup {"none"}]]
    /\ cmd \in [kind : {"none", "token", "leave", "left"},
                client : Clients \cup {NoClient}, arg : {"none", "good", "bad", "exit", "use"}]
    /\ file \in Store
    /\ ui \in {"startup", "loop", "dead", "qa"}
    /\ rejected \in BOOLEAN
    /\ unscheduled \in BOOLEAN

(***************************************************************************)
(* A connection that was lost, or an automatic or manual attempt that      *)
(* failed, is tried again: with nothing under way the user has left, a     *)
(* token is awaited, a timer is armed, or a socket is open whose close     *)
(* will arm it (the session's own, or one a later bootstrap orphaned).     *)
(* The exceptions are the ones in the code: a failed first connection and  *)
(* a failed /token do not schedule anything, and /profile use gives up     *)
(* when the hello of another client came while it was disconnecting.  And  *)
(* the process may have ended: it does not survive a handshake timeout, or *)
(* a /quit or /profile use, while the socket is still connecting.          *)
(* Once the user has asked to leave, no bootstrap that fails late and no   *)
(* close that arrives late arms a timer again.                             *)
(***************************************************************************)
LossIsRetried ==
    /\ state.userClose => state.timer = "none"
    /\ (/\ Quiet /\ ui = "loop" /\ cmd = NoCmd
        /\ \A c \in Clients : boot[c].stage = "none"
        /\ ~state.userClose /\ ~state.blocked
        /\ ~unscheduled)
           => \/ state.timer # "none"
              \/ \E c \in Clients : link[c] = "open"

(***************************************************************************)
(* A token the gateway has refused is gone: no reconnect, whatever the     *)
(* bootstraps and commands in flight, sends it again until the user gives  *)
(* it again.                                                               *)
(***************************************************************************)
RejectedTokenForgotten == rejected => state.token # "bad"

(***************************************************************************)
(* The active profile of the file and the one of the session exist, after  *)
(* every sequence of profile commands and a crash in the middle of a save. *)
(***************************************************************************)
ProfilesExist ==
    /\ file.active \in Names(file) \cup {NoProfile}
    /\ state.profile \in Names(file) \cup {NoProfile}
=============================================================================
