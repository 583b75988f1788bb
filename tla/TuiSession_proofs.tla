-------------------------- MODULE TuiSession_proofs --------------------------
(***************************************************************************)
(* Proofs about the terminal UI: that losses are retried, refused tokens   *)
(* are forgotten and profiles exist, for any number of client objects,     *)
(* profiles and attempts; and that the checklist's report is honest.       *)
(***************************************************************************)
EXTENDS TuiSession, WellFoundedInduction, TLAPS

\* The stages of a bootstrap whose failure its caller still has to handle.
\* One that lists the sessions swallows the loss: it does not count.
Waiting == {"connecting", "rejected", "prompt", "auth"}

Covered ==
  \/ state.timer # "none"
  \/ \E c \in Clients : link[c] = "open" \/ boot[c].stage \in Waiting

\* Whatever is under way: without a reason to stop, something that will retry
\* is armed, open or still to fail.
CoverInv ==
  ui \in {"startup", "loop"} /\ ~state.userClose /\ ~state.blocked /\ ~unscheduled => Covered

\* A command that leaves keeps the session closed until it is settled.
LeaveInv == cmd.kind \in {"leave", "left"} => state.userClose

TimerInv == state.userClose => state.timer = "none"

TuiInv ==
  /\ TypeOK
  /\ TimerInv /\ LeaveInv /\ CoverInv
  /\ RejectedTokenForgotten
  /\ ProfilesExist

\* What most handlers do to the state record at most.
Mild(r, s) ==
  /\ r \in CliState
  /\ r.profile = s.profile
  /\ r.token \in {s.token, "none"}
  /\ r.userClose = s.userClose
  /\ s.userClose /\ s.timer = "none" => r.timer = "none"

-----------------------------------------------------------------------------
(* The functions of the state record *)

LEMMA CountersFacts ==
  /\ 0 \in 0..MaxAttempts /\ 0 \in 0..FailureThreshold - 1
  /\ \A n \in 0..MaxAttempts : ~(n >= MaxAttempts) => n + 1 \in 0..MaxAttempts
  /\ \A n \in 0..FailureThreshold - 1 :
       ~(n + 1 >= FailureThreshold) => n + 1 \in 0..FailureThreshold - 1
BY LimitsAssumption

\* Unless the user has left, scheduleReconnect leaves a timer armed.
LEMMA ScheduleFacts ==
  ASSUME NEW s \in CliState
  PROVE  /\ Mild(ScheduleReconnect(s), s)
         /\ ~s.userClose => ScheduleReconnect(s).timer # "none"
         /\ ScheduleReconnect(s).blocked = s.blocked
<1> DEFINE r == ScheduleReconnect(s)
<1>0. s.attempts \in 0..MaxAttempts
  BY DEF CliState
<1>1. CASE s.userClose \/ s.timer # "none"
  BY <1>1 DEF ScheduleReconnect, Mild
<1>2. CASE ~(s.userClose \/ s.timer # "none") /\ s.cooling
  <2>1. r = [s EXCEPT !.timer = "cooldown"]
    BY <1>2 DEF ScheduleReconnect
  <2> QED
    BY <1>2, <2>1 DEF Mild, CliState
<1>3. CASE ~(s.userClose \/ s.timer # "none") /\ ~s.cooling /\ s.attempts >= MaxAttempts
  <2>1. r = [s EXCEPT !.cooling = TRUE, !.attempts = 0, !.failures = 0, !.timer = "cooldown"]
    BY <1>3 DEF ScheduleReconnect
  <2> QED
    BY <1>3, <2>1, CountersFacts, ZenonT(60) DEF Mild, CliState
<1>4. CASE ~(s.userClose \/ s.timer # "none") /\ ~s.cooling /\ ~(s.attempts >= MaxAttempts)
  <2>1. r = [s EXCEPT !.attempts = s.attempts + 1, !.timer = "retry"]
    BY <1>4 DEF ScheduleReconnect
  <2>2. s.attempts + 1 \in 0..MaxAttempts
    BY <1>0, <1>4, CountersFacts
  <2> QED
    BY <1>4, <2>1, <2>2 DEF Mild, CliState
<1> QED
  BY <1>1, <1>2, <1>3, <1>4

LEMMA AfterFailureFacts ==
  ASSUME NEW s \in CliState, NEW authError \in BOOLEAN
  PROVE  LET r == AfterFailure(s, authError)
         IN  /\ Mild(r, s) /\ r.timer = s.timer
             /\ authError => r.blocked /\ r.token = "none"
             /\ s.blocked => r.blocked
<1> DEFINE r == AfterFailure(s, authError)
<1>0. s.failures \in 0..FailureThreshold - 1
  BY DEF CliState
<1>1. CASE authError
  <2>1. r = [s EXCEPT !.blocked = TRUE, !.token = "none", !.failures = 0, !.attempts = 0,
                      !.cooling = FALSE]
    BY <1>1 DEF AfterFailure
  <2> QED
    BY <1>1, <2>1, CountersFacts, ZenonT(60) DEF Mild, CliState
<1>2. CASE ~authError /\ s.failures + 1 >= FailureThreshold
  <2>1. r = [s EXCEPT !.cooling = TRUE, !.failures = 0, !.attempts = 0]
    BY <1>2 DEF AfterFailure
  <2> QED
    BY <1>2, <2>1, CountersFacts DEF Mild, CliState
<1>3. CASE ~authError /\ ~(s.failures + 1 >= FailureThreshold)
  <2>1. r = [s EXCEPT !.failures = s.failures + 1]
    BY <1>3 DEF AfterFailure
  <2>2. s.failures + 1 \in 0..FailureThreshold - 1
    BY <1>0, <1>3, CountersFacts
  <2> QED
    BY <1>3, <2>1, <2>2 DEF Mild, CliState
<1> QED
  BY <1>1, <1>2, <1>3

\* The caller's catch: a timer or manual attempt that failed is scheduled
\* again unless the user left or the token was refused.
LEMMA AfterRethrowFacts ==
  ASSUME NEW s \in CliState, NEW origin \in Origin, NEW authError \in BOOLEAN,
         authError => s.blocked
  PROVE  LET r == AfterRethrow(s, origin, authError)
         IN  /\ Mild(r, s)
             /\ s.blocked => r.blocked
             /\ origin \in {"timer", "manual"} /\ ~r.userClose /\ ~r.blocked => r.timer # "none"
<1> DEFINE r == AfterRethrow(s, origin, authError)
<1>1. CASE r = s /\ (origin = "startup" \/ authError)
  BY <1>1 DEF Mild, CliState, Origin
<1>2. CASE r = ScheduleReconnect(s)
  BY <1>2, ScheduleFacts DEF Mild, CliState
<1>3. CASE origin = "token"
  <2>1. r = [s EXCEPT !.blocked = s.blocked \/ authError, !.token = "none"]
    BY <1>3 DEF AfterRethrow
  <2>2. (s.blocked \/ authError) \in BOOLEAN
    BY DEF CliState
  <2>3. PICK b \in BOOLEAN : b = (s.blocked \/ authError)
    BY <2>2
  <2>4. r = [s EXCEPT !.blocked = b, !.token = "none"] /\ (s.blocked => b)
    BY <2>1, <2>3
  <2> QED
    BY <1>3, <2>4 DEF Mild, CliState
<1> QED
  BY <1>1, <1>2, <1>3 DEF AfterRethrow, Origin

\* The close listener: what it leaves is blocked, left or scheduled.
LEMMA OnCloseFacts ==
  ASSUME NEW s \in CliState, NEW authClose \in BOOLEAN
  PROVE  LET r == OnClose(s, authClose)
         IN  /\ Mild(r, s)
             /\ s.blocked => r.blocked
             /\ ~r.userClose /\ ~r.blocked => r.timer # "none"
<1> DEFINE gone == [s EXCEPT !.client = NoClient, !.connected = FALSE, !.heartbeat = FALSE]
           kept == IF authClose
                   THEN [gone EXCEPT !.blocked = TRUE, !.token = "none", !.timer = "none"]
                   ELSE gone
<1>1. Mild(gone, s) /\ gone.blocked = s.blocked /\ gone.timer = s.timer /\ gone.token = s.token
  BY DEF Mild, CliState
<1>2. OnClose(s, authClose) = IF kept.userClose \/ kept.blocked THEN kept ELSE ScheduleReconnect(kept)
  BY DEF OnClose, Dropped
<1> HIDE DEF gone
<1>3. Mild(kept, s) /\ (s.blocked => kept.blocked)
  <2>1. CASE authClose
    BY <1>1, <2>1 DEF Mild, CliState
  <2>2. CASE ~authClose
    BY <1>1, <2>2
  <2> QED
    BY <2>1, <2>2
<1> HIDE DEF kept
<1>4. CASE kept.userClose \/ kept.blocked
  BY <1>2, <1>3, <1>4
<1>5. CASE ~(kept.userClose \/ kept.blocked)
  <2>1. kept \in CliState
    BY <1>3 DEF Mild
  <2> QED
    BY <1>2, <1>3, <1>5, <2>1, ScheduleFacts DEF Mild
<1> QED
  BY <1>4, <1>5

-----------------------------------------------------------------------------
(* The profile file *)

\* The store's own half of ProfilesExist.
ActiveExists(store) == store.active \in Names(store) \cup {NoProfile}

LEMMA ResolveFacts ==
  ASSUME NEW store \in Store, NEW preferred
  PROVE  ResolveProfileSelection(store, preferred) \in Names(store) \cup {NoProfile}
BY DEF ResolveProfileSelection

LEMMA UpsertFacts ==
  ASSUME NEW store \in Store, ActiveExists(store), NEW n \in Profiles
  PROVE  /\ UpsertProfile(store, n) \in Store /\ ActiveExists(UpsertProfile(store, n))
         /\ Names(UpsertProfile(store, n)) = Names(store) \cup {n}
<1> DEFINE r == UpsertProfile(store, n)
<1>1. r.saved = [store.saved EXCEPT ![n] = "none"] /\ r.active \in {n, store.active}
  BY DEF UpsertProfile
<1>2. r \in Store
  BY DEF UpsertProfile, Store, SavedToken
<1>3. Names(r) = Names(store) \cup {n}
  BY <1>1 DEF Names, Store
<1> QED
  BY <1>1, <1>2, <1>3 DEF ActiveExists

LEMMA RemoveFacts ==
  ASSUME NEW store \in Store, ActiveExists(store), NEW n \in Profiles
  PROVE  /\ RemoveProfile(store, n) \in Store /\ ActiveExists(RemoveProfile(store, n))
         /\ Names(RemoveProfile(store, n)) = Names(store) \ {n}
<1> DEFINE r == RemoveProfile(store, n)
           left == Names(store) \ {n}
           next == IF left = {} THEN NoProfile ELSE CHOOSE m \in left : TRUE
<1>1. r = [active |-> IF store.active = n THEN next ELSE store.active,
           saved |-> [store.saved EXCEPT ![n] = "absent"]]
  BY DEF RemoveProfile
<1>2. next \in left \cup {NoProfile}
  OBVIOUS
<1> HIDE DEF next
<1>3. r.saved = [store.saved EXCEPT ![n] = "absent"] /\ r.active \in left \cup {NoProfile}
  BY <1>1, <1>2, NoProfileAssumption DEF ActiveExists
<1>4. Names(r) = left
  BY <1>3 DEF Names, Store
<1>5. r \in Store
  BY <1>1, <1>3 DEF Names, Store, SavedToken
<1> QED
  BY <1>3, <1>4, <1>5 DEF ActiveExists

LEMMA SetActiveFacts ==
  ASSUME NEW store \in Store, NEW n \in Profiles
  PROVE  /\ SetActiveProfile(store, n) \in Store /\ ActiveExists(SetActiveProfile(store, n))
         /\ Names(SetActiveProfile(store, n)) = Names(store)
BY DEF SetActiveProfile, Store, Names, ActiveExists

LEMMA SetTokenFacts ==
  ASSUME NEW store \in Store, ActiveExists(store), NEW n, NEW t \in Tokens \cup {"none"}
  PROVE  /\ SetProfileToken(store, n, t) \in Store /\ ActiveExists(SetProfileToken(store, n, t))
         /\ Names(SetProfileToken(store, n, t)) = Names(store)
<1> DEFINE r == SetProfileToken(store, n, t)
<1>1. CASE n \notin Names(store)
  BY <1>1 DEF SetProfileToken
<1>2. CASE n \in Names(store)
  <2>1. r = [store EXCEPT !.saved = [store.saved EXCEPT ![n] = t]] /\ n \in Profiles
    BY <1>2 DEF SetProfileToken, Names
  <2>2. r \in Store /\ r.active = store.active /\ r.saved = [store.saved EXCEPT ![n] = t]
    BY <2>1 DEF Store, SavedToken
  <2>3. t # "absent"
    BY DEF Tokens
  <2>4. Names(r) = Names(store)
    BY <1>2, <2>1, <2>2, <2>3 DEF Names, Store
  <2> QED
    BY <2>2, <2>4 DEF ActiveExists
<1> QED
  BY <1>1, <1>2

LEMMA EmptyFacts == Empty \in Store /\ ActiveExists(Empty)
BY DEF Empty, Store, SavedToken, ActiveExists

\* The first usable source: there is a first one.
LEMMA StoredTokenFacts == ResolveStoredAuthToken(Sources) \in Tokens \cup {"none"}
<1> DEFINE usable == {i \in DOMAIN Sources : Sources[i] # "none"}
<1>1. DOMAIN Sources \subseteq Nat /\ \A i \in DOMAIN Sources : Sources[i] \in Tokens \cup {"none"}
  BY SourcesAssumption
<1>2. CASE usable = {}
  BY <1>2 DEF ResolveStoredAuthToken
<1>3. CASE usable # {}
  <2>1. usable \subseteq Nat
    BY <1>1
  <2>2. \E x \in usable : \A y \in usable : ~(<<y, x>> \in OpToRel(<, Nat))
    BY <1>3, <2>1, NatLessThanWellFounded, WFMin
  <2>3. PICK x \in usable : \A y \in usable : ~(<<y, x>> \in OpToRel(<, Nat))
    BY <2>2
  <2>4. \A y \in usable : x <= y
    <3> TAKE y \in usable
    <3>1. x \in Nat /\ y \in Nat
      BY <2>1
    <3>2. ~(y < x)
      BY <2>3, <3>1 DEF OpToRel
    <3> QED
      BY <3>1, <3>2
  <2>5. (CHOOSE i \in usable : \A j \in usable : i <= j) \in usable
    BY <2>3, <2>4
  <2> QED
    BY <1>1, <1>3, <2>5 DEF ResolveStoredAuthToken
<1> QED
  BY <1>2, <1>3

LEMMA BackendFacts ==
  /\ \A preferred \in PreferredBackends \cup {"unset"} : DetectTerminalBackend(preferred) \in Backends
  /\ \A p \in Profiles \cup {NoProfile}, b \in Backends : ProfileOverride(p, b) \in Backends
BY BackendAssumption, NoProfileAssumption
   DEF DetectTerminalBackend, ProfileOverride, Backends, HasExecutable

LEMMA TokenOfProfileFacts ==
  ASSUME NEW store, NEW p
  PROVE  TokenOfProfile(store, p) \in Tokens \cup {"none"}
BY DEF TokenOfProfile

LEMMA StartFacts ==
  ASSUME NEW store \in Store, NEW c \in Clients, NEW preferred \in PreferredBackends \cup {"unset"},
         NEW wanted
  PROVE  LET s == StartState(store, c, preferred, wanted)
         IN  /\ s \in CliState /\ s.profile \in Names(store) \cup {NoProfile}
             /\ ~s.userClose
<1> DEFINE s == StartState(store, c, preferred, wanted)
           p == ResolveProfileSelection(store, wanted)
           saved == TokenOfProfile(store, p)
           token == IF saved # "none" THEN saved ELSE ResolveStoredAuthToken(Sources)
           backend == IF preferred # "unset" THEN DetectTerminalBackend(preferred)
                      ELSE ProfileOverride(p, DetectTerminalBackend("unset"))
<1>1. p \in Names(store) \cup {NoProfile} /\ p \in Profiles \cup {NoProfile}
  BY ResolveFacts DEF Names
<1>2. token \in Tokens \cup {"none"}
  BY TokenOfProfileFacts, StoredTokenFacts
<1>3. backend \in Backends
  <2> HIDE DEF p
  <2> QED
    BY <1>1, BackendFacts
<1>4. s = [client |-> c, connected |-> FALSE, heartbeat |-> FALSE, timer |-> "none",
           attempts |-> 0, failures |-> 0, cooling |-> FALSE, userClose |-> FALSE,
           blocked |-> FALSE, token |-> token, profile |-> p, backend |-> backend]
  BY DEF StartState
<1> HIDE DEF s, p, token, backend
<1>5. s \in CliState
  BY <1>1, <1>2, <1>3, <1>4, CountersFacts DEF CliState
<1>6. s.profile = p /\ ~s.userClose
  BY <1>4
<1> QED
  BY <1>1, <1>5, <1>6 DEF s

-----------------------------------------------------------------------------
(* The steps *)

BootType == [stage : Stage, origin : Origin, token : Tokens \cup {"none"},
             candidate : Tokens \cup {"none"}]
CmdType == [kind : {"none", "token", "leave", "left"},
            client : Clients \cup {NoClient}, arg : {"none", "good", "bad", "exit", "use"}]
LinkState == {"down", "opening", "open"}

LEMMA TypeFacts ==
  ASSUME TuiInv
  PROVE  /\ state \in CliState /\ link \in [Clients -> LinkState]
         /\ boot \in [Clients -> BootType] /\ cmd \in CmdType /\ file \in Store
         /\ ActiveExists(file) /\ state.profile \in Names(file) \cup {NoProfile}
BY DEF TuiInv, TypeOK, LinkState, BootType, CmdType, ProfilesExist, ActiveExists

LEMMA NothingFacts == NoBoot \in BootType /\ NoCmd \in CmdType /\ NoCmd.kind = "none"
                      /\ NoBoot.stage = "none"
BY DEF NoBoot, NoCmd, BootType, CmdType, Stage, Origin

\* The parts of the invariant, of the next state.
LEMMA Assemble ==
  ASSUME state' \in CliState, link' \in [Clients -> LinkState], boot' \in [Clients -> BootType],
         cmd' \in CmdType, file' \in Store, ui' \in {"startup", "loop", "dead", "qa"},
         rejected' \in BOOLEAN, unscheduled' \in BOOLEAN,
         TimerInv', LeaveInv', CoverInv', RejectedTokenForgotten',
         ActiveExists(file'), state'.profile \in Names(file') \cup {NoProfile}
  PROVE  TuiInv'
BY DEF TuiInv, TypeOK, LinkState, BootType, CmdType, ProfilesExist, ActiveExists, Names

\* A step that treats the record mildly and leaves file and history alone.
LEMMA MildKeeps ==
  ASSUME TuiInv, Mild(state', state), UNCHANGED <<file, rejected>>,
         link' \in [Clients -> LinkState], boot' \in [Clients -> BootType],
         cmd' \in CmdType, ui' \in {"startup", "loop", "dead", "qa"}, unscheduled' \in BOOLEAN,
         LeaveInv', CoverInv'
  PROVE  TuiInv'
<1>1. state' \in CliState /\ TimerInv'
  BY DEF TuiInv, Mild, TimerInv
<1>2. RejectedTokenForgotten'
  BY DEF TuiInv, Mild, RejectedTokenForgotten
<1>3. ActiveExists(file') /\ state'.profile \in Names(file') \cup {NoProfile} /\ file' \in Store
  BY TypeFacts DEF Mild
<1> QED
  BY <1>1, <1>2, <1>3, Assemble DEF TuiInv, TypeOK

\* Any bootstrap's failure, with the token it used cleared or not.
LEMMA FailKeeps ==
  ASSUME TuiInv, NEW c \in Clients, NEW s, NEW authError \in BOOLEAN,
         s = state \/ s = [state EXCEPT !.token = "none"],
         FailBootstrap(c, s, authError), UNCHANGED <<cmd, file>>,
         rejected' \in BOOLEAN, rejected' => rejected \/ authError
  PROVE  TuiInv'
<1> DEFINE f == AfterFailure(s, authError)
           r == AfterRethrow(f, boot[c].origin, authError)
<1>1. Mild(s, state) /\ s.timer = state.timer /\ s.blocked = state.blocked
  BY TypeFacts DEF Mild, CliState
<1>2. boot[c].origin \in Origin /\ boot[c] \in BootType
  BY TypeFacts DEF BootType
<1>3. s \in CliState
  BY <1>1 DEF Mild
<1>4. /\ Mild(f, s) /\ f.timer = s.timer /\ (authError => f.blocked /\ f.token = "none")
      /\ s.blocked => f.blocked
  BY <1>3, AfterFailureFacts
<1> HIDE DEF f
<1>5. f \in CliState
  BY <1>4 DEF Mild
<1>6. /\ Mild(r, f) /\ (f.blocked => r.blocked)
      /\ boot[c].origin \in {"timer", "manual"} /\ ~r.userClose /\ ~r.blocked => r.timer # "none"
  BY <1>2, <1>4, <1>5, AfterRethrowFacts
<1>7. state' = r
  BY DEF FailBootstrap, f
<1> HIDE DEF r
<1>8. Mild(state', state)
  BY <1>1, <1>4, <1>6, <1>7 DEF Mild
<1>9. /\ link' = [link EXCEPT ![c] = "down"] /\ boot' = [boot EXCEPT ![c] = NoBoot]
      /\ ui' \in {ui, "loop"} /\ unscheduled' \in BOOLEAN
      /\ (boot[c].origin \in {"startup", "token"} => unscheduled')
  <2>1. unscheduled' = (boot[c].origin \in {"startup", "token"})
    BY DEF FailBootstrap
  <2>2. CASE boot[c].origin \in {"startup", "token"}
    <3>1. unscheduled' = TRUE
      BY <2>1, <2>2
    <3> QED
      BY <3>1 DEF FailBootstrap
  <2>3. CASE ~(boot[c].origin \in {"startup", "token"})
    <3>0. (boot[c].origin \in {"startup", "token"}) = FALSE
      BY <2>3
    <3>1. unscheduled' = FALSE
      BY <2>1, <3>0, Zenon
    <3> QED
      BY <2>3, <3>1 DEF FailBootstrap
  <2> QED
    BY <2>2, <2>3
<1>10. link' \in [Clients -> LinkState] /\ boot' \in [Clients -> BootType]
  BY <1>9, TypeFacts, NothingFacts DEF LinkState
<1>11. TimerInv' /\ LeaveInv'
  BY <1>8 DEF TuiInv, Mild, TimerInv, LeaveInv
<1>12. CoverInv'
  BY <1>2, <1>6, <1>7, <1>9 DEF CoverInv, Covered, Origin
<1>13. RejectedTokenForgotten'
  BY <1>4, <1>6, <1>7, <1>8 DEF TuiInv, Mild, RejectedTokenForgotten
<1>14. ActiveExists(file') /\ state'.profile \in Names(file') \cup {NoProfile} /\ file' \in Store
  BY <1>8, TypeFacts DEF Mild
<1>15. state' \in CliState /\ cmd' \in CmdType
  BY <1>8, TypeFacts DEF Mild
<1> QED
  BY <1>9, <1>10, <1>11, <1>12, <1>13, <1>14, <1>15, Assemble DEF TuiInv, TypeOK

\* The end of a bootstrap, whose socket may be gone already.
LEMMA FinishedKeeps ==
  ASSUME TuiInv, NEW c \in Clients, ui \in {"startup", "loop"}, boot[c].stage = "listing",
         state' = [state EXCEPT !.heartbeat = @ \/ state.client # NoClient],
         boot' = [boot EXCEPT ![c] = NoBoot], ui' \in {ui, "loop"},
         file' \in {file, SetProfileToken(file, state.profile, boot[c].candidate)},
         UNCHANGED <<link, cmd, rejected, unscheduled>>
  PROVE  TuiInv'
<1>1. /\ state \in CliState /\ link \in [Clients -> LinkState] /\ boot \in [Clients -> BootType]
      /\ cmd \in CmdType /\ file \in Store /\ ActiveExists(file)
      /\ state.profile \in Names(file) \cup {NoProfile} /\ boot[c] \in BootType
      /\ boot[c].candidate \in Tokens \cup {"none"}
  BY TypeFacts DEF BootType
<1>2. Mild(state', state) /\ state'.timer = state.timer /\ state'.blocked = state.blocked
      /\ state'.token = state.token
  <2>1. PICK h \in BOOLEAN : state' = [state EXCEPT !.heartbeat = h]
    <3>1. (state.heartbeat \/ state.client # NoClient) \in BOOLEAN
      BY <1>1 DEF CliState
    <3> QED
      BY <3>1
  <2> QED
    BY <1>1, <2>1 DEF Mild, CliState
<1>3. /\ boot' = [boot EXCEPT ![c] = NoBoot] /\ ui' \in {ui, "loop"}
      /\ file' \in {file, SetProfileToken(file, state.profile, boot[c].candidate)}
  OBVIOUS
<1>4. file' \in Store /\ ActiveExists(file') /\ Names(file') = Names(file)
  BY <1>1, <1>3, SetTokenFacts
<1>5. boot' \in [Clients -> BootType]
  BY <1>1, <1>3, NothingFacts
<1>6. TimerInv' /\ LeaveInv' /\ RejectedTokenForgotten'
  BY <1>2 DEF TuiInv, Mild, TimerInv, LeaveInv, RejectedTokenForgotten
<1>7. CoverInv'
  <2> SUFFICES ASSUME ui' \in {"startup", "loop"}, ~state'.userClose, ~state'.blocked, ~unscheduled'
               PROVE  Covered'
    BY DEF CoverInv
  <2>2. Covered
    BY <1>2 DEF TuiInv, CoverInv, Mild
  <2>3. CASE state.timer # "none"
    BY <1>2, <2>3 DEF Covered
  <2>4. ASSUME NEW d \in Clients, link[d] = "open" PROVE Covered'
    BY <2>4 DEF Covered
  <2>5. ASSUME NEW d \in Clients, boot[d].stage \in Waiting PROVE Covered'
    <3>1. d # c
      BY <2>5 DEF Waiting
    <3>2. boot'[d].stage \in Waiting
      BY <1>1, <1>3, <2>5, <3>1
    <3> QED
      BY <3>2 DEF Covered
  <2> QED
    BY <2>2, <2>3, <2>4, <2>5 DEF Covered
<1>8. state' \in CliState /\ state'.profile \in Names(file') \cup {NoProfile}
  BY <1>1, <1>2, <1>4 DEF Mild
<1> QED
  BY <1>1, <1>3, <1>4, <1>5, <1>6, <1>7, <1>8, Assemble DEF TuiInv, TypeOK

LEMMA FinishKeeps ==
  ASSUME TuiInv, NEW c \in Clients, ui \in {"startup", "loop"},
         boot[c].stage = "listing", FinishBootstrap(c), UNCHANGED <<cmd, rejected>>
  PROVE  TuiInv'
<1>1. CASE FailBootstrap(c, state, FALSE) /\ UNCHANGED file
  <2>1. rejected' \in BOOLEAN
    BY DEF TuiInv, TypeOK
  <2> QED
    BY <1>1, <2>1, FailKeeps
<1>2. ASSUME ~(FailBootstrap(c, state, FALSE) /\ UNCHANGED file)
      PROVE  TuiInv'
  <2>1. /\ state' = [state EXCEPT !.heartbeat = @ \/ state.client # NoClient]
        /\ boot' = [boot EXCEPT ![c] = NoBoot] /\ ui' \in {ui, "loop"}
        /\ file' \in {file, SetProfileToken(file, state.profile, boot[c].candidate)}
        /\ UNCHANGED <<link, unscheduled>>
    BY <1>2 DEF FinishBootstrap
  <2> QED
    BY <2>1, FinishedKeeps
<1> QED
  BY <1>1, <1>2

\* A bootstrap that starts is itself what will retry, whatever came before.
LEMMA BootstrapKeeps ==
  ASSUME TuiInv, NEW s \in CliState, NEW origin \in Origin, Bootstrap(s, origin),
         cmd' \in CmdType, cmd'.kind \notin {"leave", "left"},
         file' \in Store, ActiveExists(file'), s.profile \in Names(file') \cup {NoProfile},
         ui' \in {"startup", "loop", "dead", "qa"},
         rejected' \in BOOLEAN, rejected' => s.token # "bad"
  PROVE  TuiInv'
<1> DEFINE entry == [stage |-> "connecting", origin |-> origin, token |-> "none",
                     candidate |-> IF origin = "token" THEN s.token ELSE "none"]
<1>1. PICK c \in Clients :
        /\ state' = [s EXCEPT !.userClose = FALSE, !.client = c]
        /\ link' = [link EXCEPT ![c] = "opening"]
        /\ boot' = [boot EXCEPT ![c] = entry]
        /\ unscheduled' = FALSE
  BY DEF Bootstrap, Free
<1>2. entry \in BootType /\ entry.stage \in Waiting
  BY DEF BootType, Stage, CliState, Waiting
<1> HIDE DEF entry
<1>3. link' \in [Clients -> LinkState] /\ boot' \in [Clients -> BootType] /\ boot'[c] = entry
  BY <1>1, <1>2, TypeFacts DEF LinkState
<1>4. state' \in CliState /\ state'.profile = s.profile /\ state'.token = s.token /\ ~state'.userClose
  BY <1>1 DEF CliState
<1>5. TimerInv' /\ LeaveInv'
  BY <1>4 DEF TimerInv, LeaveInv
<1>6. CoverInv'
  BY <1>2, <1>3 DEF CoverInv, Covered
<1>7. RejectedTokenForgotten'
  BY <1>4 DEF RejectedTokenForgotten
<1>8. state'.profile \in Names(file') \cup {NoProfile} /\ unscheduled' \in BOOLEAN
  BY <1>1, <1>4
<1> QED
  BY <1>3, <1>4, <1>5, <1>6, <1>7, <1>8, Assemble

\* reconnectNow starts from the same record with its counters reset.
LEMMA ReconnectKeeps ==
  ASSUME TuiInv, NEW s \in CliState, ReconnectNow(s),
         cmd' \in CmdType, cmd'.kind \notin {"leave", "left"},
         file' \in Store, ActiveExists(file'), s.profile \in Names(file') \cup {NoProfile},
         ui' \in {"startup", "loop", "dead", "qa"},
         rejected' \in BOOLEAN, rejected' => s.token # "bad"
  PROVE  TuiInv'
<1> DEFINE r == [s EXCEPT !.timer = "none", !.blocked = FALSE, !.failures = 0,
                          !.attempts = 0, !.cooling = FALSE]
<1>1. r \in CliState /\ r.profile = s.profile /\ r.token = s.token
  BY CountersFacts DEF CliState
<1>2. Bootstrap(r, "manual") /\ "manual" \in Origin
  BY DEF ReconnectNow, Origin
<1> HIDE DEF r
<1> QED
  BY <1>1, <1>2, BootstrapKeeps

\* A process that ends leaves nothing that could retry, and nobody to.
LEMMA EndsKeeps ==
  ASSUME TuiInv, ProcessEnds, state' \in CliState, state'.profile = state.profile,
         state'.token = state.token, TimerInv', UNCHANGED <<file, rejected>>
  PROVE  TuiInv'
<1>1. /\ link' = [c \in Clients |-> "down"] /\ boot' = [c \in Clients |-> NoBoot]
      /\ ui' = "dead" /\ cmd' = NoCmd /\ unscheduled' = unscheduled
  BY DEF ProcessEnds
<1>2. link' \in [Clients -> LinkState] /\ boot' \in [Clients -> BootType] /\ cmd' \in CmdType
  BY <1>1, NothingFacts DEF LinkState
<1>3. LeaveInv' /\ CoverInv'
  BY <1>1, NothingFacts DEF LeaveInv, CoverInv
<1>4. RejectedTokenForgotten' /\ rejected' \in BOOLEAN /\ unscheduled' \in BOOLEAN
  BY <1>1 DEF TuiInv, TypeOK, RejectedTokenForgotten
<1>5. ActiveExists(file') /\ state'.profile \in Names(file') \cup {NoProfile} /\ file' \in Store
  BY TypeFacts
<1> QED
  BY <1>1, <1>2, <1>3, <1>4, <1>5, Assemble

\* A step that keeps every socket and bootstrap, and the reasons to stop, keeps
\* the cover if it keeps the timer.
LEMMA CoverKept ==
  ASSUME TuiInv, UNCHANGED <<link, boot, unscheduled>>,
         ui' = ui,
         state'.userClose = state.userClose \/ state'.userClose,
         state.blocked => state'.blocked,
         state'.timer = state.timer \/ state'.timer # "none" \/ state'.userClose
  PROVE  CoverInv'
<1> SUFFICES ASSUME ui' \in {"startup", "loop"}, ~state'.userClose, ~state'.blocked, ~unscheduled'
             PROVE  Covered'
  BY DEF CoverInv
<1>1. Covered
  BY DEF TuiInv, CoverInv
<1>2. CASE state.timer # "none"
  BY <1>2 DEF Covered
<1>3. CASE state.timer = "none"
  BY <1>1, <1>3 DEF Covered
<1> QED
  BY <1>2, <1>3

LEMMA HelloStep ==
  ASSUME TuiInv, NEW c \in Clients, NEW requiresAuth \in BOOLEAN, Hello(c, requiresAuth)
  PROVE  TuiInv'
<1>1. /\ link' = [link EXCEPT ![c] = "open"] /\ boot[c].stage = "connecting"
      /\ UNCHANGED <<cmd, file, ui, rejected, unscheduled>>
  BY DEF Hello
<1>2. link' \in [Clients -> LinkState] /\ link'[c] = "open"
  BY <1>1, TypeFacts DEF LinkState
<1>3. CoverInv'
  BY <1>2 DEF CoverInv, Covered
<1>4. Mild(state', state)
  <2>1. CASE ~requiresAuth
    <3>1. state' = [state EXCEPT !.connected = TRUE, !.blocked = FALSE, !.attempts = 0,
                                 !.failures = 0, !.cooling = FALSE]
      BY <2>1 DEF Hello
    <3> QED
      BY <3>1, TypeFacts, CountersFacts DEF Mild, CliState
  <2>2. CASE requiresAuth
    <3>1. state' = [state EXCEPT !.connected = TRUE]
      BY <2>2 DEF Hello
    <3> QED
      BY <3>1, TypeFacts DEF Mild, CliState
  <2> QED
    BY <2>1, <2>2
<1>5. boot' \in [Clients -> BootType]
  <2>1. PICK g \in {"listing", "prompt", "auth"}, t \in Tokens \cup {"none"} :
          boot' = [boot EXCEPT ![c].stage = g, ![c].token = t]
    <3>1. state.token \in Tokens \cup {"none"}
      BY TypeFacts DEF CliState
    <3> QED
      BY <3>1 DEF Hello
  <2>2. boot' = [boot EXCEPT ![c] = [boot[c] EXCEPT !.stage = g, !.token = t]]
    BY <2>1, TypeFacts
  <2>3. [boot[c] EXCEPT !.stage = g, !.token = t] \in BootType
    BY TypeFacts DEF BootType, Stage
  <2> QED
    BY <2>2, <2>3, TypeFacts
<1>6. LeaveInv'
  BY <1>1, <1>4 DEF TuiInv, LeaveInv, Mild
<1> QED
  BY <1>1, <1>2, <1>3, <1>4, <1>5, <1>6, TypeFacts, MildKeeps DEF TuiInv, TypeOK

LEMMA CloseStep ==
  ASSUME TuiInv, NEW c \in Clients, NEW authClose \in BOOLEAN, Close(c, authClose)
  PROVE  TuiInv'
<1>1. /\ state' = OnClose(state, authClose) /\ link' = [link EXCEPT ![c] = "down"]
      /\ UNCHANGED <<cmd, file, ui, rejected, unscheduled>>
  BY DEF Close
<1>2. Mild(state', state) /\ (~state'.userClose /\ ~state'.blocked => state'.timer # "none")
  BY <1>1, TypeFacts, OnCloseFacts
<1>3. CoverInv'
  BY <1>2 DEF CoverInv, Covered
<1>4. link' \in [Clients -> LinkState]
  BY <1>1, TypeFacts DEF LinkState
<1>5. boot' \in [Clients -> BootType]
  <2>1. CASE boot' = boot
    BY <2>1, TypeFacts
  <2>2. CASE boot' = [boot EXCEPT ![c].stage = "rejected"]
    <3>1. boot' = [boot EXCEPT ![c] = [boot[c] EXCEPT !.stage = "rejected"]]
      BY <2>2, TypeFacts
    <3>2. [boot[c] EXCEPT !.stage = "rejected"] \in BootType
      BY TypeFacts DEF BootType, Stage
    <3> QED
      BY <3>1, <3>2, TypeFacts
  <2> QED
    BY <2>1, <2>2 DEF Close
<1>6. LeaveInv'
  BY <1>1, <1>2 DEF TuiInv, LeaveInv, Mild
<1> QED
  BY <1>1, <1>2, <1>3, <1>4, <1>5, <1>6, TypeFacts, MildKeeps DEF TuiInv, TypeOK

LEMMA AuthStep ==
  ASSUME TuiInv, NEW c \in Clients, NEW answer, AuthAnswer(c, answer)
  PROVE  TuiInv'
<1>0. link[c] = "open" /\ UNCHANGED <<cmd, file>> /\ rejected \in BOOLEAN
  BY DEF AuthAnswer, TuiInv, TypeOK
<1>1. CASE Authenticated(c, "good") /\ UNCHANGED <<link, ui, rejected, unscheduled>>
  <2>1. /\ state' = [state EXCEPT !.token = "good", !.blocked = FALSE, !.attempts = 0,
                                  !.failures = 0, !.cooling = FALSE]
        /\ boot' = [boot EXCEPT ![c].stage = "listing", ![c].token = "none"]
    BY <1>1 DEF Authenticated
  <2>2. /\ state' \in CliState /\ state'.profile = state.profile /\ state'.token = "good"
        /\ state'.userClose = state.userClose /\ state'.timer = state.timer
    BY <2>1, TypeFacts, CountersFacts DEF CliState, Tokens
  <2>3. boot' \in [Clients -> BootType]
    <3>1. boot' = [boot EXCEPT ![c] = [boot[c] EXCEPT !.stage = "listing", !.token = "none"]]
      BY <2>1, TypeFacts
    <3>2. [boot[c] EXCEPT !.stage = "listing", !.token = "none"] \in BootType
      BY TypeFacts DEF BootType, Stage
    <3> QED
      BY <3>1, <3>2, TypeFacts
  <2>4. TimerInv' /\ LeaveInv' /\ RejectedTokenForgotten'
    BY <1>0, <2>2 DEF TuiInv, TimerInv, LeaveInv, RejectedTokenForgotten
  <2>5. CoverInv'
    BY <1>0, <1>1 DEF CoverInv, Covered
  <2> QED
    BY <1>0, <1>1, <2>2, <2>3, <2>4, <2>5, TypeFacts, Assemble DEF TuiInv, TypeOK
<1>2. CASE rejected' = TRUE /\ FailBootstrap(c, state, TRUE)
  BY <1>0, <1>2, FailKeeps
<1>3. CASE FailBootstrap(c, [state EXCEPT !.token = "none"], FALSE) /\ UNCHANGED rejected
  BY <1>0, <1>3, FailKeeps
<1> QED
  BY <1>1, <1>2, <1>3 DEF AuthAnswer

LEMMA SettleBootStep ==
  ASSUME TuiInv, NEW c \in Clients, SettleBoot(c)
  PROVE  TuiInv'
<1>0. ui \in {"startup", "loop"} /\ UNCHANGED <<cmd, rejected>> /\ rejected \in BOOLEAN
  BY DEF SettleBoot, TuiInv, TypeOK
<1>1. CASE FailBootstrap(c, state, FALSE) /\ UNCHANGED file
  BY <1>0, <1>1, FailKeeps
<1>2. CASE FailBootstrap(c, [state EXCEPT !.token = "none"], FALSE) /\ UNCHANGED file
  BY <1>0, <1>2, FailKeeps
<1>3. CASE boot[c].stage = "listing" /\ FinishBootstrap(c)
  BY <1>0, <1>3, FinishKeeps
<1> QED
  BY <1>1, <1>2, <1>3 DEF SettleBoot

LEMMA ConnectFailsStep ==
  ASSUME TuiInv, NEW c \in Clients, ConnectFails(c)
  PROVE  TuiInv'
<1>0. UNCHANGED <<file, rejected>> /\ rejected \in BOOLEAN
  BY DEF ConnectFails, TuiInv, TypeOK
<1>1. CASE FailBootstrap(c, state, FALSE) /\ UNCHANGED cmd
  BY <1>0, <1>1, FailKeeps
<1>2. CASE ProcessEnds /\ UNCHANGED state
  <2>1. TimerInv'
    BY <1>2 DEF TuiInv, TimerInv, ProcessEnds
  <2> QED
    BY <1>0, <1>2, <2>1, TypeFacts, EndsKeeps
<1> QED
  BY <1>1, <1>2 DEF ConnectFails

LEMMA ListedStep ==
  ASSUME TuiInv, NEW c \in Clients, Listed(c)
  PROVE  TuiInv'
<1>1. /\ ui \in {"startup", "loop"} /\ boot[c].stage = "listing" /\ FinishBootstrap(c)
      /\ UNCHANGED <<cmd, rejected>>
  BY DEF Listed, Quiet
<1> QED
  BY <1>1, FinishKeeps

LEMMA PromptStep ==
  ASSUME TuiInv, NEW c \in Clients, NEW t \in Tokens \cup {"none"}, PromptAnswered(c, t)
  PROVE  TuiInv'
<1>0. UNCHANGED <<cmd, file>> /\ rejected \in BOOLEAN
  BY DEF PromptAnswered, TuiInv, TypeOK
<1>1. rejected' \in BOOLEAN /\ (rejected' => rejected)
  <2>1. rejected' = (rejected /\ t # "bad")
    BY DEF PromptAnswered
  <2> QED
    BY <1>0, <2>1
<1>2. CASE t = "none"
  <2>1. FailBootstrap(c, state, FALSE)
    BY <1>2 DEF PromptAnswered
  <2> QED
    BY <1>0, <1>1, <2>1, FailKeeps
<1>3. CASE t # "none"
  <2>1. /\ boot' = [boot EXCEPT ![c].stage = "auth", ![c].token = t] /\ boot[c].stage = "prompt"
        /\ UNCHANGED <<state, link, ui, unscheduled>>
    BY <1>3 DEF PromptAnswered
  <2>2. boot' \in [Clients -> BootType] /\ boot'[c].stage = "auth"
    <3>1. boot' = [boot EXCEPT ![c] = [boot[c] EXCEPT !.stage = "auth", !.token = t]]
      BY <2>1, TypeFacts
    <3>2. [boot[c] EXCEPT !.stage = "auth", !.token = t] \in BootType
          /\ [boot[c] EXCEPT !.stage = "auth", !.token = t].stage = "auth"
      BY TypeFacts DEF BootType, Stage
    <3> QED
      BY <3>1, <3>2, TypeFacts
  <2>3. CoverInv'
    BY <2>2 DEF CoverInv, Covered, Waiting
  <2>4. TimerInv' /\ LeaveInv' /\ RejectedTokenForgotten'
    BY <1>0, <1>1, <2>1 DEF TuiInv, TimerInv, LeaveInv, RejectedTokenForgotten
  <2> QED
    BY <1>0, <1>1, <2>1, <2>2, <2>3, <2>4, TypeFacts, Assemble DEF TuiInv, TypeOK
<1> QED
  BY <1>2, <1>3

LEMMA CmdAnswerStep ==
  ASSUME TuiInv, NEW ok \in BOOLEAN, CmdAnswer(ok)
  PROVE  TuiInv'
<1>0. UNCHANGED <<boot, ui, unscheduled>> /\ cmd.client # NoClient /\ rejected \in BOOLEAN
  BY DEF CmdAnswer, TuiInv, TypeOK
<1>1. CASE cmd.kind = "token"
  <2>1. /\ state' = IF ok THEN [state EXCEPT !.token = "good"]
                    ELSE [state EXCEPT !.blocked = TRUE, !.token = "none"]
        /\ file' = IF ok THEN SetProfileToken(file, state.profile, "good") ELSE file
        /\ rejected' = (rejected \/ ~ok)
        /\ cmd' = NoCmd /\ UNCHANGED link
    BY <1>1 DEF CmdAnswer
  <2>2. /\ state' \in CliState /\ state'.profile = state.profile /\ state'.token # "bad"
        /\ state'.userClose = state.userClose /\ state'.timer = state.timer
        /\ (state.blocked => state'.blocked)
    BY <2>1, TypeFacts DEF CliState, Tokens
  <2>3. rejected' \in BOOLEAN
    BY <1>0, <2>1
  <2>4. file' \in Store /\ ActiveExists(file') /\ Names(file') = Names(file)
    BY <2>1, TypeFacts, SetTokenFacts DEF Tokens
  <2>5. CoverInv'
    BY <1>0, <2>1, <2>2, CoverKept
  <2>6. TimerInv' /\ LeaveInv' /\ RejectedTokenForgotten'
    BY <2>1, <2>2, NothingFacts DEF TuiInv, TimerInv, LeaveInv, RejectedTokenForgotten
  <2> QED
    BY <1>0, <2>1, <2>2, <2>3, <2>4, <2>5, <2>6, TypeFacts, NothingFacts, Assemble
       DEF TuiInv, TypeOK
<1>2. CASE cmd.kind = "leave"
  <2>1. /\ link' = [link EXCEPT ![cmd.client] = "down"]
        /\ cmd' = IF ok THEN [cmd EXCEPT !.kind = "left"] ELSE cmd
        /\ UNCHANGED <<state, file, rejected>>
    BY <1>2 DEF CmdAnswer
  <2>2. state.userClose
    BY <1>2 DEF TuiInv, LeaveInv
  <2>3. link' \in [Clients -> LinkState] /\ cmd' \in CmdType
    BY <1>0, <2>1, TypeFacts DEF LinkState, CmdType
  <2>4. LeaveInv' /\ CoverInv' /\ Mild(state', state)
    BY <2>1, <2>2, TypeFacts DEF LeaveInv, CoverInv, Mild
  <2> QED
    BY <1>0, <2>1, <2>3, <2>4, TypeFacts, MildKeeps DEF TuiInv, TypeOK
<1> QED
  BY <1>1, <1>2 DEF CmdAnswer

LEMMA SettleCmdStep ==
  ASSUME TuiInv, SettleCmd
  PROVE  TuiInv'
<1>0. UNCHANGED <<file, rejected>> /\ ui = "loop" /\ rejected \in BOOLEAN
  BY DEF SettleCmd, TuiInv, TypeOK
<1>1. CASE cmd.kind = "token"
  <2>1. /\ state' = [state EXCEPT !.token = "none"] /\ cmd' = NoCmd
        /\ UNCHANGED <<link, boot, ui, unscheduled>>
    BY <1>1 DEF SettleCmd
  <2>2. Mild(state', state) /\ state'.timer = state.timer /\ state'.blocked = state.blocked
    BY <2>1, TypeFacts DEF Mild, CliState
  <2>3. LeaveInv' /\ CoverInv'
    BY <2>1, <2>2, NothingFacts, CoverKept DEF LeaveInv, Mild
  <2> QED
    BY <1>0, <2>1, <2>2, <2>3, TypeFacts, NothingFacts, MildKeeps DEF TuiInv, TypeOK
<1>2. CASE cmd.kind = "leave"
  <2>1. state' = state /\ state.userClose
    BY <1>2 DEF SettleCmd, TuiInv, LeaveInv
  <2>2. CASE state.client = NoClient
    <3>1. ProcessEnds
      BY <1>2, <2>2 DEF SettleCmd
    <3> QED
      BY <1>0, <2>1, <3>1, TypeFacts, EndsKeeps DEF TuiInv, TimerInv
  <2>3. CASE state.client # NoClient
    <3>1. cmd' = [cmd EXCEPT !.kind = "left"] /\ UNCHANGED <<link, boot, ui, unscheduled>>
      BY <1>2, <2>3 DEF SettleCmd
    <3>2. cmd' \in CmdType
      BY <3>1, TypeFacts DEF CmdType
    <3>3. LeaveInv' /\ CoverInv' /\ Mild(state', state)
      BY <2>1, TypeFacts DEF LeaveInv, CoverInv, Mild
    <3> QED
      BY <1>0, <2>1, <3>1, <3>2, <3>3, TypeFacts, MildKeeps DEF TuiInv, TypeOK
  <2> QED
    BY <2>2, <2>3
<1>3. CASE cmd.kind = "left" /\ cmd.arg = "exit"
  <2>1. state' = [state EXCEPT !.client = NoClient] /\ ProcessEnds
    BY <1>3 DEF SettleCmd, Dropped
  <2>2. /\ state' \in CliState /\ state'.profile = state.profile /\ state'.token = state.token
        /\ TimerInv'
    BY <2>1, TypeFacts DEF CliState, TuiInv, TimerInv
  <2> QED
    BY <1>0, <2>1, <2>2, EndsKeeps
<1>4. CASE cmd.kind = "left" /\ cmd.arg = "use"
  <2> DEFINE s == [state EXCEPT !.client = NoClient, !.userClose = FALSE]
  <2>1. cmd' = NoCmd /\ UNCHANGED ui
    BY <1>4 DEF SettleCmd
  <2>2. CASE s.connected
    <3>1. state' = s /\ unscheduled' = TRUE /\ UNCHANGED <<link, boot>>
      BY <1>4, <2>2 DEF SettleCmd, Dropped
    <3>2. /\ state' \in CliState /\ state'.profile = state.profile /\ state'.token = state.token
          /\ ~state'.userClose
      BY <3>1, TypeFacts DEF CliState
    <3>3. TimerInv' /\ LeaveInv' /\ CoverInv' /\ RejectedTokenForgotten'
      BY <1>0, <2>1, <3>1, <3>2, NothingFacts
         DEF TuiInv, TimerInv, LeaveInv, CoverInv, RejectedTokenForgotten
    <3> QED
      BY <1>0, <2>1, <3>1, <3>2, <3>3, TypeFacts, NothingFacts, Assemble DEF TuiInv, TypeOK
  <2>3. CASE ~s.connected
    <3>1. ReconnectNow(s)
      BY <1>4, <2>3 DEF SettleCmd, Dropped
    <3>2. s \in CliState /\ s.profile = state.profile /\ s.token = state.token
      BY TypeFacts DEF CliState
    <3> HIDE DEF s
    <3>3. s.profile \in Names(file') \cup {NoProfile} /\ (rejected' => s.token # "bad")
      BY <1>0, <3>2, TypeFacts DEF TuiInv, RejectedTokenForgotten
    <3> QED
      BY <1>0, <2>1, <3>1, <3>2, <3>3, TypeFacts, NothingFacts, ReconnectKeeps DEF TuiInv, TypeOK
  <2> QED
    BY <2>2, <2>3
<1> QED
  BY <1>1, <1>2, <1>3, <1>4 DEF SettleCmd

LEMMA RetryStep ==
  ASSUME TuiInv, RetryFires
  PROVE  TuiInv'
<1> DEFINE s == [state EXCEPT !.client = NoClient, !.timer = "none", !.heartbeat = FALSE]
<1>1. Bootstrap(s, "timer") /\ UNCHANGED <<cmd, file, ui, rejected>> /\ state.timer = "retry"
  BY DEF RetryFires, Dropped
<1>2. s \in CliState /\ s.profile = state.profile /\ s.token = state.token /\ "timer" \in Origin
  BY TypeFacts DEF CliState, Origin
<1> HIDE DEF s
<1>3. cmd.kind \notin {"leave", "left"}
  BY <1>1 DEF TuiInv, LeaveInv, TimerInv
<1>4. s.profile \in Names(file') \cup {NoProfile} /\ (rejected' => s.token # "bad")
  BY <1>1, <1>2, TypeFacts DEF TuiInv, RejectedTokenForgotten
<1> QED
  BY <1>1, <1>2, <1>3, <1>4, TypeFacts, BootstrapKeeps DEF TuiInv, TypeOK

LEMMA CooldownPassesStep ==
  ASSUME TuiInv, CooldownPasses
  PROVE  TuiInv'
<1>1. /\ state' = [state EXCEPT !.cooling = FALSE]
      /\ UNCHANGED <<link, boot, cmd, file, ui, rejected, unscheduled>>
  BY DEF CooldownPasses
<1>2. Mild(state', state) /\ state'.timer = state.timer /\ state'.blocked = state.blocked
  BY <1>1, TypeFacts DEF Mild, CliState
<1>3. LeaveInv' /\ CoverInv'
  BY <1>1, <1>2, CoverKept DEF TuiInv, LeaveInv, Mild
<1> QED
  BY <1>1, <1>2, <1>3, TypeFacts, MildKeeps DEF TuiInv, TypeOK

LEMMA CooldownFiresStep ==
  ASSUME TuiInv, CooldownFires
  PROVE  TuiInv'
<1> DEFINE s == [state EXCEPT !.timer = "none"]
<1>1. /\ state' = ScheduleReconnect(s) /\ state.timer = "cooldown"
      /\ UNCHANGED <<link, boot, cmd, file, ui, rejected, unscheduled>>
  BY DEF CooldownFires
<1>2. Mild(s, state) /\ s.blocked = state.blocked /\ ~state.userClose
  BY <1>1, TypeFacts DEF Mild, CliState, TuiInv, TimerInv
<1> HIDE DEF s
<1>3. Mild(state', s) /\ state'.timer # "none" /\ state'.blocked = s.blocked
  BY <1>1, <1>2, ScheduleFacts DEF Mild
<1>4. Mild(state', state)
  BY <1>2, <1>3 DEF Mild
<1>5. LeaveInv' /\ CoverInv'
  BY <1>1, <1>2, <1>3, <1>4, CoverKept DEF TuiInv, LeaveInv, Mild
<1> QED
  BY <1>1, <1>4, <1>5, TypeFacts, MildKeeps DEF TuiInv, TypeOK

\* While the user is prompted, the session and the command are at rest.
LEMMA PromptingFacts ==
  ASSUME Prompting
  PROVE  ui = "loop" /\ cmd = NoCmd
BY DEF Prompting

LEMMA TokenStep ==
  ASSUME TuiInv, NEW t \in Tokens, TokenCommand(t)
  PROVE  TuiInv'
<1>0. UNCHANGED <<file, ui>> /\ cmd = NoCmd /\ rejected \in BOOLEAN
  BY PromptingFacts DEF TokenCommand, TuiInv, TypeOK
<1>1. rejected' \in BOOLEAN /\ (rejected' => rejected) /\ (rejected' => t # "bad")
  <2>1. rejected' = (rejected /\ t # "bad")
    BY DEF TokenCommand
  <2> QED
    BY <1>0, <2>1
<1>2. CASE state.client = NoClient
  <2> DEFINE s == [state EXCEPT !.token = t, !.blocked = FALSE]
  <2>1. Bootstrap(s, "token") /\ UNCHANGED cmd
    BY <1>2 DEF TokenCommand
  <2>2. s \in CliState /\ s.profile = state.profile /\ s.token = t /\ "token" \in Origin
    BY TypeFacts DEF CliState, Origin
  <2> HIDE DEF s
  <2>3. s.profile \in Names(file') \cup {NoProfile} /\ (rejected' => s.token # "bad")
    BY <1>0, <1>1, <2>2, TypeFacts
  <2> QED
    BY <1>0, <1>1, <2>1, <2>2, <2>3, TypeFacts, NothingFacts, BootstrapKeeps DEF TuiInv, TypeOK
<1>3. CASE state.client # NoClient
  <2>1. /\ UNCHANGED <<link, boot, unscheduled>>
        /\ \/ cmd' = [kind |-> "token", client |-> state.client, arg |-> t] /\ UNCHANGED state
           \/ state' = [state EXCEPT !.token = "none"] /\ UNCHANGED cmd
    BY <1>3 DEF TokenCommand
  <2>2. Mild(state', state) /\ state'.timer = state.timer /\ state'.blocked = state.blocked
    BY <2>1, TypeFacts DEF Mild, CliState
  <2>3. cmd' \in CmdType /\ cmd'.kind \in {"none", "token"}
    BY <1>0, <2>1, TypeFacts, NothingFacts DEF CmdType, CliState, Tokens
  <2>4. LeaveInv' /\ CoverInv'
    BY <1>0, <2>1, <2>2, <2>3, CoverKept DEF LeaveInv, Mild
  <2>5. TimerInv' /\ RejectedTokenForgotten' /\ state' \in CliState /\ state'.profile = state.profile
    BY <1>1, <2>2 DEF TuiInv, TimerInv, RejectedTokenForgotten, Mild
  <2> QED
    BY <1>0, <1>1, <2>1, <2>3, <2>4, <2>5, TypeFacts, Assemble DEF TuiInv, TypeOK
<1> QED
  BY <1>2, <1>3

LEMMA ReconnectStep ==
  ASSUME TuiInv, ReconnectCommand
  PROVE  TuiInv'
<1>1. ReconnectNow(state) /\ UNCHANGED <<cmd, file, ui, rejected>> /\ cmd = NoCmd
  BY PromptingFacts DEF ReconnectCommand
<1>2. rejected' => state.token # "bad"
  BY <1>1 DEF TuiInv, RejectedTokenForgotten
<1> QED
  BY <1>1, <1>2, TypeFacts, NothingFacts, ReconnectKeeps DEF TuiInv, TypeOK

\* Leaving: the timer is cleared with the flag that keeps it cleared.
LEMMA LeavingFacts ==
  ASSUME NEW s \in CliState
  PROVE  /\ Leaving(s) \in CliState /\ Leaving(s).userClose /\ Leaving(s).timer = "none"
         /\ Leaving(s).profile = s.profile /\ Leaving(s).token = s.token
BY DEF Leaving, CliState

LEMMA LeaveKeeps ==
  ASSUME TuiInv, NEW s \in CliState, NEW next \in {"exit", "use"}, s.client \in Clients,
         Leave(s, next), file' \in Store, ActiveExists(file'),
         s.profile \in Names(file') \cup {NoProfile},
         rejected' \in BOOLEAN, rejected' => s.token # "bad"
  PROVE  TuiInv'
<1>1. /\ state' = Leaving(s)
      /\ \/ /\ cmd' = [kind |-> "leave", client |-> s.client, arg |-> next]
            /\ UNCHANGED <<link, boot, ui, unscheduled>>
         \/ ProcessEnds
  BY DEF Leave
<1>2. /\ state' \in CliState /\ state'.userClose /\ state'.timer = "none"
      /\ state'.profile = s.profile /\ state'.token = s.token
  BY <1>1, LeavingFacts
<1>3. TimerInv' /\ LeaveInv' /\ CoverInv' /\ RejectedTokenForgotten'
  BY <1>2 DEF TimerInv, LeaveInv, CoverInv, RejectedTokenForgotten
<1>4. /\ link' \in [Clients -> LinkState] /\ boot' \in [Clients -> BootType]
      /\ cmd' \in CmdType /\ ui' \in {"startup", "loop", "dead", "qa"}
      /\ unscheduled' \in BOOLEAN
  <2>1. CASE ProcessEnds
    BY <2>1, NothingFacts DEF ProcessEnds, LinkState, TuiInv, TypeOK
  <2>2. CASE /\ cmd' = [kind |-> "leave", client |-> s.client, arg |-> next]
             /\ UNCHANGED <<link, boot, ui, unscheduled>>
    BY <2>2, TypeFacts DEF CmdType, TuiInv, TypeOK
  <2> QED
    BY <1>1, <2>1, <2>2
<1> QED
  BY <1>2, <1>3, <1>4, TypeFacts, Assemble DEF TuiInv, TypeOK

LEMMA QuitStep ==
  ASSUME TuiInv, QuitCommand
  PROVE  TuiInv'
<1>0. UNCHANGED <<file, rejected>>
  BY DEF QuitCommand
<1>1. CASE state.client = NoClient
  <2>1. state' = Leaving(state) /\ ProcessEnds
    BY <1>1 DEF QuitCommand
  <2>2. /\ state' \in CliState /\ state'.profile = state.profile /\ state'.token = state.token
        /\ TimerInv'
    BY <2>1, TypeFacts, LeavingFacts DEF TimerInv
  <2> QED
    BY <1>0, <2>1, <2>2, EndsKeeps
<1>2. CASE state.client # NoClient
  <2>1. Leave(state, "exit") /\ state.client \in Clients
    BY <1>2, TypeFacts DEF QuitCommand, CliState
  <2>2. rejected' => state.token # "bad"
    BY <1>0 DEF TuiInv, RejectedTokenForgotten
  <2> QED
    BY <1>0, <2>1, <2>2, TypeFacts, LeaveKeeps DEF TuiInv, TypeOK
<1> QED
  BY <1>1, <1>2

LEMMA AddStep ==
  ASSUME TuiInv, NEW n \in Profiles, ProfileAdd(n)
  PROVE  TuiInv'
<1>1. /\ file' = UpsertProfile(file, n)
      /\ state' = [state EXCEPT !.profile = n, !.backend = ProfileOverride(n, state.backend)]
      /\ UNCHANGED <<link, boot, cmd, ui, rejected, unscheduled>>
  BY DEF ProfileAdd
<1>2. file' \in Store /\ ActiveExists(file') /\ n \in Names(file')
  BY <1>1, TypeFacts, UpsertFacts
<1>3. PICK b \in Backends : b = ProfileOverride(n, state.backend)
  BY TypeFacts, BackendFacts DEF CliState
<1>4. state' = [state EXCEPT !.profile = n, !.backend = b]
  BY <1>1, <1>3
<1>5. /\ state' \in CliState /\ state'.profile = n /\ state'.token = state.token
      /\ state'.userClose = state.userClose /\ state'.timer = state.timer
      /\ state'.blocked = state.blocked
  BY <1>4, TypeFacts DEF CliState
<1>6. CoverInv'
  BY <1>1, <1>5, CoverKept
<1>7. TimerInv' /\ LeaveInv' /\ RejectedTokenForgotten'
  BY <1>1, <1>5 DEF TuiInv, TimerInv, LeaveInv, RejectedTokenForgotten
<1> QED
  BY <1>1, <1>2, <1>5, <1>6, <1>7, TypeFacts, Assemble DEF TuiInv, TypeOK

LEMMA RemoveStep ==
  ASSUME TuiInv, NEW n \in Profiles, ProfileRemove(n)
  PROVE  TuiInv'
<1>1. /\ file' = RemoveProfile(file, n)
      /\ UNCHANGED <<link, boot, cmd, ui, rejected, unscheduled>>
  BY DEF ProfileRemove
<1>2. file' \in Store /\ ActiveExists(file') /\ Names(file') = Names(file) \ {n}
  BY <1>1, TypeFacts, RemoveFacts
<1>3. PICK p \in Names(file') \cup {NoProfile} : state' = [state EXCEPT !.profile = p]
  <2>1. CASE state.profile = n
    <3>1. ResolveProfileSelection(file', NoProfile) \in Names(file') \cup {NoProfile}
      BY <1>2, ResolveFacts
    <3> QED
      BY <2>1, <3>1 DEF ProfileRemove
  <2>2. CASE state.profile # n
    <3>1. state' = state /\ state.profile \in Names(file') \cup {NoProfile}
      BY <1>2, <2>2, TypeFacts DEF ProfileRemove
    <3>2. state = [state EXCEPT !.profile = state.profile]
      BY TypeFacts DEF CliState
    <3> QED
      BY <3>1, <3>2
  <2> QED
    BY <2>1, <2>2
<1>4. p \in Profiles \cup {NoProfile}
  BY <1>2 DEF Names
<1>5. /\ state' \in CliState /\ state'.profile = p /\ state'.token = state.token
      /\ state'.userClose = state.userClose /\ state'.timer = state.timer
      /\ state'.blocked = state.blocked
  BY <1>3, <1>4, TypeFacts DEF CliState
<1>6. CoverInv'
  BY <1>1, <1>5, CoverKept
<1>7. TimerInv' /\ LeaveInv' /\ RejectedTokenForgotten'
  BY <1>1, <1>5 DEF TuiInv, TimerInv, LeaveInv, RejectedTokenForgotten
<1> QED
  BY <1>1, <1>2, <1>3, <1>5, <1>6, <1>7, TypeFacts, Assemble DEF TuiInv, TypeOK

LEMMA UseStep ==
  ASSUME TuiInv, NEW n \in Profiles, ProfileUse(n)
  PROVE  TuiInv'
<1> DEFINE p == ResolveProfileSelection(file, n)
           s == [state EXCEPT !.backend = ProfileOverride(p, state.backend), !.profile = p,
                              !.token = TokenOfProfile(file, p)]
<1>0. cmd = NoCmd /\ rejected \in BOOLEAN /\ file' = SetActiveProfile(file, n)
  BY PromptingFacts DEF ProfileUse, TuiInv, TypeOK
<1>1. file' \in Store /\ ActiveExists(file') /\ Names(file') = Names(file)
  BY <1>0, TypeFacts, SetActiveFacts
<1>2. p \in Names(file') \cup {NoProfile} /\ p \in Profiles \cup {NoProfile}
  BY <1>1, TypeFacts, ResolveFacts DEF Names
<1>3. ProfileOverride(p, state.backend) \in Backends /\ TokenOfProfile(file, p) \in Tokens \cup {"none"}
  <2> HIDE DEF p
  <2> QED
    BY <1>2, TypeFacts, BackendFacts, TokenOfProfileFacts DEF CliState
<1>4. /\ rejected' = (rejected /\ s.token # "bad")
      /\ \/ state.client # NoClient /\ Leave(s, "use")
         \/ ReconnectNow(s) /\ UNCHANGED <<cmd, ui>>
  BY DEF ProfileUse
<1>5. s \in CliState /\ s.profile = p /\ s.client = state.client
  <2> HIDE DEF p
  <2>1. PICK b \in Backends, t \in Tokens \cup {"none"} :
          b = ProfileOverride(p, state.backend) /\ t = TokenOfProfile(file, p)
    BY <1>3
  <2>2. s = [state EXCEPT !.backend = b, !.profile = p, !.token = t]
    BY <2>1
  <2> HIDE DEF s
  <2> QED
    BY <1>2, <2>2, TypeFacts DEF CliState
<1> HIDE DEF s, p
<1>6. rejected' \in BOOLEAN /\ (rejected' => s.token # "bad")
  BY <1>0, <1>4
<1>7. s.profile \in Names(file') \cup {NoProfile}
  BY <1>2, <1>5
<1>8. CASE state.client # NoClient /\ Leave(s, "use")
  <2>1. s.client \in Clients
    BY <1>5, <1>8, TypeFacts DEF CliState
  <2> QED
    BY <1>1, <1>5, <1>6, <1>7, <1>8, <2>1, LeaveKeeps
<1>9. CASE ReconnectNow(s) /\ UNCHANGED <<cmd, ui>>
  BY <1>0, <1>1, <1>5, <1>6, <1>7, <1>9, TypeFacts, NothingFacts, ReconnectKeeps DEF TuiInv, TypeOK
<1> QED
  BY <1>4, <1>8, <1>9

LEMMA ProfileTokenStep ==
  ASSUME TuiInv, NEW n \in Profiles, NEW t \in Tokens, ProfileToken(n, t)
  PROVE  TuiInv'
<1>1. /\ file' = SetProfileToken(file, n, t)
      /\ state' = IF state.profile = n THEN [state EXCEPT !.token = t] ELSE state
      /\ rejected' = (rejected /\ t # "bad") /\ rejected \in BOOLEAN
      /\ UNCHANGED <<link, boot, cmd, ui, unscheduled>>
  BY DEF ProfileToken, TuiInv, TypeOK
<1>2. file' \in Store /\ ActiveExists(file') /\ Names(file') = Names(file)
  BY <1>1, TypeFacts, SetTokenFacts
<1>3. /\ state' \in CliState /\ state'.profile = state.profile /\ state'.token \in {state.token, t}
      /\ state'.userClose = state.userClose /\ state'.timer = state.timer
      /\ state'.blocked = state.blocked
  BY <1>1, TypeFacts DEF CliState
<1>4. rejected' \in BOOLEAN /\ (rejected' => rejected /\ t # "bad")
  BY <1>1
<1>5. CoverInv'
  BY <1>1, <1>3, CoverKept
<1>6. TimerInv' /\ LeaveInv' /\ RejectedTokenForgotten'
  BY <1>1, <1>3, <1>4 DEF TuiInv, TimerInv, LeaveInv, RejectedTokenForgotten
<1> QED
  BY <1>1, <1>2, <1>3, <1>4, <1>5, <1>6, TypeFacts, Assemble DEF TuiInv, TypeOK

LEMMA OpenStep ==
  ASSUME TuiInv, Open
  PROVE  TuiInv'
<1>1. ProcessEnds /\ UNCHANGED <<state, file, rejected>>
  BY DEF Open
<1> QED
  BY <1>1, TypeFacts, EndsKeeps DEF TuiInv, TimerInv

LEMMA FreshFacts ==
  ASSUME NEW c \in Clients
  PROVE  /\ FreshLink(c) \in [Clients -> LinkState] /\ FreshBoot(c) \in [Clients -> BootType]
         /\ FreshBoot(c)[c].stage \in Waiting
<1>1. /\ [NoBoot EXCEPT !.stage = "connecting"] \in BootType
      /\ [NoBoot EXCEPT !.stage = "connecting"].stage = "connecting"
  BY DEF NoBoot, BootType, Stage, Origin
<1> QED
  BY <1>1, NothingFacts DEF FreshLink, FreshBoot, LinkState, Waiting

\* The process is started again, from a file that may have been cut short.
LEMMA RestartStep ==
  ASSUME TuiInv, NEW torn \in BOOLEAN, NEW wanted, Restart(torn, wanted)
  PROVE  TuiInv'
<1>1. file' \in Store /\ ActiveExists(file')
  BY TypeFacts, EmptyFacts DEF Restart, Unreadable
<1>2. PICK c \in Clients : /\ state' = StartState(file', c, "unset", wanted)
                           /\ link' = FreshLink(c) /\ boot' = FreshBoot(c)
  BY DEF Restart
<1>3. ui' = "startup" /\ cmd' = NoCmd /\ rejected' = FALSE /\ unscheduled' = FALSE
  BY DEF Restart
<1>4. /\ state' \in CliState /\ state'.profile \in Names(file') \cup {NoProfile}
      /\ ~state'.userClose
  BY <1>1, <1>2, StartFacts
<1>5. link' \in [Clients -> LinkState] /\ boot' \in [Clients -> BootType] /\ boot'[c].stage \in Waiting
  BY <1>2, FreshFacts
<1>6. TimerInv' /\ LeaveInv' /\ CoverInv' /\ RejectedTokenForgotten'
  BY <1>3, <1>4, <1>5, NothingFacts
     DEF TimerInv, LeaveInv, CoverInv, Covered, RejectedTokenForgotten
<1> QED
  BY <1>1, <1>3, <1>4, <1>5, <1>6, NothingFacts, Assemble

LEMMA TuiInitial == Init => TuiInv
<1> SUFFICES ASSUME Init PROVE TuiInv
  OBVIOUS
<1>1. PICK c \in Clients, b \in PreferredBackends :
        /\ state = StartState(Empty, c, b, NoProfile)
        /\ link = FreshLink(c) /\ boot = FreshBoot(c)
  BY DEF Init
<1>2. file = Empty /\ cmd = NoCmd /\ rejected = FALSE /\ unscheduled = FALSE /\ ui \in {"startup", "qa"}
  BY DEF Init
<1>3. /\ state \in CliState /\ state.profile \in Names(file) \cup {NoProfile} /\ ~state.userClose
      /\ file \in Store /\ ActiveExists(file)
  BY <1>1, <1>2, EmptyFacts, StartFacts
<1>4. link \in [Clients -> LinkState] /\ boot \in [Clients -> BootType] /\ boot[c].stage \in Waiting
  BY <1>1, FreshFacts
<1>5. TimerInv /\ LeaveInv /\ CoverInv /\ RejectedTokenForgotten
  BY <1>2, <1>3, <1>4, NothingFacts
     DEF TimerInv, LeaveInv, CoverInv, Covered, RejectedTokenForgotten
<1>6. TypeOK
  BY <1>2, <1>3, <1>4, NothingFacts DEF TypeOK, LinkState, BootType, CmdType
<1> QED
  BY <1>3, <1>5, <1>6 DEF TuiInv, ProfilesExist, ActiveExists

LEMMA TuiStutter ==
  ASSUME TuiInv, UNCHANGED sessionVars
  PROVE  TuiInv'
BY DEF sessionVars, TuiInv, TypeOK, TimerInv, LeaveInv, CoverInv, Covered,
       RejectedTokenForgotten, ProfilesExist, Names

LEMMA TuiStep ==
  ASSUME TuiInv, [Next]_vars
  PROVE  TuiInv'
<1>1. ASSUME NEW c \in Clients, ClientStep(c) PROVE TuiInv'
  BY <1>1, SettleBootStep, HelloStep, CloseStep, ConnectFailsStep, AuthStep, ListedStep, PromptStep
     DEF ClientStep
<1>2. ASSUME NEW n \in Profiles, ProfileStep(n) PROVE TuiInv'
  BY <1>2, AddStep, RemoveStep, UseStep, ProfileTokenStep DEF ProfileStep
<1>3. CASE UserStep
  BY <1>2, <1>3, TokenStep, ReconnectStep, QuitStep, OpenStep, RestartStep DEF UserStep
<1>4. CASE RunChecklist
  BY <1>4, TuiStutter DEF RunChecklist
<1>5. CASE UNCHANGED vars
  BY <1>5, TuiStutter DEF vars
<1> QED
  BY <1>1, <1>3, <1>4, <1>5, SettleCmdStep, CmdAnswerStep, RetryStep, CooldownPassesStep,
     CooldownFiresStep DEF Next

\* The conjunction below is inductive: every step of every client, command,
\* timer and restart keeps it.
THEOREM TuiInvariant == Spec => []TuiInv
<1>1. TuiInv /\ [Next]_vars => TuiInv'
  BY TuiStep
<1> QED
  BY <1>1, TuiInitial, PTL DEF Spec

\* Every variable of the terminal UI keeps its type, whatever the clients,
\* profiles, limits and token sources.
THEOREM TuiTypeCorrect == Spec => []TypeOK
<1>1. TuiInv => TypeOK
  BY DEF TuiInv
<1> QED
  BY <1>1, TuiInvariant, PTL

\* A lost connection or a failed attempt is tried again unless the user left,
\* a token is awaited or the code says it schedules nothing; and once the user
\* has left no timer is armed, for any number of clients in flight.
THEOREM TuiLossIsRetried == Spec => []LossIsRetried
<1>1. TuiInv => LossIsRetried
  BY DEF TuiInv, TimerInv, CoverInv, Covered, LossIsRetried, Waiting
<1> QED
  BY <1>1, TuiInvariant, PTL

\* A refused token is not in the state that the next attempt reads.
THEOREM TuiRejectedTokenForgotten == Spec => []RejectedTokenForgotten
<1>1. TuiInv => RejectedTokenForgotten
  BY DEF TuiInv
<1> QED
  BY <1>1, TuiInvariant, PTL

\* The active and the current profile exist, torn saves and restarts included.
THEOREM TuiProfilesExist == Spec => []ProfilesExist
<1>1. TuiInv => ProfilesExist
  BY DEF TuiInv
<1> QED
  BY <1>1, TuiInvariant, PTL

-----------------------------------------------------------------------------
(* The checklist *)

\* The sections before the loop's index are decided, those after it untouched,
\* and allPassed and the file say what the statuses say.
QaInv ==
  /\ qaSections \in Seq(Range(SectionOrder))
  /\ \A i, j \in DOMAIN qaSections : qaSections[i] = qaSections[j] => i = j
  /\ qaNext \in Nat \ {0}
  /\ qaStatus \in [DOMAIN qaSections -> {"pending", "running", "pass", "fail"}]
  /\ qaPassed \in BOOLEAN
  /\ qaReport.status = qaStatus
  /\ \A i \in DOMAIN qaSections :
       /\ i < qaNext => qaStatus[i] \in {"pass", "fail"}
       /\ i = qaNext => qaStatus[i] \in {"pending", "running"}
       /\ i > qaNext => qaStatus[i] = "pending"
  /\ qaPassed => \A i \in DOMAIN qaSections : i < qaNext => qaStatus[i] = "pass"
  /\ ~qaPassed => \E i \in DOMAIN qaSections : i < qaNext /\ qaStatus[i] = "fail"
  /\ qaReport.overall \in {"null", "pass", "fail"}
  /\ qaReport.overall # "null" => qaNext = Len(qaSections) + 1
  /\ qaReport.overall = "pass" => qaPassed
  /\ qaReport.overall = "fail" => ~qaPassed
  /\ qaInstalls \in 0..1
  /\ (qaNext = 1 /\ 1 \in DOMAIN qaSections /\ qaStatus[1] = "pending") => qaInstalls = 0

LEMMA QaInitial == Init => QaInv
<1>1. ASSUME QaOff PROVE QaInv
  <2>1. /\ qaSections = <<>> /\ qaStatus = <<>> /\ qaNext = 1 /\ qaPassed = TRUE
        /\ qaReport.status = <<>> /\ qaReport.overall = "null" /\ qaInstalls = 0
    BY <1>1 DEF QaOff, Report
  <2>2. DOMAIN qaSections = {} /\ qaSections \in Seq(Range(SectionOrder))
    BY <2>1
  <2>3. qaStatus \in [DOMAIN qaSections -> {"pending", "running", "pass", "fail"}]
    BY <2>1, <2>2
  <2> QED
    BY <2>1, <2>2, <2>3 DEF QaInv
<1>2. ASSUME NEW r \in SectionRequests, QaInit(r) PROVE QaInv
  <2> DEFINE sections == SelectedSections(r)
  <2>1. /\ sections \in Seq(Range(SectionOrder))
        /\ \A i, j \in DOMAIN sections : sections[i] = sections[j] => i = j
    BY SectionsAssumption
  <2>2. /\ qaSections = sections /\ qaStatus = [i \in DOMAIN sections |-> "pending"]
        /\ qaNext = 1 /\ qaPassed = TRUE
        /\ qaReport.status = [i \in DOMAIN sections |-> "pending"] /\ qaReport.overall = "null"
        /\ qaInstalls = 0
    BY <1>2 DEF QaInit, Report
  <2> HIDE DEF sections
  <2>3. \A i \in DOMAIN sections : i \in Nat /\ ~(i < 1)
    BY <2>1
  <2> QED
    BY <2>1, <2>2, <2>3 DEF QaInv
<1> QED
  BY <1>1, <1>2 DEF Init

LEMMA QaStartStep ==
  ASSUME QaInv, NEW skip \in BOOLEAN, QaStart(skip)
  PROVE  QaInv'
<1>1. /\ qaNext \in DOMAIN qaSections /\ qaStatus[qaNext] = "pending"
      /\ qaStatus' = [qaStatus EXCEPT ![qaNext] = "running"]
      /\ qaReport'.status = qaStatus' /\ qaReport'.overall = "null"
      /\ UNCHANGED <<qaSections, qaNext, qaPassed>>
  BY DEF QaStart, Report
<1>2. qaStatus' \in [DOMAIN qaSections -> {"pending", "running", "pass", "fail"}]
  BY <1>1 DEF QaInv
<1>3. \A i \in DOMAIN qaSections : i \in Nat
                                  /\ (i # qaNext => qaStatus'[i] = qaStatus[i])
                                  /\ (i = qaNext => qaStatus'[i] = "running")
  BY <1>1 DEF QaInv
<1>4. qaInstalls' \in 0..1
  BY <1>1 DEF QaStart, QaInv
<1>5. \A i \in DOMAIN qaSections :
        /\ i < qaNext => qaStatus'[i] \in {"pass", "fail"}
        /\ i = qaNext => qaStatus'[i] \in {"pending", "running"}
        /\ i > qaNext => qaStatus'[i] = "pending"
  BY <1>3 DEF QaInv
<1>6. qaPassed => \A i \in DOMAIN qaSections : i < qaNext => qaStatus'[i] = "pass"
  BY <1>3 DEF QaInv
<1>7. ~qaPassed => \E i \in DOMAIN qaSections : i < qaNext /\ qaStatus'[i] = "fail"
  BY <1>3 DEF QaInv
<1>8. qaNext # 1 \/ qaStatus'[1] # "pending"
  BY <1>1, <1>3
<1> QED
  BY <1>1, <1>2, <1>4, <1>5, <1>6, <1>7, <1>8 DEF QaInv

LEMMA QaFinishSectionStep ==
  ASSUME QaInv, NEW passed \in BOOLEAN, QaFinishSection(passed)
  PROVE  QaInv'
<1>1. PICK v \in {"pass", "fail"} : v = IF passed THEN "pass" ELSE "fail"
  OBVIOUS
<1>2. /\ qaNext \in DOMAIN qaSections /\ qaStatus[qaNext] = "running"
      /\ qaStatus' = [qaStatus EXCEPT ![qaNext] = v]
      /\ qaReport'.status = qaStatus' /\ qaReport'.overall = "null"
      /\ qaNext' = qaNext + 1
      /\ UNCHANGED <<qaSections, qaInstalls>>
  BY <1>1 DEF QaFinishSection, Report
<1>3. qaPassed' \in BOOLEAN /\ (qaPassed' => qaPassed /\ v = "pass") /\ (~qaPassed' => ~qaPassed \/ v = "fail")
  <2>1. qaPassed' = (qaPassed /\ passed) /\ qaPassed \in BOOLEAN
    BY DEF QaFinishSection, QaInv
  <2> QED
    BY <1>1, <2>1
<1>4. qaStatus' \in [DOMAIN qaSections -> {"pending", "running", "pass", "fail"}]
  BY <1>2 DEF QaInv
<1>5. qaNext \in Nat \ {0} /\ qaNext' \in Nat \ {0} /\ qaNext' # 1
  BY <1>2 DEF QaInv
<1>6. \A i \in DOMAIN qaSections : i \in Nat
                                  /\ (i # qaNext => qaStatus'[i] = qaStatus[i])
                                  /\ (i = qaNext => qaStatus'[i] = v)
                                  /\ (i < qaNext' <=> i < qaNext \/ i = qaNext)
                                  /\ (i >= qaNext' => i > qaNext)
  <2> TAKE i \in DOMAIN qaSections
  <2>1. i \in Nat
    BY DEF QaInv
  <2>2. (i < qaNext' <=> i < qaNext \/ i = qaNext) /\ (i >= qaNext' => i > qaNext)
    BY <1>2, <1>5, <2>1
  <2>3. (i # qaNext => qaStatus'[i] = qaStatus[i]) /\ (i = qaNext => qaStatus'[i] = v)
    BY <1>2 DEF QaInv
  <2> QED
    BY <2>1, <2>2, <2>3
<1>7. \A i \in DOMAIN qaSections :
        /\ i < qaNext' => qaStatus'[i] \in {"pass", "fail"}
        /\ i = qaNext' => qaStatus'[i] \in {"pending", "running"}
        /\ i > qaNext' => qaStatus'[i] = "pending"
  BY <1>5, <1>6 DEF QaInv
<1>8. qaPassed' => \A i \in DOMAIN qaSections : i < qaNext' => qaStatus'[i] = "pass"
  BY <1>3, <1>6 DEF QaInv
<1>9. ~qaPassed' => \E i \in DOMAIN qaSections : i < qaNext' /\ qaStatus'[i] = "fail"
  <2>1. CASE ~qaPassed
    BY <1>5, <1>6, <2>1 DEF QaInv
  <2>2. CASE v = "fail"
    BY <1>2, <1>6, <2>2
  <2> QED
    BY <1>3, <2>1, <2>2
<1> QED
  BY <1>2, <1>3, <1>4, <1>5, <1>7, <1>8, <1>9 DEF QaInv

LEMMA QaFinishStep ==
  ASSUME QaInv, QaFinish
  PROVE  QaInv'
<1>1. /\ qaNext = Len(qaSections) + 1 /\ qaReport'.status = qaStatus
      /\ qaReport'.overall = IF qaPassed THEN "pass" ELSE "fail"
      /\ UNCHANGED <<qaSections, qaStatus, qaNext, qaPassed, qaInstalls>>
  BY DEF QaFinish, Report
<1> QED
  BY <1>1 DEF QaInv

LEMMA QaStep ==
  ASSUME QaInv, [Next]_vars
  PROVE  QaInv'
<1>1. ASSUME UNCHANGED qaVars PROVE QaInv'
  BY <1>1 DEF qaVars, QaInv
<1>2. CASE RunChecklist
  BY <1>2, QaStartStep, QaFinishSectionStep, QaFinishStep DEF RunChecklist
<1>3. ASSUME NEW c \in Clients, ClientStep(c) PROVE UNCHANGED qaVars
  BY <1>3 DEF ClientStep, SettleBoot, Hello, Close, ConnectFails, AuthAnswer, Listed, PromptAnswered
<1>4. CASE SettleCmd \/ (\E ok \in BOOLEAN : CmdAnswer(ok)) \/ RetryFires \/ CooldownPasses \/ CooldownFires
  BY <1>1, <1>4 DEF SettleCmd, CmdAnswer, RetryFires, CooldownPasses, CooldownFires
<1>5. ASSUME NEW n \in Profiles, ProfileStep(n) PROVE UNCHANGED qaVars
  BY <1>5 DEF ProfileStep, ProfileAdd, ProfileRemove, ProfileUse, ProfileToken
<1>6. CASE UserStep
  BY <1>1, <1>5, <1>6 DEF UserStep, TokenCommand, ReconnectCommand, QuitCommand, Open, Restart
<1>7. CASE UNCHANGED vars
  BY <1>1, <1>7 DEF vars
<1> QED
  BY <1>1, <1>2, <1>3, <1>4, <1>6, <1>7 DEF Next

\* The report never claims more than the sections show, for any request of
\* sections the command line can make.
THEOREM TuiQaReportHonest == Spec => []QaReportHonest
<1>1. QaInv /\ [Next]_vars => QaInv'
  BY QaStep
<1>2. QaInv => QaReportHonest
  <2> SUFFICES ASSUME QaInv PROVE QaReportHonest
    OBVIOUS
  <2>1. \A i \in DOMAIN qaSections : i < Len(qaSections) + 1
    BY DEF QaInv
  <2>2. qaReport.overall = "pass" => \A i \in DOMAIN qaSections : qaReport.status[i] = "pass"
    BY <2>1 DEF QaInv
  <2>3. qaReport.overall = "fail" => \E i \in DOMAIN qaSections : qaReport.status[i] = "fail"
    BY <2>1 DEF QaInv
  <2>4. qaInstalls <= 1
    BY DEF QaInv
  <2> QED
    BY <2>2, <2>3, <2>4 DEF QaInv, QaReportHonest
<1> QED
  BY <1>1, <1>2, QaInitial, PTL DEF Spec

=============================================================================
