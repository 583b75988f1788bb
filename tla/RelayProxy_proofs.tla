-------------------------- MODULE RelayProxy_proofs --------------------------
(***************************************************************************)
(* Proofs about the relay: what the upstream of a session gets, the limits *)
(* of the queue in front of it and the counters of /status; and, of the    *)
(* process around the sessions, whom it lets in.                           *)
(***************************************************************************)
EXTENDS RelayProxy, RelayProcess, SequenceTheorems, FiniteSetTheorems, WellFoundedInduction,
        TLAPS

\* The connections that ever had a session.
Used == {c \in Conn : upstream[c] # "none"}

\* A connection that was not accepted yet has no trace anywhere.
Fresh(c) ==
  client[c] = "none" =>
    /\ c \notin sessions /\ upstream[c] = "none"
    /\ sent[c] = << >> /\ got[c] = << >> /\ pending[c] = << >>
    /\ queuedBytes[c] = 0

\* A session has an upstream socket.
Paired(c) == c \in sessions => upstream[c] # "none"

\* A timer belongs to a session.
Timed(c) == c \in idleTimer => c \in sessions

\* InOrder and BacklogBounded for one connection.
Ordered(c) ==
  /\ IsPrefix(got[c], sent[c])
  /\ c \in sessions => got[c] \o pending[c] = sent[c]

Bounded(c) ==
  c \in sessions =>
    /\ Len(pending[c]) <= MaxPendingMessages /\ queuedBytes[c] <= MaxPendingBytes
    /\ upstream[c] = "open" => pending[c] = << >>

ConnInv(c) == Fresh(c) /\ Paired(c) /\ Timed(c) /\ Ordered(c) /\ Bounded(c)

CountInv == IsFiniteSet(sessions) /\ IsFiniteSet(Used) /\ StatsExact

IInv ==
  /\ TypeOK
  /\ \A c \in Conn : ConnInv(c)
  /\ CountInv

-----------------------------------------------------------------------------
(* Sequences and sockets *)

\* A sequence is a prefix of every extension of itself.
LEMMA PrefixOfConcat ==
  ASSUME NEW S, NEW s \in Seq(S), NEW t \in Seq(S)
  PROVE  IsPrefix(s, s \o t)
<1>1. Len(s \o t) = Len(s) + Len(t) /\ Len(s) \in Nat /\ Len(t) \in Nat
  BY ConcatProperties, LenProperties
<1>2. SubSeq(s, 1, Len(s)) = s
  BY SubSeqFull
<1>3. SubSeq(s \o t, 1, Len(s)) = s
  BY ConcatProperties, LenProperties, SubSeqProperties, SMT
<1> QED
  BY <1>1, <1>2, <1>3 DEF IsPrefix

LEMMA PrefixOfItself ==
  ASSUME NEW S, NEW s \in Seq(S)
  PROVE  IsPrefix(s, s)
BY LenProperties DEF IsPrefix

\* Appending commutes with putting a sequence in front.
LEMMA ConcatAppend ==
  ASSUME NEW S, NEW s \in Seq(S), NEW t \in Seq(S), NEW x \in S
  PROVE  s \o Append(t, x) = Append(s \o t, x)
<1> DEFINE u == s \o Append(t, x)
           v == Append(s \o t, x)
<1>1. /\ Append(t, x) \in Seq(S) /\ Len(Append(t, x)) = Len(t) + 1
      /\ \A i \in 1..Len(t) : Append(t, x)[i] = t[i]
      /\ Append(t, x)[Len(t) + 1] = x
      /\ Len(s) \in Nat /\ Len(t) \in Nat
  BY AppendProperties, LenProperties
<1>2. /\ u \in Seq(S) /\ Len(u) = Len(s) + Len(t) + 1
      /\ \A i \in 1..Len(s) + Len(t) + 1 :
           u[i] = IF i <= Len(s) THEN s[i] ELSE Append(t, x)[i - Len(s)]
  BY <1>1, ConcatProperties
<1>3. /\ s \o t \in Seq(S) /\ Len(s \o t) = Len(s) + Len(t)
      /\ \A i \in 1..Len(s) + Len(t) :
           (s \o t)[i] = IF i <= Len(s) THEN s[i] ELSE t[i - Len(s)]
  BY ConcatProperties
<1>4. /\ v \in Seq(S) /\ Len(v) = Len(s) + Len(t) + 1
      /\ \A i \in 1..Len(s) + Len(t) : v[i] = (s \o t)[i]
      /\ v[Len(s) + Len(t) + 1] = x
  BY <1>1, <1>3, AppendProperties
<1> HIDE DEF u, v
<1>5. ASSUME NEW i \in 1..Len(u) PROVE u[i] = v[i]
  <2>1. CASE i = Len(s) + Len(t) + 1
    BY <2>1, <1>1, <1>2, <1>4
  <2>2. CASE i \in 1..Len(s) + Len(t)
    <3>1. v[i] = IF i <= Len(s) THEN s[i] ELSE t[i - Len(s)]
      BY <2>2, <1>3, <1>4
    <3>2. u[i] = IF i <= Len(s) THEN s[i] ELSE Append(t, x)[i - Len(s)]
      BY <2>2, <1>1, <1>2
    <3>3. ~(i <= Len(s)) => i - Len(s) \in 1..Len(t)
      BY <2>2, <1>1
    <3> QED
      BY <3>1, <3>2, <3>3, <1>1
  <2>3. i = Len(s) + Len(t) + 1 \/ i \in 1..Len(s) + Len(t)
    <3>1. i \in 1..Len(s) + Len(t) + 1
      BY <1>2
    <3> QED
      BY <3>1, <1>1
  <2> QED
    BY <2>1, <2>2, <2>3
<1>6. u = v
  BY <1>2, <1>4, <1>5, SeqEqual
<1> QED
  BY <1>6 DEF u, v

\* What is a prefix stays one when the sequence grows.
LEMMA PrefixGrows ==
  ASSUME NEW S, NEW s \in Seq(S), NEW t \in Seq(S), NEW x \in S, IsPrefix(s, t)
  PROVE  IsPrefix(s, Append(t, x))
<1>1. Len(Append(t, x)) = Len(t) + 1 /\ Len(s) \in Nat /\ Len(t) \in Nat /\ Len(s) <= Len(t)
  BY AppendProperties, LenProperties DEF IsPrefix
<1>2. SubSeq(Append(t, x), 1, Len(s)) = SubSeq(t, 1, Len(s))
  BY <1>1, AppendProperties, SubSeqProperties, SMT
<1> QED
  BY <1>1, <1>2 DEF IsPrefix

\* disposeSocketSafely never opens a socket, and neither makes nor unmakes one.
LEMMA DisposeFacts ==
  ASSUME NEW st \in UpstreamState
  PROVE  /\ Dispose(st) \in UpstreamState
         /\ st \in ClientState => Dispose(st) \in ClientState
         /\ Dispose(st) # "open"
         /\ Dispose(st) = "none" <=> st = "none"
BY DEF Dispose, UpstreamState, ClientState

-----------------------------------------------------------------------------
(* The steps *)

\* Members of IInv that every step needs.
LEMMA InvFacts ==
  ASSUME IInv, NEW c \in Conn
  PROVE  /\ client[c] \in ClientState /\ upstream[c] \in UpstreamState
         /\ pending[c] \in Seq(Size) /\ sent[c] \in Seq(Size) /\ got[c] \in Seq(Size)
         /\ queuedBytes[c] \in Nat /\ age[c] \in 0..IdleTimeout
         /\ c \in sessions => client[c] # "none" /\ upstream[c] # "none"
BY DEF IInv, TypeOK, ConnInv, Fresh, Paired

\* A step that keeps the sessions and never takes a socket away keeps the
\* counters, whatever becomes of the byte counts.
LEMMA SameSessions ==
  ASSUME IInv, TypeOK', sessions' = sessions,
         \A c \in Conn : upstream'[c] = "none" <=> upstream[c] = "none",
         stats'.active = stats.active, stats'.total = stats.total, stats'.peak = stats.peak
  PROVE  CountInv'
<1>1. Used' = Used
  BY DEF Used
<1> QED
  BY <1>1 DEF IInv, CountInv, StatsExact, Used

\* closeSession, at the end of whatever handler called it.
LEMMA CloseSessionKeeps ==
  ASSUME IInv, NEW c \in sessions,
         NEW cs \in ClientState \ {"none"}, NEW us \in UpstreamState \ {"none"},
         NEW immediate \in BOOLEAN, NEW st,
         st \in [active : Nat, total : Nat, peak : Nat, up : Nat, down : Nat],
         st.total = stats.total, st.peak = stats.peak,
         CloseSession(c, cs, us, immediate, st),
         sent' \in [Conn -> Seq(Size)],
         \A d \in Conn : IsPrefix(got[d], sent'[d]),
         \A d \in Conn \ {c} : sent'[d] = sent[d]
  PROVE  IInv'
<1> USE RelayAssumption
<1>0. c \in Conn
  BY DEF IInv, TypeOK
<1>1. /\ Dispose(cs) \in ClientState /\ Dispose(cs) # "none"
      /\ Dispose(us) \in UpstreamState /\ Dispose(us) # "none"
  BY DisposeFacts DEF UpstreamState
<1>2. /\ sessions' = sessions \ {c} /\ IsFiniteSet(sessions)
      /\ IsFiniteSet(sessions') /\ Cardinality(sessions') = Cardinality(sessions) - 1
      /\ Cardinality(sessions) \in Nat /\ Cardinality(sessions') \in Nat
  BY FS_RemoveElement, FS_CardinalityType DEF IInv, CountInv, CloseSession
<1>3. stats' = [st EXCEPT !.active = Cardinality(sessions')]
  BY <1>2 DEF CloseSession
<1>4. TypeOK'
  <2>1. client' \in [Conn -> ClientState] /\ upstream' \in [Conn -> UpstreamState]
    BY <1>1 DEF IInv, TypeOK, CloseSession
  <2>2. stats' \in [active : Nat, total : Nat, peak : Nat, up : Nat, down : Nat]
    BY <1>2, <1>3
  <2>3. /\ age' \in [Conn -> 0..IdleTimeout] /\ disposing' \subseteq Conn
        /\ sessions' \subseteq Conn /\ idleTimer' \subseteq Conn
    <3>1. 0 \in 0..IdleTimeout
      OBVIOUS
    <3>2. age' \in [Conn -> 0..IdleTimeout]
      BY <3>1 DEF IInv, TypeOK, CloseSession
    <3>3. disposing' = disposing \/ disposing' = disposing \union {c}
      BY DEF CloseSession
    <3> QED
      BY <1>0, <1>2, <3>2, <3>3 DEF IInv, TypeOK, CloseSession
  <2> QED
    BY <2>1, <2>2, <2>3 DEF IInv, TypeOK, CloseSession
<1>5. ASSUME NEW d \in Conn PROVE ConnInv(d)'
  <2>1. CASE d = c
    <3>1. client'[d] # "none" /\ d \notin sessions' /\ d \notin idleTimer'
      BY <2>1, <1>1, <1>2 DEF CloseSession, IInv, TypeOK
    <3>2. IsPrefix(got'[d], sent'[d])
      BY DEF CloseSession
    <3> QED
      BY <3>1, <3>2 DEF ConnInv, Fresh, Paired, Timed, Ordered, Bounded
  <2>2. CASE d # c
    <3>1. /\ client'[d] = client[d] /\ upstream'[d] = upstream[d]
          /\ pending'[d] = pending[d] /\ queuedBytes'[d] = queuedBytes[d]
          /\ sent'[d] = sent[d] /\ got'[d] = got[d] /\ (d \in sessions' <=> d \in sessions)
          /\ d \in idleTimer' <=> d \in idleTimer
      BY <2>2, <1>2 DEF CloseSession, IInv, TypeOK
    <3> QED
      BY <3>1 DEF IInv, ConnInv, Fresh, Paired, Timed, Ordered, Bounded
  <2> QED
    BY <2>1, <2>2
<1>6. CountInv'
  <2>1. Used' = Used
    <3>1. \A d \in Conn : upstream'[d] = "none" <=> upstream[d] = "none"
      BY <1>0, <1>1, InvFacts DEF CloseSession, IInv, TypeOK
    <3> QED
      BY <3>1 DEF Used
  <2>2. stats'.total = stats.total /\ stats'.peak = stats.peak
        /\ stats'.active = Cardinality(sessions')
    BY <1>3
  <2>3. stats.active = Cardinality(sessions) /\ stats.active <= stats.peak
        /\ stats.peak <= maxConnections /\ stats.total = Cardinality(Used)
        /\ stats.peak \in Nat
    BY DEF IInv, CountInv, StatsExact, Used, TypeOK
  <2>4. stats'.active <= stats'.peak /\ stats'.peak <= maxConnections
    BY <2>2, <2>3, <1>2
  <2> QED
    BY <2>1, <2>2, <2>3, <2>4, <1>2 DEF IInv, CountInv, StatsExact, Used
<1> QED
  BY <1>4, <1>5, <1>6 DEF IInv

\* wireSession.
LEMMA UpgradeKeeps ==
  ASSUME IInv, NEW c \in Conn, Upgrade(c)
  PROVE  IInv'
<1> USE RelayAssumption
<1>1. Fresh(c) /\ client[c] = "none"
  BY DEF IInv, ConnInv, Upgrade
<1>2. TypeOK'
  <2>1. client' \in [Conn -> ClientState] /\ upstream' \in [Conn -> UpstreamState]
    BY DEF IInv, TypeOK, Upgrade, ClientState, UpstreamState
  <2>2. stats' \in [active : Nat, total : Nat, peak : Nat, up : Nat, down : Nat]
    <3>1. stats.active + 1 \in Nat /\ stats.total + 1 \in Nat /\ stats.peak \in Nat
      BY DEF IInv, TypeOK
    <3>2. PICK peak \in Nat : stats' = [stats EXCEPT !.active = stats.active + 1,
                                    !.total = stats.total + 1, !.peak = peak]
      BY <3>1 DEF Upgrade
    <3> QED
      BY <3>1, <3>2 DEF IInv, TypeOK
  <2> QED
    BY <2>1, <2>2 DEF IInv, TypeOK, Upgrade
<1>3. ASSUME NEW d \in Conn PROVE ConnInv(d)'
  <2>1. CASE d = c
    <3>1. /\ client'[d] = "open" /\ upstream'[d] = "connecting" /\ queuedBytes'[d] = 0
          /\ pending'[d] = << >> /\ sent'[d] = << >> /\ got'[d] = << >>
          /\ d \in sessions'
      BY <2>1, <1>1 DEF Upgrade, IInv, TypeOK, Fresh
    <3>2. << >> \in Seq(Size) /\ Len(<< >>) = 0 /\ << >> \o << >> = << >>
      BY EmptySeq, ConcatEmptySeq
    <3>3. IsPrefix(<< >>, << >>)
      BY <3>2, PrefixOfConcat
    <3> QED
      BY <3>1, <3>2, <3>3 DEF ConnInv, Fresh, Paired, Timed, Ordered, Bounded
  <2>2. CASE d # c
    <3>1. /\ client'[d] = client[d] /\ upstream'[d] = upstream[d]
          /\ pending'[d] = pending[d] /\ queuedBytes'[d] = queuedBytes[d]
          /\ sent'[d] = sent[d] /\ got'[d] = got[d] /\ (d \in sessions' <=> d \in sessions)
          /\ d \in idleTimer' <=> d \in idleTimer
      BY <2>2 DEF Upgrade, IInv, TypeOK
    <3> QED
      BY <3>1 DEF IInv, ConnInv, Fresh, Paired, Timed, Ordered, Bounded
  <2> QED
    BY <2>1, <2>2
<1>4. CountInv'
  <2>1. Used' = Used \union {c} /\ c \notin Used
    BY <1>1 DEF Used, Upgrade, Fresh, IInv, TypeOK
  <2>2. sessions' = sessions \union {c} /\ c \notin sessions
    BY <1>1 DEF Upgrade, Fresh
  <2>3. /\ IsFiniteSet(Used') /\ Cardinality(Used') = Cardinality(Used) + 1
        /\ IsFiniteSet(sessions') /\ Cardinality(sessions') = Cardinality(sessions) + 1
        /\ Cardinality(sessions) \in Nat
    BY <2>1, <2>2, FS_AddElement, FS_CardinalityType DEF IInv, CountInv
  <2>4. Cardinality(sessions) + 1 <= maxConnections
    <3>1. Cardinality(sessions) + inFlightUpgrades < maxConnections /\ inFlightUpgrades \in Nat
      BY DEF Upgrade, HasRoom, IInv, TypeOK
    <3> QED
      BY <3>1, <2>3
  <2>5. stats.active = Cardinality(sessions) /\ stats.active <= stats.peak
        /\ stats.peak <= maxConnections /\ stats.total = Cardinality(Used)
        /\ stats.peak \in Nat
    BY DEF IInv, CountInv, StatsExact, Used, TypeOK
  <2>6. /\ stats'.active = stats.active + 1 /\ stats'.total = stats.total + 1
        /\ stats'.peak = IF stats.active + 1 > stats.peak THEN stats.active + 1 ELSE stats.peak
    BY DEF Upgrade, IInv, TypeOK
  <2>7. /\ stats'.active = Cardinality(sessions') /\ stats'.total = Cardinality(Used')
        /\ stats'.active <= stats'.peak /\ stats'.peak <= maxConnections
    BY <2>3, <2>4, <2>5, <2>6
  <2> QED
    BY <2>3, <2>7 DEF CountInv, StatsExact, Used
<1> QED
  BY <1>2, <1>3, <1>4 DEF IInv

\* An upgrade whose session could not be wired leaves no trace but a client
\* socket that closes.
LEMMA UpgradeFailsKeeps ==
  ASSUME IInv, NEW c \in Conn, UpgradeFails(c)
  PROVE  IInv'
<1>1. TypeOK'
  BY DEF UpgradeFails, IInv, TypeOK, ClientState
<1>2. Fresh(c) /\ client[c] = "none" /\ client' = [client EXCEPT ![c] = "closing"]
      /\ UNCHANGED <<sessions, upstream, pending, queuedBytes, idleTimer, stats, sent, got>>
  BY DEF UpgradeFails, IInv, ConnInv
<1>3. ASSUME NEW d \in Conn PROVE ConnInv(d)'
  <2>1. ConnInv(d) /\ (client'[d] = "none" => client[d] = "none")
    BY <1>2 DEF IInv, TypeOK
  <2> QED
    BY <1>2, <2>1 DEF ConnInv, Fresh, Paired, Timed, Ordered, Bounded
<1> QED
  BY <1>1, <1>2, <1>3, SameSessions DEF IInv

\* The close events of sockets, which end a session or find none.
LEMMA ClosedKeeps ==
  ASSUME IInv, NEW c \in Conn, ClientClosed(c) \/ UpstreamClosed(c)
  PROVE  IInv'
<1> USE RelayAssumption
<1>1. /\ sent' = sent /\ sent' \in [Conn -> Seq(Size)]
      /\ \A d \in Conn : IsPrefix(got[d], sent'[d])
      /\ stats \in [active : Nat, total : Nat, peak : Nat, up : Nat, down : Nat]
  BY DEF ClientClosed, UpstreamClosed, IInv, TypeOK, ConnInv, Ordered
<1>2. CASE c \in sessions
  <2>1. client[c] \in ClientState \ {"none"} /\ upstream[c] \in UpstreamState \ {"none"}
    BY <1>2, InvFacts
  <2>2. "closed" \in ClientState \ {"none"} /\ "closed" \in UpstreamState \ {"none"}
    BY DEF ClientState, UpstreamState
  <2>3. CASE CloseSession(c, "closed", upstream[c], FALSE, stats)
    BY <1>1, <1>2, <2>1, <2>2, <2>3, CloseSessionKeeps
  <2>4. CASE CloseSession(c, client[c], "closed", FALSE, stats)
    BY <1>1, <1>2, <2>1, <2>2, <2>4, CloseSessionKeeps
  <2> QED
    BY <1>2, <2>3, <2>4 DEF ClientClosed, UpstreamClosed
<1>3. CASE c \notin sessions
  <2>1. /\ UNCHANGED <<shuttingDown, sessions, inFlightUpgrades, pending, queuedBytes, age,
                       idleTimer, disposing, stats, sent, got, crashed>>
        /\ \/ client' = [client EXCEPT ![c] = "closed"] /\ upstream' = upstream
           \/ /\ upstream[c] = "closing" /\ client' = client
              /\ upstream' = [upstream EXCEPT ![c] = "closed"]
    BY <1>3 DEF ClientClosed, UpstreamClosed
  <2>2. client[c] = "closing" \/ upstream[c] = "closing"
    BY DEF ClientClosed, UpstreamClosed
  <2>3. client[c] # "none"
    BY <2>2, InvFacts DEF IInv, ConnInv, Fresh
  <2>4. TypeOK'
    BY <2>1 DEF IInv, TypeOK, ClientState, UpstreamState
  <2>5. ASSUME NEW d \in Conn
        PROVE  ConnInv(d)' /\ (upstream'[d] = "none" <=> upstream[d] = "none")
    <3>1. /\ client'[d] = "none" <=> client[d] = "none"
          /\ upstream'[d] = "none" <=> upstream[d] = "none"
          /\ d \in sessions => d # c
          /\ d # c => upstream'[d] = upstream[d]
          /\ client[d] = "none" => d # c
      BY <2>1, <2>3, <1>3 DEF IInv, TypeOK
    <3> QED
      BY <3>1, <2>1 DEF IInv, ConnInv, Fresh, Paired, Timed, Ordered, Bounded
  <2> QED
    BY <2>1, <2>4, <2>5, SameSessions DEF IInv
<1> QED
  BY <1>2, <1>3

\* The other handlers that end a session.
LEMMA SessionOverKeeps ==
  ASSUME IInv, NEW c \in sessions, sent' = sent,
         \/ CloseSession(c, "closing", upstream[c], TRUE, stats)
         \/ CloseSession(c, client[c], "closing", TRUE, stats)
         \/ CloseSession(c, client[c], upstream[c], TRUE, stats)
  PROVE  IInv'
<1>1. /\ sent' = sent /\ sent' \in [Conn -> Seq(Size)]
      /\ \A d \in Conn : IsPrefix(got[d], sent'[d])
      /\ stats \in [active : Nat, total : Nat, peak : Nat, up : Nat, down : Nat]
  BY DEF IInv, TypeOK, ConnInv, Ordered
<1>2. c \in sessions /\ c \in Conn
  BY DEF IInv, TypeOK
<1>3. client[c] \in ClientState \ {"none"} /\ upstream[c] \in UpstreamState \ {"none"}
  BY <1>2, InvFacts
<1>4. "closing" \in ClientState \ {"none"} /\ "closing" \in UpstreamState \ {"none"}
  BY DEF ClientState, UpstreamState
<1>5. CASE CloseSession(c, "closing", upstream[c], TRUE, stats)
  BY <1>1, <1>2, <1>3, <1>4, <1>5, CloseSessionKeeps
<1>6. CASE CloseSession(c, client[c], "closing", TRUE, stats)
  BY <1>1, <1>2, <1>3, <1>4, <1>6, CloseSessionKeeps
<1>7. CASE CloseSession(c, client[c], upstream[c], TRUE, stats)
  BY <1>1, <1>2, <1>3, <1>7, CloseSessionKeeps
<1> QED
  BY <1>5, <1>6, <1>7

\* The idle timer ends the session, or is spent.
LEMMA IdleKeeps ==
  ASSUME IInv, NEW c \in Conn, CheckIdleTimeout(c)
  PROVE  IInv'
<1>1. CASE IdleTooEarly(c)
  <2>1. /\ UNCHANGED <<shuttingDown, sessions, inFlightUpgrades, client, upstream, pending,
                       queuedBytes, age, disposing, stats, sent, got, crashed>>
        /\ idleTimer' \subseteq idleTimer
    BY <1>1 DEF IdleTooEarly
  <2>2. TypeOK' /\ \A d \in Conn : ConnInv(d)'
    BY <2>1 DEF IInv, TypeOK, ConnInv, Fresh, Paired, Timed, Ordered, Bounded
  <2> QED
    BY <2>1, <2>2, SameSessions DEF IInv
<1>2. CASE ~IdleTooEarly(c)
  <2>1. /\ CloseSession(c, client[c], upstream[c], TRUE, stats) /\ sent' = sent
        /\ c \in sessions
    BY <1>2 DEF CheckIdleTimeout, IInv, ConnInv, Timed
  <2> QED
    BY <2>1, SessionOverKeeps
<1> QED
  BY <1>1, <1>2

\* An upstream that cannot be reached: the session ends, or the process.
LEMMA UnreachableKeeps ==
  ASSUME IInv, NEW c \in Conn, UpstreamUnreachable(c)
  PROVE  IInv'
<1>1. /\ sent' = sent /\ sent' \in [Conn -> Seq(Size)]
      /\ \A d \in Conn : IsPrefix(got[d], sent'[d])
      /\ stats \in [active : Nat, total : Nat, peak : Nat, up : Nat, down : Nat]
  BY DEF UpstreamUnreachable, IInv, TypeOK, ConnInv, Ordered
<1>2. CASE c \in sessions
  <2>1. client[c] \in ClientState \ {"none"} /\ "closed" \in UpstreamState \ {"none"}
    BY <1>2, InvFacts DEF ClientState, UpstreamState
  <2>2. CloseSession(c, client[c], "closed", TRUE, stats)
    BY <1>2 DEF UpstreamUnreachable
  <2> QED
    BY <1>1, <1>2, <2>1, <2>2, CloseSessionKeeps
<1>3. CASE c \notin sessions
  <2>1. /\ UNCHANGED <<shuttingDown, sessions, inFlightUpgrades, client, upstream, pending,
                       queuedBytes, age, idleTimer, disposing, stats, sent, got>>
        /\ crashed' \in BOOLEAN
    BY <1>3 DEF UpstreamUnreachable
  <2>2. TypeOK' /\ \A d \in Conn : ConnInv(d)'
    BY <2>1 DEF IInv, TypeOK, ConnInv, Fresh, Paired, Timed, Ordered, Bounded
  <2> QED
    BY <2>1, <2>2, SameSessions DEF IInv
<1> QED
  BY <1>2, <1>3

\* A message that no longer fits ends the session; it counts as sent.
LEMMA BacklogFullKeeps ==
  ASSUME IInv, NEW c \in Conn, NEW size \in Size, BacklogFull(c, size)
  PROVE  IInv'
<1> USE RelayAssumption
<1>1. /\ c \in sessions /\ sent' = [sent EXCEPT ![c] = Append(sent[c], size)]
      /\ CloseSession(c, client[c], upstream[c], TRUE, Counted(size))
  BY DEF BacklogFull, Receive
<1>2. Append(sent[c], size) \in Seq(Size)
  BY InvFacts, AppendProperties
<1>3. ASSUME NEW d \in Conn PROVE IsPrefix(got[d], sent'[d])
  <2>1. IsPrefix(got[d], sent[d]) /\ got[d] \in Seq(Size) /\ sent[d] \in Seq(Size)
    BY DEF IInv, TypeOK, ConnInv, Ordered
  <2>2. CASE d = c
    BY <1>1, <2>1, <2>2, PrefixGrows DEF IInv, TypeOK
  <2>3. CASE d # c
    BY <1>1, <2>1, <2>3 DEF IInv, TypeOK
  <2> QED
    BY <2>2, <2>3
<1>4. sent' \in [Conn -> Seq(Size)] /\ \A d \in Conn \ {c} : sent'[d] = sent[d]
  BY <1>1, <1>2 DEF IInv, TypeOK
<1>5. /\ Counted(size) \in [active : Nat, total : Nat, peak : Nat, up : Nat, down : Nat]
      /\ Counted(size).total = stats.total /\ Counted(size).peak = stats.peak
  <2>1. stats.up + size \in Nat
    BY DEF IInv, TypeOK
  <2> QED
    BY <2>1 DEF IInv, TypeOK, Counted
<1>6. client[c] \in ClientState \ {"none"} /\ upstream[c] \in UpstreamState \ {"none"}
  BY <1>1, InvFacts
<1> QED
  BY <1>1, <1>3, <1>4, <1>5, <1>6, CloseSessionKeeps

\* Messages that are passed on, either way, or queued.
LEMMA TrafficKeeps ==
  ASSUME IInv, NEW c \in Conn, NEW size \in Size,
         Forward(c, size) \/ Queue(c, size) \/ Downstream(c, size)
  PROVE  IInv'
<1> USE RelayAssumption
<1>0. /\ UNCHANGED <<shuttingDown, sessions, inFlightUpgrades, client, upstream, disposing, crashed>>
      /\ c \in sessions /\ size \in Nat /\ 0 \in 0..IdleTimeout
      /\ age' = [age EXCEPT ![c] = 0] /\ idleTimer' = idleTimer \union {c}
  BY DEF Forward, Queue, Downstream, Receive
<1>1. /\ sent[c] \in Seq(Size) /\ got[c] \in Seq(Size) /\ pending[c] \in Seq(Size)
      /\ Append(sent[c], size) \in Seq(Size) /\ Append(got[c], size) \in Seq(Size)
      /\ Append(pending[c], size) \in Seq(Size)
      /\ queuedBytes[c] + size \in Nat
  BY <1>0, InvFacts, AppendProperties
<1>2. got[c] \o pending[c] = sent[c]
  BY <1>0 DEF IInv, ConnInv, Ordered
<1>3. /\ stats' \in [active : Nat, total : Nat, peak : Nat, up : Nat, down : Nat]
      /\ stats'.active = stats.active /\ stats'.total = stats.total /\ stats'.peak = stats.peak
  <2>1. stats.up + size \in Nat /\ stats.down + size \in Nat
    BY <1>0 DEF IInv, TypeOK
  <2>2. stats' = [stats EXCEPT !.up = stats.up + size]
        \/ stats' = [stats EXCEPT !.down = stats.down + size]
    BY DEF Forward, Queue, Downstream, Counted
  <2> QED
    BY <2>1, <2>2 DEF IInv, TypeOK
<1>4. /\ sent' \in [Conn -> Seq(Size)] /\ got' \in [Conn -> Seq(Size)]
      /\ pending' \in [Conn -> Seq(Size)] /\ queuedBytes' \in [Conn -> Nat]
  <2>1. CASE Forward(c, size)
    BY <2>1, <1>1 DEF Forward, Receive, IInv, TypeOK
  <2>2. CASE Queue(c, size)
    BY <2>2, <1>1 DEF Queue, Receive, IInv, TypeOK
  <2>3. CASE Downstream(c, size)
    BY <2>3 DEF Downstream, IInv, TypeOK
  <2> QED
    BY <2>1, <2>2, <2>3
<1>5. TypeOK'
  BY <1>0, <1>3, <1>4 DEF IInv, TypeOK
<1>6. \A d \in Conn \ {c} : /\ sent'[d] = sent[d] /\ got'[d] = got[d]
                            /\ pending'[d] = pending[d] /\ queuedBytes'[d] = queuedBytes[d]
  BY DEF Forward, Queue, Downstream, Receive, IInv, TypeOK
<1>7. Ordered(c)' /\ Bounded(c)'
  <2>1. CASE Forward(c, size)
    <3>1. pending[c] = << >> /\ pending'[c] = << >>
      BY <2>1, <1>0 DEF Forward, IInv, ConnInv, Bounded
    <3>2. got[c] = sent[c]
      BY <3>1, <1>1, <1>2, ConcatEmptySeq
    <3>3. got'[c] = Append(got[c], size) /\ sent'[c] = Append(sent[c], size)
      BY <2>1 DEF Forward, Receive, IInv, TypeOK
    <3>4. /\ got'[c] \o << >> = sent'[c] /\ IsPrefix(got'[c], sent'[c])
      BY <3>2, <3>3, <1>1, ConcatEmptySeq, PrefixOfItself
    <3>5. Ordered(c)'
      BY <3>1, <3>4 DEF Ordered
    <3>6. Bounded(c)'
      BY <2>1, <3>1, <1>0 DEF Forward, IInv, ConnInv, Bounded
    <3> QED
      BY <3>5, <3>6
  <2>2. CASE Queue(c, size)
    <3>1. /\ got'[c] = got[c] /\ sent'[c] = Append(sent[c], size) /\ upstream'[c] # "open"
          /\ pending'[c] = Append(pending[c], size) /\ queuedBytes'[c] = queuedBytes[c] + size
      BY <2>2 DEF Queue, Receive, IInv, TypeOK
    <3>2. /\ got[c] \o Append(pending[c], size) = Append(sent[c], size)
      <4>1. \A s, t \in Seq(Size) : s \o Append(t, size) = Append(s \o t, size)
        BY ConcatAppend
      <4> QED
        BY <4>1, <1>1, <1>2
    <3>3. Ordered(c)'
      BY <3>1, <3>2, <1>1, PrefixOfConcat DEF Ordered
    <3>4. Len(pending'[c]) = Len(pending[c]) + 1 /\ Len(pending[c]) \in Nat
      BY <3>1, <1>1, AppendProperties, LenProperties
    <3>5. Len(pending[c]) < MaxPendingMessages /\ queuedBytes[c] + size <= MaxPendingBytes
      BY <2>2 DEF Queue, QueueFits
    <3>6. Bounded(c)'
      BY <3>1, <3>4, <3>5 DEF Bounded
    <3> QED
      BY <3>3, <3>6
  <2>3. CASE Downstream(c, size)
    BY <2>3 DEF Downstream, IInv, ConnInv, Ordered, Bounded
  <2> QED
    BY <2>1, <2>2, <2>3
<1>8. ASSUME NEW d \in Conn PROVE ConnInv(d)'
  <2>1. CASE d = c
    BY <2>1, <1>0, <1>7, InvFacts DEF ConnInv, Fresh, Paired, Timed
  <2>2. CASE d # c
    BY <2>2, <1>0, <1>6 DEF IInv, ConnInv, Fresh, Paired, Timed, Ordered, Bounded
  <2> QED
    BY <2>1, <2>2
<1> QED
  BY <1>0, <1>3, <1>5, <1>8, SameSessions DEF IInv

\* onUpstreamOpen: the queue goes out behind what was sent before.
LEMMA OpenKeeps ==
  ASSUME IInv, NEW c \in Conn, UpstreamOpen(c)
  PROVE  IInv'
<1> USE RelayAssumption
<1>0. /\ UNCHANGED <<shuttingDown, sessions, inFlightUpgrades, client, disposing, stats, sent, crashed>>
      /\ upstream[c] = "connecting" /\ upstream' = [upstream EXCEPT ![c] = "open"]
      /\ idleTimer' = IF c \in sessions THEN idleTimer \union {c} ELSE idleTimer
      /\ client[c] # "none" /\ 0 \in 0..IdleTimeout
  <2>1. upstream[c] = "connecting" => client[c] # "none"
    BY DEF IInv, ConnInv, Fresh
  <2>2. 0 \in 0..IdleTimeout
    OBVIOUS
  <2>3. idleTimer' = IF c \in sessions THEN idleTimer \union {c} ELSE idleTimer
    BY DEF UpstreamOpen
  <2> QED
    BY <2>1, <2>2, <2>3, Zenon DEF UpstreamOpen
<1>1. /\ sent[c] \in Seq(Size) /\ got[c] \in Seq(Size) /\ pending[c] \in Seq(Size)
      /\ got[c] \o pending[c] \in Seq(Size) /\ << >> \in Seq(Size)
  BY InvFacts, ConcatProperties, EmptySeq
<1>2. /\ got' \in [Conn -> Seq(Size)] /\ pending' \in [Conn -> Seq(Size)]
      /\ queuedBytes' \in [Conn -> Nat] /\ age' \in [Conn -> 0..IdleTimeout]
  <2>1. CASE c \in sessions
    <3>1. got' \in [Conn -> Seq(Size)]
      <4>1. PICK q \in Seq(Size) : q = got[c] \o pending[c]
        BY <1>1
      <4>2. got' = [got EXCEPT ![c] = q]
        BY <2>1, <4>1 DEF UpstreamOpen
      <4> QED
        BY <4>2 DEF IInv, TypeOK
    <3>2. pending' \in [Conn -> Seq(Size)] /\ queuedBytes' \in [Conn -> Nat]
      <4>1. pending' = [pending EXCEPT ![c] = << >>] /\ pending \in [Conn -> Seq(Size)]
        BY <2>1 DEF UpstreamOpen, IInv, TypeOK
      <4>2. queuedBytes' = [queuedBytes EXCEPT ![c] = 0] /\ queuedBytes \in [Conn -> Nat]
        BY <2>1 DEF UpstreamOpen, IInv, TypeOK
      <4> QED
        BY <4>1, <4>2, <1>1
    <3>3. age' \in [Conn -> 0..IdleTimeout]
      BY <2>1, <1>0 DEF UpstreamOpen, IInv, TypeOK
    <3> QED
      BY <3>1, <3>2, <3>3
  <2>2. CASE c \notin sessions
    BY <2>2 DEF UpstreamOpen, IInv, TypeOK
  <2> QED
    BY <2>1, <2>2
<1>3. TypeOK'
  BY <1>0, <1>2 DEF IInv, TypeOK, UpstreamState, ClientState
<1>4. ASSUME NEW d \in Conn PROVE ConnInv(d)'
  <2>1. CASE d = c /\ c \in sessions
    <3>1. /\ got'[c] = got[c] \o pending[c] /\ pending'[c] = << >> /\ queuedBytes'[c] = 0
          /\ upstream'[c] = "open" /\ got[c] \o pending[c] = sent[c]
      BY <2>1, <1>0, SMTT(60) DEF UpstreamOpen, IInv, TypeOK, ConnInv, Ordered
    <3>2. sent[c] \o << >> = sent[c] /\ IsPrefix(sent[c], sent[c]) /\ Len(<< >>) = 0
      BY <1>1, ConcatEmptySeq, PrefixOfItself, EmptySeq
    <3> QED
      BY <2>1, <3>1, <3>2, <1>0 DEF ConnInv, Fresh, Paired, Timed, Ordered, Bounded
  <2>2. CASE d = c /\ c \notin sessions
    BY <2>2, <1>0 DEF UpstreamOpen, IInv, ConnInv, Fresh, Paired, Timed, Ordered, Bounded
  <2>3. CASE d # c
    <3>1. /\ upstream'[d] = upstream[d] /\ got'[d] = got[d]
          /\ pending'[d] = pending[d] /\ queuedBytes'[d] = queuedBytes[d]
      BY <2>3 DEF UpstreamOpen, IInv, TypeOK
    <3> QED
      BY <3>1, <1>0 DEF IInv, ConnInv, Fresh, Paired, Timed, Ordered, Bounded
  <2> QED
    BY <2>1, <2>2, <2>3
<1> QED
  BY <1>0, <1>3, <1>4, SameSessions DEF IInv

\* Steps that only move sockets towards their end, age the sessions or leak
\* a reservation.
LEMMA QuietKeeps ==
  ASSUME IInv,
         \/ \E c \in Conn : DelayedDispose(c) \/ ClientClosing(c) \/ UpstreamClosing(c)
         \/ HandshakeRefused \/ Tick
         \/ UNCHANGED vars
  PROVE  IInv'
<1> USE RelayAssumption
<1>1. /\ UNCHANGED <<shuttingDown, sessions, pending, queuedBytes, idleTimer, stats, sent, got,
                     crashed>>
      /\ disposing' \subseteq disposing
  BY DEF DelayedDispose, ClientClosing, UpstreamClosing, HandshakeRefused, Tick, vars
<1> DEFINE Towards ==
      /\ client' \in [Conn -> ClientState] /\ upstream' \in [Conn -> UpstreamState]
      /\ \A d \in Conn : /\ client'[d] = "none" <=> client[d] = "none"
                         /\ upstream'[d] = "none" <=> upstream[d] = "none"
                         /\ upstream'[d] = "open" => upstream[d] = "open"
<1>2. Towards
  <2>1. ASSUME NEW c \in Conn, DelayedDispose(c) PROVE Towards
    <3>1. client[c] \in ClientState /\ upstream[c] \in UpstreamState /\ client[c] \in UpstreamState
      BY InvFacts DEF UpstreamState
    <3>2. /\ client' = [client EXCEPT ![c] = Dispose(client[c])]
          /\ upstream' = [upstream EXCEPT ![c] = Dispose(upstream[c])]
      BY <2>1 DEF DelayedDispose
    <3> QED
      BY <3>1, <3>2, DisposeFacts DEF IInv, TypeOK
  <2>2. ASSUME NEW c \in Conn, ClientClosing(c) PROVE Towards
    BY <2>2 DEF ClientClosing, IInv, TypeOK, ClientState
  <2>3. ASSUME NEW c \in Conn, UpstreamClosing(c) PROVE Towards
    BY <2>3 DEF UpstreamClosing, IInv, TypeOK, ClientState, UpstreamState
  <2>4. CASE HandshakeRefused \/ Tick \/ UNCHANGED vars
    BY <2>4 DEF HandshakeRefused, Tick, vars, IInv, TypeOK
  <2> HIDE DEF Towards
  <2> QED
    BY <2>1, <2>2, <2>3, <2>4
<1>3. inFlightUpgrades' \in 0..maxConnections
  <2>1. CASE HandshakeRefused
    <3>1. Cardinality(sessions) \in Nat /\ inFlightUpgrades \in 0..maxConnections
      BY FS_CardinalityType DEF IInv, CountInv, TypeOK
    <3>2. Cardinality(sessions) + inFlightUpgrades < maxConnections
          /\ inFlightUpgrades' = inFlightUpgrades + 1
      BY <2>1 DEF HandshakeRefused, HasRoom
    <3> QED
      BY <3>1, <3>2
  <2>2. CASE ~HandshakeRefused
    BY <2>2 DEF DelayedDispose, ClientClosing, UpstreamClosing, Tick, vars, IInv, TypeOK
  <2> QED
    BY <2>1, <2>2
<1>4. age' \in [Conn -> 0..IdleTimeout]
  <2>1. CASE Tick
    <3>1. \A c \in Conn : age[c] \in 0..IdleTimeout
      BY DEF IInv, TypeOK
    <3>2. \A n \in 0..IdleTimeout : n < IdleTimeout => n + 1 \in 0..IdleTimeout
      OBVIOUS
    <3>3. \A c \in Conn :
            (IF c \in sessions /\ age[c] < IdleTimeout THEN age[c] + 1 ELSE age[c]) \in 0..IdleTimeout
      BY <3>1, <3>2
    <3> QED
      BY <2>1, <3>3 DEF Tick
  <2>2. CASE ~Tick
    BY <2>2 DEF DelayedDispose, ClientClosing, UpstreamClosing, HandshakeRefused, vars, IInv, TypeOK
  <2> QED
    BY <2>1, <2>2
<1>5. TypeOK'
  BY <1>1, <1>2, <1>3, <1>4 DEF IInv, TypeOK
<1>6. \A d \in Conn : ConnInv(d)'
  BY <1>1, <1>2 DEF IInv, ConnInv, Fresh, Paired, Timed, Ordered, Bounded
<1> QED
  BY <1>1, <1>2, <1>5, <1>6, SameSessions DEF IInv

\* close(): all sessions end at once.
LEMMA CloseKeeps ==
  ASSUME IInv, Close
  PROVE  IInv'
<1> USE RelayAssumption
<1>1. /\ sessions' = {} /\ idleTimer' = {} /\ stats' = [stats EXCEPT !.active = 0] /\ shuttingDown' \in BOOLEAN
      /\ UNCHANGED <<inFlightUpgrades, pending, queuedBytes, disposing, sent, got, crashed>>
      /\ age' = [c \in Conn |-> 0] /\ 0 \in 0..IdleTimeout
  BY DEF Close
<1>2. ASSUME NEW d \in Conn
      PROVE  /\ client'[d] \in ClientState /\ upstream'[d] \in UpstreamState
             /\ client'[d] = "none" <=> client[d] = "none"
             /\ upstream'[d] = "none" <=> upstream[d] = "none"
  <2>1. client[d] \in ClientState /\ client[d] \in UpstreamState /\ upstream[d] \in UpstreamState
    BY InvFacts DEF UpstreamState
  <2>2. /\ client'[d] = IF d \in sessions THEN Dispose(client[d]) ELSE client[d]
        /\ upstream'[d] = IF d \in sessions THEN Dispose(upstream[d]) ELSE upstream[d]
    BY DEF Close
  <2> QED
    BY <2>1, <2>2, DisposeFacts
<1>3. client' \in [Conn -> ClientState] /\ upstream' \in [Conn -> UpstreamState]
  <2>1. /\ client' = [c \in Conn |-> client'[c]]
        /\ upstream' = [c \in Conn |-> upstream'[c]]
    BY DEF Close
  <2> QED
    BY <1>2, <2>1
<1>4. TypeOK'
  BY <1>1, <1>3 DEF IInv, TypeOK
<1>5. \A d \in Conn : ConnInv(d)'
  BY <1>1, <1>2 DEF IInv, ConnInv, Fresh, Paired, Timed, Ordered, Bounded
<1>6. CountInv'
  <2>1. Used' = Used
    BY <1>2 DEF Used
  <2>2. IsFiniteSet(sessions') /\ Cardinality(sessions') = 0
    BY <1>1, FS_EmptySet
  <2>3. stats'.active = 0 /\ stats'.total = stats.total /\ stats'.peak = stats.peak
        /\ stats.peak \in Nat
    BY <1>1 DEF IInv, TypeOK
  <2> QED
    BY <2>1, <2>2, <2>3 DEF IInv, CountInv, StatsExact, Used
<1> QED
  BY <1>4, <1>5, <1>6 DEF IInv

-----------------------------------------------------------------------------
(* The theorems *)

LEMMA InitIInv == Init => IInv
<1> SUFFICES ASSUME Init PROVE IInv
  OBVIOUS
<1> USE RelayAssumption
<1>1. << >> \in Seq(Size) /\ Len(<< >>) = 0 /\ << >> \o << >> = << >> /\ IsPrefix(<< >>, << >>)
  BY EmptySeq, ConcatEmptySeq, PrefixOfItself
<1>2. TypeOK
  <2>1. 0 \in 0..IdleTimeout /\ 0 \in 0..maxConnections
    OBVIOUS
  <2>2. /\ pending \in [Conn -> Seq(Size)] /\ sent \in [Conn -> Seq(Size)]
        /\ got \in [Conn -> Seq(Size)]
    BY <1>1 DEF Init
  <2>3. /\ client \in [Conn -> ClientState] /\ upstream \in [Conn -> UpstreamState]
        /\ queuedBytes \in [Conn -> Nat] /\ age \in [Conn -> 0..IdleTimeout]
    BY <2>1 DEF Init, ClientState, UpstreamState
  <2>4. stats \in [active : Nat, total : Nat, peak : Nat, up : Nat, down : Nat]
    BY DEF Init
  <2> QED
    BY <2>1, <2>2, <2>3, <2>4 DEF Init, TypeOK
<1>3. \A c \in Conn : ConnInv(c)
  BY <1>1 DEF Init, ConnInv, Fresh, Paired, Timed, Ordered, Bounded
<1>4. CountInv
  <2>1. Used = {} /\ sessions = {}
    BY DEF Used, Init
  <2> QED
    <3>1. IsFiniteSet(sessions) /\ Cardinality(sessions) = 0 /\ IsFiniteSet(Used)
          /\ Cardinality(Used) = 0
      BY <2>1, FS_EmptySet
    <3>2. stats.active = 0 /\ stats.total = 0 /\ stats.peak = 0
      BY DEF Init
    <3> QED
      BY <3>1, <3>2 DEF CountInv, StatsExact, Used
<1> QED
  BY <1>2, <1>3, <1>4 DEF IInv

LEMMA NextIInv == IInv /\ [Next]_vars => IInv'
<1> SUFFICES ASSUME IInv, [Next]_vars PROVE IInv'
  OBVIOUS
<1>1. ASSUME NEW c \in Conn, Upgrade(c) PROVE IInv'
  BY <1>1, UpgradeKeeps
<1>2. ASSUME NEW c \in Conn, ClientClosed(c) \/ UpstreamClosed(c) PROVE IInv'
  BY <1>2, ClosedKeeps
<1>3. ASSUME NEW c \in Conn, ClientError(c) \/ UpstreamError(c) PROVE IInv'
  BY <1>3, SessionOverKeeps DEF ClientError, UpstreamError
<1>10. ASSUME NEW c \in Conn, CheckIdleTimeout(c) PROVE IInv'
  BY <1>10, IdleKeeps
<1>11. ASSUME NEW c \in Conn, UpgradeFails(c) PROVE IInv'
  BY <1>11, UpgradeFailsKeeps
<1>4. ASSUME NEW c \in Conn, UpstreamUnreachable(c) PROVE IInv'
  BY <1>4, UnreachableKeeps
<1>5. ASSUME NEW c \in Conn, UpstreamOpen(c) PROVE IInv'
  BY <1>5, OpenKeeps
<1>6. ASSUME NEW c \in Conn, NEW size \in Size,
             Forward(c, size) \/ Queue(c, size) \/ Downstream(c, size)
      PROVE  IInv'
  BY <1>6, TrafficKeeps
<1>7. ASSUME NEW c \in Conn, NEW size \in Size, BacklogFull(c, size) PROVE IInv'
  BY <1>7, BacklogFullKeeps
<1>8. CASE \/ \E c \in Conn : DelayedDispose(c) \/ ClientClosing(c) \/ UpstreamClosing(c)
           \/ HandshakeRefused \/ Tick
           \/ UNCHANGED vars
  BY <1>8, QuietKeeps
<1>9. CASE Close
  BY <1>9, CloseKeeps
<1> QED
  BY <1>1, <1>2, <1>3, <1>4, <1>5, <1>6, <1>7, <1>8, <1>9, <1>10, <1>11, Zenon DEF Next, SessionNext

THEOREM RelayInvariant == Spec => []IInv
BY InitIInv, NextIInv, PTL DEF Spec

\* Every variable of the relay keeps its type.
THEOREM RelayTypeCorrect == Spec => []TypeOK
<1>1. IInv => TypeOK
  BY DEF IInv
<1> QED
  BY <1>1, RelayInvariant, PTL

\* onClientMessage and onUpstreamOpen: however the upstream's opening falls
\* among the client's messages, the upstream gets them in order and once
\* each, and none is missing while the session lives.
THEOREM RelayInOrder == Spec => []InOrder
<1>1. IInv => InOrder
  BY DEF IInv, ConnInv, Ordered, InOrder
<1> QED
  BY <1>1, RelayInvariant, PTL

\* onClientMessage's two limits hold for every queue, and onUpstreamOpen
\* leaves none behind.
THEOREM RelayBacklogBounded == Spec => []BacklogBounded
<1>1. IInv => BacklogBounded
  BY DEF IInv, TypeOK, ConnInv, Bounded, BacklogBounded
<1> QED
  BY <1>1, RelayInvariant, PTL

\* closeSession and wireSession keep the counters of /status, and onUpgrade's
\* test keeps the sessions within maxConnections.
THEOREM RelayStatsExact == Spec => []StatsExact
<1>1. IInv => StatsExact
  BY DEF IInv, CountInv
<1> QED
  BY <1>1, RelayInvariant, PTL

-----------------------------------------------------------------------------
(* Bytes *)

\* Every nonempty set of numbers has a least one.
LEMMA NatLeast ==
  ASSUME NEW S, S \subseteq Nat, S # {}
  PROVE  \E x \in S : \A y \in S : x <= y
<1>1. PICK x \in S : \A y \in S : ~(<<y, x>> \in OpToRel(<, Nat))
  BY NatLessThanWellFounded, WFMin
<1>2. \A y \in S : x <= y
  <2> TAKE y \in S
  <2>1. x \in Nat /\ y \in Nat
    OBVIOUS
  <2>2. ~(y < x)
    BY <1>1, <2>1 DEF OpToRel
  <2> QED
    BY <2>1, <2>2
<1> QED
  BY <1>2

\* The partial sums of s.
Partial(f, s) ==
  /\ f \in [0..Len(s) -> Nat] /\ f[0] = 0
  /\ \A n \in 1..Len(s) : f[n] = f[n - 1] + s[n]

\* They exist, and Bytes is the last one: otherwise some beginning of s would
\* be the shortest without them, or the shortest with two.
LEMMA BytesSums ==
  ASSUME NEW s \in Seq(Nat)
  PROVE  \E f : Partial(f, s) /\ Bytes(s) = f[Len(s)]
<1> DEFINE Step(f, i) == IF i = 0 THEN 0 ELSE f[i - 1] + s[i]
           Rec(f, n) == f = [i \in 0..n |-> Step(f, i)]
           Bad == {n \in 0..Len(s) : ~(\E f : Rec(f, n))}
<1>1. Len(s) \in Nat /\ \A i \in 1..Len(s) : s[i] \in Nat
  OBVIOUS
<1> HIDE DEF Rec, Step
<1>2. \E f : Rec(f, Len(s))
  <2>1. CASE Bad = {}
    <3>1. Len(s) \notin Bad /\ Len(s) \in 0..Len(s)
      BY <2>1, <1>1
    <3> QED
      BY <3>1
  <2>2. CASE Bad # {}
    <3>1. Bad \subseteq Nat
      BY <1>1
    <3>2. PICK n \in Bad : \A y \in Bad : n <= y
      <4> HIDE DEF Bad
      <4> QED
        BY <2>2, <3>1, NatLeast
    <3>3. n \in 0..Len(s) /\ ~(\E f : Rec(f, n))
      BY <3>2
    <3>4. n # 0
      <4>1. Rec([i \in 0..0 |-> 0], 0)
        BY DEF Rec, Step
      <4> QED
        BY <4>1, <3>3
    <3>5. n - 1 \in 0..Len(s) /\ n - 1 \notin Bad
      <4>1. n - 1 \in 0..Len(s) /\ ~(n <= n - 1)
        BY <3>3, <3>4, <1>1
      <4> HIDE DEF Bad
      <4> QED
        BY <3>2, <4>1
    <3>6. PICK f : Rec(f, n - 1)
      BY <3>5
    <3> DEFINE g == [i \in 0..n |-> Step(f, i)]
    <3>7. ASSUME NEW i \in 0..n - 1 PROVE g[i] = f[i]
      <4>1. i \in 0..n
        BY <3>3
      <4>2. f = [j \in 0..n - 1 |-> Step(f, j)]
        BY <3>6, Zenon DEF Rec
      <4>3. f[i] = Step(f, i)
        BY <4>2, Zenon
      <4> QED
        BY <4>1, <4>3, Zenon
    <3>8. Rec(g, n)
      <4>1. \A i \in 0..n : Step(f, i) = Step(g, i)
        <5> HIDE DEF g
        <5>1. \A i \in 0..n : i # 0 => f[i - 1] = g[i - 1]
          BY <3>7, <3>3
        <5> QED
          BY <5>1, Zenon DEF Step
      <4> QED
        BY <4>1, Zenon DEF Rec
    <3> QED
      BY <3>3, <3>8
  <2> QED
    BY <2>1, <2>2
<1>3. PICK f : Rec(f, Len(s)) /\ Bytes(s) = f[Len(s)]
  <2>1. Bytes(s) = (CHOOSE f : Rec(f, Len(s)))[Len(s)]
    BY Zenon DEF Bytes, Rec, Step
  <2>2. Rec(CHOOSE f : Rec(f, Len(s)), Len(s))
    BY <1>2, Zenon
  <2> QED
    BY <2>1, <2>2
<1>4. /\ f = [i \in 0..Len(s) |-> f[i]]
      /\ \A i \in 0..Len(s) : f[i] = IF i = 0 THEN 0 ELSE f[i - 1] + s[i]
  BY <1>3, Zenon DEF Rec, Step
<1> DEFINE Ill == {n \in 0..Len(s) : f[n] \notin Nat}
<1>5. Ill = {}
  <2> SUFFICES ASSUME Ill # {} PROVE FALSE
    OBVIOUS
  <2>1. Ill \subseteq Nat
    BY <1>1
  <2>2. PICK n \in Ill : \A y \in Ill : n <= y
    <3> HIDE DEF Ill
    <3> QED
      BY <2>1, NatLeast
  <2>3. n \in 0..Len(s) /\ f[n] \notin Nat
    BY <2>2
  <2>4. n # 0 /\ f[n] = f[n - 1] + s[n]
    <3>1. f[n] = IF n = 0 THEN 0 ELSE f[n - 1] + s[n]
      BY <1>4, <2>3
    <3> QED
      BY <3>1, <2>3
  <2>5. n - 1 \in 0..Len(s) /\ n - 1 \notin Ill
    BY <2>1, <2>2, <2>3, <2>4, <1>1
  <2> QED
    BY <2>3, <2>4, <2>5, <1>1
<1>6. Partial(f, s)
  BY <1>1, <1>4, <1>5 DEF Partial
<1> QED
  BY <1>3, <1>6

\* Sums that add up are the only ones.
LEMMA BytesIs ==
  ASSUME NEW s \in Seq(Nat), NEW f, Partial(f, s)
  PROVE  Bytes(s) = f[Len(s)]
<1>1. PICK g : Partial(g, s) /\ Bytes(s) = g[Len(s)]
  BY BytesSums
<1>2. Len(s) \in Nat /\ \A i \in 1..Len(s) : s[i] \in Nat
  OBVIOUS
<1> DEFINE Ill == {n \in 0..Len(s) : f[n] # g[n]}
<1>3. Ill = {}
  <2> SUFFICES ASSUME Ill # {} PROVE FALSE
    OBVIOUS
  <2>1. Ill \subseteq Nat
    BY <1>2
  <2>2. PICK n \in Ill : \A y \in Ill : n <= y
    <3> HIDE DEF Ill
    <3> QED
      BY <2>1, NatLeast
  <2>3. n \in 0..Len(s) /\ f[n] # g[n]
    BY <2>2
  <2>4. n # 0
    BY <1>1, <2>3 DEF Partial
  <2>5. n \in 1..Len(s) /\ n - 1 \in 0..Len(s) /\ n - 1 \notin Ill
    BY <2>1, <2>2, <2>3, <2>4, <1>2
  <2> QED
    BY <1>1, <2>3, <2>5 DEF Partial
<1> QED
  BY <1>1, <1>2, <1>3

\* Nothing, one message more, one sum of several grown, and nothing but zeros.
LEMMA BytesEmpty == Bytes(<< >>) = 0
<1>1. << >> \in Seq(Nat) /\ Len(<< >>) = 0
  OBVIOUS
<1>2. Partial([n \in 0..0 |-> 0], << >>)
  BY <1>1 DEF Partial
<1> QED
  BY <1>1, <1>2, BytesIs

LEMMA BytesAppend ==
  ASSUME NEW s \in Seq(Nat), NEW x \in Nat
  PROVE  Bytes(s) \in Nat /\ Bytes(Append(s, x)) = Bytes(s) + x
<1>1. PICK f : Partial(f, s) /\ Bytes(s) = f[Len(s)]
  BY BytesSums
<1> DEFINE t == Append(s, x)
           g == [n \in 0..Len(s) + 1 |-> IF n <= Len(s) THEN f[n] ELSE f[Len(s)] + x]
<1>2. /\ t \in Seq(Nat) /\ Len(t) = Len(s) + 1 /\ Len(s) \in Nat
      /\ \A i \in 1..Len(s) : t[i] = s[i]
      /\ t[Len(s) + 1] = x
  BY AppendProperties, LenProperties
<1>3. f[Len(s)] \in Nat
  BY <1>1, <1>2 DEF Partial
<1>4. Partial(g, t)
  <2>1. f \in [0..Len(s) -> Nat] /\ f[0] = 0 /\ \A n \in 1..Len(s) : f[n] = f[n - 1] + s[n]
    BY <1>1 DEF Partial
  <2>2. \A n \in 0..Len(s) : f[n] \in Nat
    BY <2>1
  <2> HIDE DEF t
  <2>3. g \in [0..Len(s) + 1 -> Nat] /\ g[0] = 0
    BY <2>1, <2>2, <1>2, <1>3
  <2>4. ASSUME NEW n \in 1..Len(s) + 1 PROVE g[n] = g[n - 1] + t[n]
    <3>1. n \in 0..Len(s) + 1 /\ n - 1 \in 0..Len(s) + 1 /\ n - 1 <= Len(s)
      BY <1>2
    <3>2. /\ g[n] = IF n <= Len(s) THEN f[n] ELSE f[Len(s)] + x
          /\ g[n - 1] = f[n - 1]
      BY <3>1
    <3>3. CASE n <= Len(s)
      BY <2>1, <3>2, <3>3, <1>2
    <3>4. CASE n = Len(s) + 1
      <4>1. n - 1 = Len(s) /\ ~(n <= Len(s))
        BY <3>4, <1>2
      <4> QED
        BY <3>2, <3>4, <4>1, <1>2
    <3> QED
      BY <3>3, <3>4, <1>2
  <2> QED
    BY <2>3, <2>4, <1>2 DEF Partial
<1>5. g[Len(t)] = f[Len(s)] + x
  <2> HIDE DEF t
  <2> QED
    BY <1>2
<1> QED
  BY <1>1, <1>2, <1>3, <1>4, <1>5, BytesIs

\* One number grows by x, and so does the sum.
LEMMA BytesGrow ==
  ASSUME NEW s \in Seq(Nat), NEW t \in Seq(Nat), Len(t) = Len(s), NEW k \in 1..Len(s), NEW x \in Nat,
         t[k] = s[k] + x, \A i \in 1..Len(s) : i # k => t[i] = s[i]
  PROVE  Bytes(t) = Bytes(s) + x
<1>1. PICK f : Partial(f, s) /\ Bytes(s) = f[Len(s)]
  BY BytesSums
<1> DEFINE g == [n \in 0..Len(s) |-> IF n < k THEN f[n] ELSE f[n] + x]
<1>2. Len(s) \in Nat /\ \A i \in 1..Len(s) : s[i] \in Nat /\ t[i] \in Nat
  BY SMTT(60)
<1>3. Partial(g, t)
  <2>1. f \in [0..Len(s) -> Nat] /\ f[0] = 0 /\ \A n \in 1..Len(s) : f[n] = f[n - 1] + s[n]
    BY <1>1 DEF Partial
  <2>0. \A n \in 0..Len(s) : f[n] \in Nat
    BY <2>1
  <2>2. g \in [0..Len(s) -> Nat] /\ g[0] = 0
    <3>1. 0 < k /\ 0 \in 0..Len(s) /\ k \in Nat
      BY <1>2
    <3>2. \A n \in 0..Len(s) : (IF n < k THEN f[n] ELSE f[n] + x) \in Nat
      <4> TAKE n \in 0..Len(s)
      <4>1. f[n] \in Nat
        BY <2>0
      <4>2. f[n] + x \in Nat
        BY <4>1, SMTT(60)
      <4> QED
        BY <4>1, <4>2
    <3>3. g[0] = 0
      BY <2>1, <3>1
    <3> QED
      BY <3>2, <3>3
  <2>3. ASSUME NEW n \in 1..Len(s) PROVE g[n] = g[n - 1] + t[n]
    <3>1. n \in 0..Len(s) /\ n - 1 \in 0..Len(s) /\ f[n - 1] \in Nat /\ s[n] \in Nat
      BY <2>0, <1>2, SMTT(60)
    <3>2. f[n] = f[n - 1] + s[n]
      BY <2>1
    <3>3. /\ g[n] = IF n < k THEN f[n] ELSE f[n] + x
          /\ g[n - 1] = IF n - 1 < k THEN f[n - 1] ELSE f[n - 1] + x
      BY <3>1
    <3>4. t[n] = IF n = k THEN s[n] + x ELSE s[n]
      OBVIOUS
    <3> HIDE DEF g
    <3>5. k \in Nat /\ n \in Nat
      BY <1>2
    <3>6. CASE n < k
      BY <3>1, <3>2, <3>3, <3>4, <3>5, <3>6
    <3>7. CASE n = k
      <4>1. g[n] = f[n] + x /\ g[n - 1] = f[n - 1] /\ t[n] = s[n] + x
        BY <3>3, <3>4, <3>5, <3>7
      <4> QED
        BY <4>1, <3>1, <3>2, SMTT(60)
    <3>8. CASE n > k
      <4>1. g[n] = f[n] + x /\ g[n - 1] = f[n - 1] + x /\ t[n] = s[n]
        BY <3>3, <3>4, <3>5, <3>8
      <4> QED
        BY <4>1, <3>1, <3>2, SMTT(60)
    <3> QED
      BY <3>5, <3>6, <3>7, <3>8
  <2> QED
    BY <2>2, <2>3 DEF Partial
<1>4. g[Len(s)] = f[Len(s)] + x
  BY <1>2
<1> QED
  BY <1>1, <1>3, <1>4, BytesIs

LEMMA BytesZero ==
  ASSUME NEW s \in Seq(Nat), \A i \in 1..Len(s) : s[i] = 0
  PROVE  Bytes(s) = 0
<1>1. Len(s) \in Nat
  OBVIOUS
<1>2. Partial([n \in 0..Len(s) |-> 0], s)
  BY <1>1 DEF Partial
<1> QED
  BY <1>1, <1>2, BytesIs
\* An enumeration of the connections names each of them once.
LEMMA ConnOrder ==
  /\ Cardinality(Conn) \in Nat
  /\ SetToSeq(Conn) \in [1..Cardinality(Conn) -> Conn]
  /\ \A c \in Conn : \E k \in 1..Cardinality(Conn) :
       /\ SetToSeq(Conn)[k] = c
       /\ \A i \in 1..Cardinality(Conn) : SetToSeq(Conn)[i] = c => i = k
<1> DEFINE n == Cardinality(Conn)
           order == SetToSeq(Conn)
<1>1. n \in Nat /\ ExistsBijection(1..n, Conn)
  BY ConnAssumption, FS_CardinalityType
<1>2. \E f \in [1..n -> Conn] : IsInjective(f)
  BY <1>1 DEF ExistsBijection, Bijection, Injection
<1>3. order \in [1..n -> Conn] /\ IsInjective(order)
  BY <1>2, Zenon DEF SetToSeq
<1>4. order \in Injection(1..n, Conn)
  BY <1>3, Zenon DEF Injection
<1>5. IsFiniteSet(1..n) /\ Cardinality(1..n) = n
  BY <1>1, FS_Interval
<1>6. order \in Surjection(1..n, Conn)
  BY <1>4, <1>5, ConnAssumption, FS_Injection
<1> HIDE DEF order, n
<1>7. ASSUME NEW c \in Conn
      PROVE  \E k \in 1..n : order[k] = c /\ \A i \in 1..n : order[i] = c => i = k
  <2>1. PICK k \in 1..n : order[k] = c
    BY <1>6 DEF Surjection
  <2>2. \A i \in 1..n : order[i] = c => i = k
    BY <1>3, <2>1 DEF IsInjective
  <2> QED
    BY <2>1, <2>2
<1> QED
  BY <1>1, <1>3, <1>7 DEF n, order

\* Bytes of each client, in the order of the enumeration.
SentBytes == [i \in 1..Cardinality(Conn) |-> Bytes(sent[SetToSeq(Conn)[i]])]

LEMMA SeqOfMore ==
  ASSUME NEW S, NEW T, S \subseteq T, NEW s \in Seq(S)
  PROVE  s \in Seq(T)
<1>1. s = [i \in 1..Len(s) |-> s[i]] /\ Len(s) \in Nat /\ \A i \in 1..Len(s) : s[i] \in T
  OBVIOUS
<1>2. [i \in 1..Len(s) |-> s[i]] \in Seq(T)
  BY <1>1
<1> QED
  BY <1>1, <1>2

LEMMA SentBytesType ==
  ASSUME TypeOK
  PROVE  /\ SentBytes \in Seq(Nat) /\ Len(SentBytes) = Cardinality(Conn)
         /\ \A c \in Conn : sent[c] \in Seq(Nat) /\ pending[c] \in Seq(Nat)
<1>1. \A c \in Conn : sent[c] \in Seq(Nat) /\ pending[c] \in Seq(Nat)
  <2>1. \A s \in Seq(Size) : s \in Seq(Nat)
    BY RelayAssumption, SeqOfMore
  <2>2. \A c \in Conn : sent[c] \in Seq(Size) /\ pending[c] \in Seq(Size)
    BY DEF TypeOK
  <2> QED
    BY <2>1, <2>2
<1>2. \A i \in 1..Cardinality(Conn) : Bytes(sent[SetToSeq(Conn)[i]]) \in Nat
  <2> TAKE i \in 1..Cardinality(Conn)
  <2>1. SetToSeq(Conn)[i] \in Conn
    BY ConnOrder
  <2> QED
    BY <1>1, <2>1, BytesAppend
<1> QED
  BY <1>1, <1>2, ConnOrder DEF SentBytes

\* A step either receives a message, which it counts, or touches neither the
\* messages nor their count.
LEMMA Accounting ==
  ASSUME IInv, [Next]_vars
  PROVE  \/ sent' = sent /\ stats'.up = stats.up
         \/ \E c \in Conn, size \in Size :
              /\ sent' = [sent EXCEPT ![c] = Append(sent[c], size)]
              /\ stats'.up = stats.up + size
<1> DEFINE Same == sent' = sent /\ stats'.up = stats.up
<1>0. stats \in [active : Nat, total : Nat, peak : Nat, up : Nat, down : Nat]
  BY DEF IInv, TypeOK
<1>1. ASSUME NEW c \in Conn, Upgrade(c) PROVE Same
  BY <1>0, <1>1 DEF Upgrade
<1>2. ASSUME NEW c \in Conn, NEW cs, NEW us, NEW now, CloseSession(c, cs, us, now, stats), sent' = sent
      PROVE  Same
  BY <1>0, <1>2 DEF CloseSession
<1>3. ASSUME NEW c \in Conn, \/ ClientClosed(c) \/ UpstreamClosed(c) \/ ClientError(c)
                             \/ UpstreamError(c) \/ UpstreamUnreachable(c) \/ CheckIdleTimeout(c)
      PROVE  Same
  <2> HIDE DEF Same
  <2>1. sent' = sent
    BY <1>3 DEF ClientClosed, UpstreamClosed, ClientError, UpstreamError, UpstreamUnreachable,
                CheckIdleTimeout, IdleTooEarly
  <2>2. \/ \E cs, us, now : CloseSession(c, cs, us, now, stats)
        \/ UNCHANGED stats
    BY <1>3, Zenon DEF ClientClosed, UpstreamClosed, ClientError, UpstreamError,
                       UpstreamUnreachable, CheckIdleTimeout, IdleTooEarly
  <2>3. CASE UNCHANGED stats
    BY <2>1, <2>3 DEF Same
  <2> QED
    BY <2>1, <2>2, <2>3, <1>2
<1>4. ASSUME \/ \E c \in Conn : \/ DelayedDispose(c) \/ ClientClosing(c) \/ UpstreamClosing(c)
                                 \/ UpstreamOpen(c) \/ UpgradeFails(c)
             \/ HandshakeRefused \/ Tick \/ UNCHANGED vars
      PROVE  Same
  BY <1>4 DEF DelayedDispose, ClientClosing, UpstreamClosing, UpstreamOpen, UpgradeFails,
              HandshakeRefused, Tick, vars
<1>5. ASSUME Close PROVE Same
  BY <1>0, <1>5 DEF Close
<1>6. ASSUME NEW c \in Conn, NEW size \in Size, Downstream(c, size) PROVE Same
  BY <1>0, <1>6 DEF Downstream
<1>7. ASSUME NEW c \in Conn, NEW size \in Size,
             Forward(c, size) \/ Queue(c, size) \/ BacklogFull(c, size)
      PROVE  sent' = [sent EXCEPT ![c] = Append(sent[c], size)] /\ stats'.up = stats.up + size
  <2>1. sent' = [sent EXCEPT ![c] = Append(sent[c], size)]
    BY <1>7 DEF Forward, Queue, BacklogFull, Receive
  <2>2. Counted(size) \in [active : Nat, total : Nat, peak : Nat, up : Nat, down : Nat]
        /\ Counted(size).up = stats.up + size
    BY <1>0, RelayAssumption DEF Counted
  <2>3. CASE Forward(c, size) \/ Queue(c, size)
    BY <2>1, <2>2, <2>3 DEF Forward, Queue
  <2>4. CASE BacklogFull(c, size)
    <3>1. stats' = [Counted(size) EXCEPT !.active = Cardinality(sessions \ {c})]
      BY <2>4 DEF BacklogFull, CloseSession
    <3> QED
      BY <2>1, <2>2, <3>1
  <2> QED
    BY <1>7, <2>3, <2>4
<1> HIDE DEF Same
<1>8. Same \/ \E c \in Conn, size \in Size :
                 Forward(c, size) \/ Queue(c, size) \/ BacklogFull(c, size)
  BY <1>1, <1>3, <1>4, <1>5, <1>6, Zenon DEF Next, SessionNext
<1>9. CASE Same
  BY <1>9 DEF Same
<1> QED
  BY <1>7, <1>8, <1>9

\* The bytes of all clients, and those of each queue, survive every step.
LEMMA BytesKept ==
  ASSUME IInv, IInv', [Next]_vars, BytesExact
  PROVE  BytesExact'
<1>1. /\ SentBytes \in Seq(Nat) /\ Len(SentBytes) = Cardinality(Conn)
      /\ \A c \in Conn : sent[c] \in Seq(Nat) /\ pending[c] \in Seq(Nat)
  BY SentBytesType DEF IInv
<1>2. SentBytes' \in Seq(Nat) /\ Len(SentBytes') = Cardinality(Conn)
  <2>1. TypeOK'
    BY DEF IInv
  <2>2. \A c \in Conn : sent'[c] \in Seq(Nat)
    <3>1. \A s \in Seq(Size) : s \in Seq(Nat)
      BY RelayAssumption, SeqOfMore
    <3> QED
      BY <2>1, <3>1 DEF TypeOK
  <2>3. \A i \in 1..Cardinality(Conn) : Bytes(sent'[SetToSeq(Conn)[i]]) \in Nat
    <3> TAKE i \in 1..Cardinality(Conn)
    <3>1. SetToSeq(Conn)[i] \in Conn
      BY ConnOrder
    <3> QED
      BY <2>2, <3>1, BytesAppend
  <2> QED
    BY <2>3, ConnOrder DEF SentBytes
<1>3. stats.up = Bytes(SentBytes)
  BY DEF BytesExact, SentBytes
<1>4. stats'.up = Bytes(SentBytes')
  <2>1. CASE sent' = sent /\ stats'.up = stats.up
    BY <1>3, <2>1 DEF SentBytes
  <2>2. ASSUME NEW c \in Conn, NEW size \in Size,
               sent' = [sent EXCEPT ![c] = Append(sent[c], size)], stats'.up = stats.up + size
        PROVE  stats'.up = Bytes(SentBytes')
    <3>1. PICK k \in 1..Cardinality(Conn) :
            /\ SetToSeq(Conn)[k] = c
            /\ \A i \in 1..Cardinality(Conn) : SetToSeq(Conn)[i] = c => i = k
      BY ConnOrder
    <3>2. size \in Nat /\ Bytes(Append(sent[c], size)) = Bytes(sent[c]) + size
      BY <1>1, RelayAssumption, BytesAppend
    <3>3. sent'[c] = Append(sent[c], size) /\ \A d \in Conn : d # c => sent'[d] = sent[d]
      BY <2>2 DEF IInv, TypeOK
    <3>4. SentBytes'[k] = SentBytes[k] + size
      BY <3>1, <3>2, <3>3 DEF SentBytes
    <3>5. ASSUME NEW i \in 1..Cardinality(Conn), i # k PROVE SentBytes'[i] = SentBytes[i]
      <4>1. SetToSeq(Conn)[i] \in Conn /\ SetToSeq(Conn)[i] # c
        BY <3>1, <3>5, ConnOrder
      <4> QED
        BY <4>1, <3>3 DEF SentBytes
    <3>6. Bytes(SentBytes') = Bytes(SentBytes) + size
      <4> DEFINE old == SentBytes
                 new == SentBytes'
      <4>1. /\ old \in Seq(Nat) /\ new \in Seq(Nat) /\ Len(new) = Len(old)
            /\ k \in 1..Len(old) /\ new[k] = old[k] + size
            /\ \A i \in 1..Len(old) : i # k => new[i] = old[i]
        BY <1>1, <1>2, <3>1, <3>4, <3>5
      <4> HIDE DEF old, new
      <4>2. Bytes(new) = Bytes(old) + size
        BY <4>1, <3>2, BytesGrow
      <4> QED
        BY <4>2 DEF old, new
    <3> QED
      BY <2>2, <1>3, <3>6
  <2> QED
    BY <2>1, <2>2, Accounting
<1>5. ASSUME NEW c \in sessions' PROVE queuedBytes'[c] = Bytes(pending'[c])
  <2>1. c \in Conn /\ queuedBytes \in [Conn -> Nat] /\ pending \in [Conn -> Seq(Size)]
    BY DEF IInv, TypeOK
  <2>2. c \in sessions => queuedBytes[c] = Bytes(pending[c])
    BY DEF BytesExact
  <2>3. CASE \E d \in Conn : Upgrade(d)
    <3>1. PICK d \in Conn : Upgrade(d)
      BY <2>3
    <3>2. /\ sessions' = sessions \cup {d} /\ queuedBytes' = queuedBytes /\ pending' = pending
          /\ client[d] = "none"
      BY <3>1 DEF Upgrade
    <3>3. queuedBytes[d] = 0 /\ pending[d] = << >>
      BY <3>2 DEF IInv, ConnInv, Fresh
    <3> QED
      BY <2>2, <3>2, <3>3, BytesEmpty
  <2>4. CASE \E d \in Conn, size \in Size : Queue(d, size)
    <3>1. PICK d \in Conn, size \in Size : Queue(d, size)
      BY <2>4
    <3>2. /\ sessions' = sessions
          /\ queuedBytes' = [queuedBytes EXCEPT ![d] = queuedBytes[d] + size]
          /\ pending' = [pending EXCEPT ![d] = Append(pending[d], size)]
      BY <3>1 DEF Queue
    <3>3. size \in Nat /\ Bytes(Append(pending[d], size)) = Bytes(pending[d]) + size
      BY <1>1, RelayAssumption, BytesAppend
    <3>4. CASE c = d
      BY <2>1, <2>2, <3>2, <3>3, <3>4
    <3>5. CASE c # d
      BY <2>1, <2>2, <3>2, <3>5
    <3> QED
      BY <3>4, <3>5
  <2>5. CASE \E d \in Conn : UpstreamOpen(d)
    <3>1. PICK d \in Conn : UpstreamOpen(d)
      BY <2>5
    <3>2. sessions' = sessions
      BY <3>1 DEF UpstreamOpen
    <3>3. CASE c = d
      BY <2>1, <3>1, <3>2, <3>3, BytesEmpty DEF UpstreamOpen
    <3>4. CASE c # d
      <4>1. queuedBytes'[c] = queuedBytes[c] /\ pending'[c] = pending[c]
        BY <2>1, <3>1, <3>4 DEF UpstreamOpen
      <4> QED
        BY <2>2, <3>2, <4>1
    <3> QED
      BY <3>3, <3>4
  <2>6. CASE ~(\/ \E d \in Conn : Upgrade(d) \/ UpstreamOpen(d)
               \/ \E d \in Conn, size \in Size : Queue(d, size))
    <3>1. sessions' \subseteq sessions /\ queuedBytes' = queuedBytes /\ pending' = pending
      BY <2>6, ZenonT(60) DEF Next, SessionNext, vars, DelayedDispose, ClientClosing, ClientClosed, ClientError,
                  UpstreamClosing, UpstreamClosed, UpstreamError, UpstreamUnreachable, CheckIdleTimeout,
                  IdleTooEarly, UpgradeFails,
                  Forward, BacklogFull, Downstream, HandshakeRefused, Tick, Close, CloseSession
    <3> QED
      BY <2>2, <3>1
  <2> QED
    BY <2>3, <2>4, <2>5, <2>6
<1> QED
  BY <1>4, <1>5 DEF BytesExact, SentBytes

\* onClientMessage counts every byte of every client once, queued or sent or
\* refused, however the messages of any number of clients interleave; and the
\* bytes a queue is limited by are those in it.
THEOREM RelayBytesExact == Spec => []BytesExact
<1>1. Init => BytesExact
  <2> SUFFICES ASSUME Init PROVE BytesExact
    OBVIOUS
  <2>1. TypeOK
    BY InitIInv DEF IInv
  <2>2. \A i \in 1..Cardinality(Conn) : SentBytes[i] = 0
    <3> TAKE i \in 1..Cardinality(Conn)
    <3>1. SetToSeq(Conn)[i] \in Conn
      BY ConnOrder
    <3>2. sent[SetToSeq(Conn)[i]] = << >>
      BY <3>1 DEF Init
    <3> QED
      BY <3>2, BytesEmpty DEF SentBytes
  <2>3. Bytes(SentBytes) = 0
    BY <2>1, <2>2, SentBytesType, BytesZero
  <2> QED
    BY <2>3 DEF Init, BytesExact, SentBytes
<1>2. IInv /\ IInv' /\ [Next]_vars /\ BytesExact => BytesExact'
  BY BytesKept
<1> QED
  BY <1>1, <1>2, RelayInvariant, PTL DEF Spec

-----------------------------------------------------------------------------
(* The process *)

\* What main makes of the command line and the environment.
Values == merged(parseArgs(argv).config, parseRelayProxyEnv(env))

\* From its configuration on, the process runs with what it was started with,
\* through every change of phase and of the files it watches.
OptionsInv ==
  phase \notin {"start", "exited"} => options = normalizeRuntimeOptions(Values)

LEMMA ProcessOptionsInv == ProcessSpec => []OptionsInv
<1>1. ProcessInit => OptionsInv
  BY DEF ProcessInit, OptionsInv
<1>2. OptionsInv /\ [ProcessNext]_processVars => OptionsInv'
  <2> SUFFICES ASSUME OptionsInv, [ProcessNext]_processVars PROVE OptionsInv'
    OBVIOUS
  <2> DEFINE Kept == /\ argv' = argv /\ env' = env /\ options' = options
                     /\ phase' # phase => phase \notin {"start", "exited"}
  <2>1. CASE Configure
    <3>1. argv' = argv /\ env' = env
      BY <2>1 DEF Configure
    <3>2. phase' = "exited" \/ options' = normalizeRuntimeOptions(Values)
      BY <2>1 DEF Configure, Values
    <3> QED
      BY <3>1, <3>2 DEF OptionsInv, Values
  <2>2. CASE createRelayProxyServer
    <3>1. Kept
      BY <2>2 DEF createRelayProxyServer
    <3> QED
      BY <3>1 DEF OptionsInv, Values
  <2>3. CASE RefreshUnavailable \/ updateUpstreamTlsWatchState
    <3>1. Kept
      BY <2>3 DEF RefreshUnavailable, updateUpstreamTlsWatchState
    <3> QED
      BY <3>1 DEF OptionsInv, Values
  <2>4. CASE Listening \/ ListenFails \/ Signal \/ Drained \/ ShutdownTimeout
    <3>1. Kept
      BY <2>4 DEF Listening, ListenFails, Signal, Drained, ShutdownTimeout
    <3> QED
      BY <3>1 DEF OptionsInv, Values
  <2>5. CASE (\E f \in DOMAIN loaded : Rotate(f)) \/ Access \/ UNCHANGED processVars
    <3>1. Kept
      BY <2>5 DEF Rotate, Access, processVars
    <3> QED
      BY <3>1 DEF OptionsInv, Values
  <2> QED
    BY <2>1, <2>2, <2>3, <2>4, <2>5 DEF ProcessNext
<1> QED
  BY <1>1, <1>2, PTL DEF ProcessSpec

\* A token that is asked for survives both normalizations as it is.
LEMMA TokenSurvives ==
  trim(AskedToken) # Empty =>
    normalizeRuntimeOptions(Values)["requiredToken"] = AskedToken
<1> SUFFICES ASSUME trim(AskedToken) # Empty
             PROVE  normalizeRuntimeOptions(Values)["requiredToken"] = AskedToken
  OBVIOUS
<1> DEFINE asked == parseArgs(argv).config["requiredToken"]
<1>1. "requiredToken" \in Setting
  BY DEF Setting, TextSetting
<1>2. parseRelayProxyEnv(env)["requiredToken"] = trim(env["requiredToken"])
  BY <1>1 DEF parseRelayProxyEnv, IntegerSetting, TextSetting
<1>3. Values["requiredToken"] = IF asked # Empty THEN asked ELSE trim(env["requiredToken"])
  BY <1>1, <1>2 DEF Values, merged
<1>4. normalizeRuntimeOptions(Values)["requiredToken"] = trim(Values["requiredToken"])
  BY <1>1 DEF normalizeRuntimeOptions
<1>5. AskedToken = IF asked # Empty THEN asked ELSE env["requiredToken"]
  BY DEF AskedToken
<1> QED
  BY <1>3, <1>4, <1>5 DEF trim

\* main, onUpgrade and serveHealth: for every command line and environment, a
\* token that either names is asked of every request the open relay serves.
THEOREM RelayTokenHonoured == ProcessSpec => []TokenHonoured
<1>1. OptionsInv => TokenHonoured
  <2> SUFFICES ASSUME OptionsInv, phase = "open", trim(AskedToken) # Empty,
                      NEW r \in Request,
                      (IF r.upgrade THEN upgradeStatus(r) ELSE serveHealth(r)) \in {101, 200}
               PROVE  r.bearer = AskedToken
    BY DEF TokenHonoured
  <2>1. options["requiredToken"] = AskedToken
    BY TokenSurvives DEF OptionsInv
  <2>2. AskedToken # Empty
    BY DEF trim
  <2>3. isTokenValidFromRequest(r)
    <3>1. CASE r.upgrade
      BY <3>1 DEF upgradeStatus
    <3>2. CASE ~r.upgrade
      BY <3>2 DEF serveHealth
    <3> QED
      BY <3>1, <3>2
  <2> QED
    BY <2>1, <2>2, <2>3 DEF isTokenValidFromRequest
<1> QED
  BY <1>1, ProcessOptionsInv, PTL

=============================================================================
