------------------------- MODULE BridgeServer_proofs -------------------------
(***************************************************************************)
(* The server's invariants, and that its arbiter implements InputLane, for *)
(* every set of connections and panes and every configuration.             *)
(***************************************************************************)
EXTENDS BridgeServer, FiniteSetTheorems, TLAPS

\* No lease reaches further than a whole lease from now.
LeaseBounded == \A p \in Pane : paneOwners[p].expiresAt <= clock + leaseDurationMs

\* Subscriptions are a part of the attachments of connections in use.
SubscribedAttached ==
  \A c \in Client : streamed[c] # {} => MayHandle(c) /\ streamed[c] \subseteq attachedPanes[c]

\* What may still come of a pane that was left covers its suspended attaches.
DueCovers ==
  \A c \in Client, p \in Pane : p \notin attachedPanes[c] =>
    /\ due[<<c, p>>] >= 0
    /\ phase[c] # "closed" => due[<<c, p>>] >= attaching[<<c, p>>]

IInv == TypeOK /\ LeaseBounded /\ LaneOwnerAttached /\ SubscribedAttached
        /\ KillSwitchHolds /\ DueCovers

USE ServerAssumption

-----------------------------------------------------------------------------
(* The arbiter *)

\* expireStaleOwners keeps an entry or clears it.
LEMMA UnexpiredProperties ==
  ASSUME TypeOK, NEW p \in Pane
  PROVE  /\ Unexpired(paneOwners)[p] \in {paneOwners[p], NoLease}
         /\ Unexpired(paneOwners)[p] \in LeaseOf
         /\ Unexpired(paneOwners) \in [Pane -> LeaseOf]
  BY DEF TypeOK, LeaseOf, NoLease, Unexpired

LEMMA ReleaseType ==
  ASSUME TypeOK, NEW c \in Client, NEW P \in SUBSET Pane, Release(c, P)
  PROVE  paneOwners' \in [Pane -> LeaseOf]
  BY UnexpiredProperties DEF TypeOK, Release, LeaseOf, NoLease

\* After a release the client owns none of the panes it left, and every other
\* entry is an old one or is clear.
LEMMA ReleaseProperties ==
  ASSUME TypeOK, NEW c \in Client, NEW P \in SUBSET Pane, Release(c, P), NEW p \in Pane
  PROVE  /\ paneOwners'[p] \in {paneOwners[p], NoLease}
         /\ p \in P => paneOwners'[p].client # c
  BY UnexpiredProperties DEF TypeOK, Release, LeaseOf, NoLease

LEMMA SetOwnerProperties ==
  ASSUME TypeOK, NEW c \in Client, NEW p \in Pane, SetOwner(p, c)
  PROVE  /\ paneOwners' \in [Pane -> LeaseOf]
         /\ paneOwners'[p] = [client |-> c, expiresAt |-> clock + leaseDurationMs]
         /\ \A q \in Pane \ {p} : paneOwners'[q] = Unexpired(paneOwners)[q]
  <1>1. [client |-> c, expiresAt |-> clock + leaseDurationMs] \in LeaseOf
    BY DEF TypeOK, LeaseOf
  <1> QED BY <1>1, UnexpiredProperties DEF SetOwner

-----------------------------------------------------------------------------
LEMMA InitIInv == Init => IInv
  BY DEF Init, IInv, TypeOK, LeaseBounded, LaneOwnerAttached, SubscribedAttached,
     KillSwitchHolds, DueCovers, MayHandle, LeaseOf, NoLease

LEMMA NextTypeOK == TypeOK /\ [Next]_vars => TypeOK'
  <1> SUFFICES ASSUME TypeOK, [Next]_vars PROVE TypeOK'
    OBVIOUS
  <1>1. ASSUME NEW c \in Client, Connect(c) PROVE TypeOK'
    BY <1>1 DEF Connect, TypeOK
  <1>2. ASSUME NEW c \in Client, Auth(c) PROVE TypeOK'
    BY <1>2 DEF Auth, TypeOK
  <1>3. ASSUME NEW c \in Client,
               ListSessions(c) \/ ListSessionsDone(c) \/ ListSessionsFailed(c)
        PROVE  TypeOK'
    <2>1. paneOwners' \in [Pane -> LeaseOf]
      BY <1>3, UnexpiredProperties
         DEF ListSessions, ListSessionsDone, ListSessionsFailed, TypeOK, Unexpired
    <2> QED BY <1>3, <2>1
            DEF ListSessions, ListSessionsDone, ListSessionsFailed, TypeOK, sessionVars
  <1>4. ASSUME NEW c \in Client, EnableInput(c) \/ DisableInput(c) PROVE TypeOK'
    BY <1>4 DEF EnableInput, DisableInput, TypeOK
  <1>5. ASSUME NEW c \in Client, Disconnect(c) PROVE TypeOK'
    BY <1>5, ReleaseType DEF Disconnect, LeavesDue, TypeOK
  <1>6. ASSUME NEW c \in Client, SocketClose(c) PROVE TypeOK'
    BY <1>6, ReleaseType DEF SocketClose, LeavesDue, TypeOK
  <1>7. ASSUME NEW c \in Client, NEW p \in Pane,
               Attach(c, p) \/ AttachDone(c, p) \/ AttachFailed(c, p)
        PROVE  TypeOK'
    <2>1. CASE Attach(c, p)
      BY <2>1 DEF Attach, TypeOK
    <2>2. CASE AttachDone(c, p)
      <3>1. due' \in [Client \X Pane -> Int]
        <4>1. /\ due \in [Client \X Pane -> Int] /\ <<c, p>> \in Client \X Pane
              /\ due[<<c, p>>] - 1 \in Int
          BY DEF TypeOK
        <4>2. [due EXCEPT ![<<c, p>>] = @ - 1] \in [Client \X Pane -> Int]
          BY <4>1
        <4>3. due' = due \/ due' = [due EXCEPT ![<<c, p>>] = @ - 1]
          BY <2>2 DEF AttachDone, OutputTo
        <4> QED BY <4>1, <4>2, <4>3
      <3>2. attaching' \in [Client \X Pane -> 0..MaxAttaching]
        BY <2>2 DEF AttachDone, TypeOK
      <3> QED BY <2>2, <3>1, <3>2 DEF AttachDone, TypeOK, sessionVars
    <2>3. CASE AttachFailed(c, p)
      BY <2>3 DEF AttachFailed, TypeOK, sessionVars
    <2> QED BY <1>7, <2>1, <2>2, <2>3
  <1>8. ASSUME NEW c \in Client, NEW p \in Pane, Detach(c, p) PROVE TypeOK'
    BY <1>8, ReleaseType DEF Detach, LeavesDue, TypeOK
  <1>9. ASSUME NEW c \in Client, NEW p \in Pane, NEW o \in BOOLEAN, Input(c, p, o)
        PROVE  TypeOK'
    <2>1. paneOwners' \in [Pane -> LeaseOf]
      BY <1>9, SetOwnerProperties DEF Input
    <2>2. sends' \subseteq Send
      BY <1>9 DEF Input, Send, TypeOK
    <2> QED BY <1>9, <2>1, <2>2 DEF Input, TypeOK, sessionVars
  <1>10. ASSUME NEW c \in Client, NEW p \in Pane, NEW o \in BOOLEAN, InputConflict(c, p, o)
         PROVE  TypeOK'
    <2>1. paneOwners' \in [Pane -> LeaseOf]
      BY <1>10, UnexpiredProperties DEF InputConflict
    <2> QED BY <1>10, <2>1 DEF InputConflict, TypeOK, sessionVars
  <1>11. ASSUME NEW s \in sends, SendPiece(s) \/ SendFailed(s) PROVE TypeOK'
    <2>0. s \in Send /\ sends \subseteq Send
      BY DEF TypeOK
    <2>1. sends' \subseteq Send
      BY <1>11, <2>0 DEF SendPiece, SendFailed, Send
    <2> QED BY <1>11, <2>1 DEF SendPiece, SendFailed, TypeOK, sessionVars
  <1>12. CASE Tick \/ UNCHANGED vars
    BY <1>12 DEF Tick, vars, TypeOK, sessionVars
  <1> QED BY <1>1, <1>2, <1>3, <1>4, <1>5, <1>6, <1>7, <1>8, <1>9, <1>10, <1>11, <1>12
          DEF Next

\* A suspended attach that ends uses up at most the output it was allowed.
LEMMA NextDueCovers == TypeOK /\ TypeOK' /\ DueCovers /\ [Next]_vars => DueCovers'
  <1> SUFFICES ASSUME TypeOK, TypeOK', DueCovers, [Next]_vars,
                      NEW d \in Client, NEW q \in Pane, q \notin attachedPanes'[d]
               PROVE  /\ due'[<<d, q>>] >= 0
                      /\ phase'[d] # "closed" => due'[<<d, q>>] >= attaching'[<<d, q>>]
    BY DEF DueCovers
  <1>0. /\ <<d, q>> \in Client \X Pane
        /\ attaching[<<d, q>>] \in Nat /\ attaching'[<<d, q>>] \in Nat
        /\ due[<<d, q>>] \in Int /\ due'[<<d, q>>] \in Int
    BY DEF TypeOK
  <1>1. ASSUME UNCHANGED <<attaching, due>>, attachedPanes'[d] = attachedPanes[d],
               phase'[d] = "closed" \/ phase[d] # "closed"
        PROVE  /\ due'[<<d, q>>] >= 0
               /\ phase'[d] # "closed" => due'[<<d, q>>] >= attaching'[<<d, q>>]
    BY <1>0, <1>1 DEF DueCovers
  <1>2. ASSUME NEW c \in Client, NEW p \in Pane, Attach(c, p)
        PROVE  /\ due'[<<d, q>>] >= 0
               /\ phase'[d] # "closed" => due'[<<d, q>>] >= attaching'[<<d, q>>]
    <2>1. <<c, p>> # <<d, q>> /\ q \notin attachedPanes[d] /\ phase' = phase
      BY <1>2 DEF Attach, TypeOK
    <2>2. due'[<<d, q>>] = due[<<d, q>>] /\ attaching'[<<d, q>>] = attaching[<<d, q>>]
      BY <1>0, <1>2, <2>1 DEF Attach, TypeOK
    <2> QED BY <1>0, <2>1, <2>2 DEF DueCovers
  <1>3. ASSUME NEW c \in Client, NEW p \in Pane, AttachDone(c, p) \/ AttachFailed(c, p)
        PROVE  /\ due'[<<d, q>>] >= 0
               /\ phase'[d] # "closed" => due'[<<d, q>>] >= attaching'[<<d, q>>]
    <2>1. UNCHANGED <<phase, attachedPanes>> /\ attaching[<<c, p>>] > 0
      BY <1>3 DEF AttachDone, AttachFailed, sessionVars
    <2>2. CASE <<c, p>> = <<d, q>>
      <3>1. attaching'[<<d, q>>] = attaching[<<d, q>>] - 1
        BY <1>0, <1>3, <2>2 DEF AttachDone, AttachFailed, TypeOK
      <3>2. \/ due'[<<d, q>>] = due[<<d, q>>]
            \/ phase[d] = "open" /\ due'[<<d, q>>] = due[<<d, q>>] - 1
        BY <1>0, <1>3, <2>2 DEF AttachDone, AttachFailed, OutputTo, TypeOK
      <3> QED BY <1>0, <2>1, <2>2, <3>1, <3>2 DEF DueCovers
    <2>3. CASE <<c, p>> # <<d, q>>
      <3>1. attaching'[<<d, q>>] = attaching[<<d, q>>] /\ due'[<<d, q>>] = due[<<d, q>>]
        BY <1>0, <1>3, <2>3 DEF AttachDone, AttachFailed, OutputTo, TypeOK
      <3> QED BY <1>0, <2>1, <3>1 DEF DueCovers
    <2> QED BY <2>2, <2>3
  <1>4. ASSUME NEW c \in Client, NEW P \in SUBSET Pane, NEW o \in BOOLEAN,
               LeavesDue(c, P, o), attaching' = attaching,
               o => phase' = phase, ~o => P = Pane /\ phase' = [phase EXCEPT ![c] = "closed"],
               d # c \/ q \notin P => q \notin attachedPanes[d]
        PROVE  /\ due'[<<d, q>>] >= 0
               /\ phase'[d] # "closed" => due'[<<d, q>>] >= attaching'[<<d, q>>]
    <2>1. CASE d = c /\ q \in P
      <3>1. due'[<<d, q>>] = IF o THEN attaching[<<d, q>>] ELSE 0
        BY <1>0, <1>4, <2>1 DEF LeavesDue
      <3>2. ~o => phase'[d] = "closed"
        BY <1>4, <2>1 DEF TypeOK
      <3> QED BY <1>0, <1>4, <3>1, <3>2
    <2>2. CASE ~(d = c /\ q \in P)
      <3>1. due'[<<d, q>>] = due[<<d, q>>]
        BY <1>0, <1>4, <2>2 DEF LeavesDue
      <3>2. phase'[d] # "closed" => phase[d] # "closed"
        BY <1>4 DEF TypeOK
      <3> QED BY <1>0, <1>4, <2>2, <3>1, <3>2 DEF DueCovers
    <2> QED BY <2>1, <2>2
  <1>5. ASSUME NEW c \in Client, NEW p \in Pane, Detach(c, p)
        PROVE  /\ due'[<<d, q>>] >= 0
               /\ phase'[d] # "closed" => due'[<<d, q>>] >= attaching'[<<d, q>>]
    <2>1. /\ {p} \in SUBSET Pane /\ LeavesDue(c, {p}, TRUE)
          /\ UNCHANGED <<phase, attaching>>
          /\ d # c \/ q \notin {p} => q \notin attachedPanes[d]
      BY <1>5 DEF Detach, TypeOK
    <2> QED BY <1>4, <2>1
  <1>6. ASSUME NEW c \in Client, Disconnect(c)
        PROVE  /\ due'[<<d, q>>] >= 0
               /\ phase'[d] # "closed" => due'[<<d, q>>] >= attaching'[<<d, q>>]
    <2>1. /\ LeavesDue(c, Pane, TRUE) /\ UNCHANGED <<phase, attaching>>
          /\ d # c \/ q \notin Pane => q \notin attachedPanes[d]
      BY <1>6 DEF Disconnect, TypeOK
    <2> QED BY <1>4, <2>1
  <1>7. ASSUME NEW c \in Client, SocketClose(c)
        PROVE  /\ due'[<<d, q>>] >= 0
               /\ phase'[d] # "closed" => due'[<<d, q>>] >= attaching'[<<d, q>>]
    <2>1. /\ LeavesDue(c, Pane, FALSE) /\ UNCHANGED attaching
          /\ phase' = [phase EXCEPT ![c] = "closed"]
          /\ d # c \/ q \notin Pane => q \notin attachedPanes[d]
      BY <1>7 DEF SocketClose, TypeOK
    <2> QED BY <1>4, <2>1
  <1>8. ASSUME NEW c \in Client, Connect(c)
        PROVE  /\ due'[<<d, q>>] >= 0
               /\ phase'[d] # "closed" => due'[<<d, q>>] >= attaching'[<<d, q>>]
    <2>1. UNCHANGED <<attaching, due, attachedPanes>>
      BY <1>8 DEF Connect
    <2>2. phase'[d] = "closed" \/ phase[d] # "closed"
      BY <1>8 DEF Connect, TypeOK
    <2> QED BY <1>1, <2>1, <2>2
  <1>9. ASSUME UNCHANGED <<attaching, due, attachedPanes, phase>>
        PROVE  /\ due'[<<d, q>>] >= 0
               /\ phase'[d] # "closed" => due'[<<d, q>>] >= attaching'[<<d, q>>]
    BY <1>1, <1>9
  <1> QED
    BY <1>2, <1>3, <1>5, <1>6, <1>7, <1>8, <1>9 DEF Next, vars, sessionVars, Auth,
       ListSessions, ListSessionsDone, ListSessionsFailed, EnableInput, DisableInput,
       Input, InputConflict, SendPiece, SendFailed, Tick

LEMMA NextIInv == IInv /\ [Next]_vars => IInv'
  <1> SUFFICES ASSUME IInv, [Next]_vars PROVE IInv'
    OBVIOUS
  <1> USE DEF IInv
  <1>0. TypeOK'
    BY NextTypeOK
  <1>1. LeaseBounded'
    <2> SUFFICES ASSUME NEW p \in Pane
                 PROVE  paneOwners'[p].expiresAt <= clock' + leaseDurationMs
      BY DEF LeaseBounded
    <2>1. clock' >= clock /\ clock \in Nat /\ clock' \in Nat
      <3>1. clock \in Nat /\ clock' \in Nat
        BY <1>0 DEF TypeOK
      <3>2. clock' = clock \/ clock' = clock + 1
        BY Zenon DEF Next, vars, Connect, Auth, ListSessions,
           ListSessionsDone, ListSessionsFailed, EnableInput, DisableInput, Disconnect,
           SocketClose, Attach, AttachDone, AttachFailed, Detach, Input, InputConflict,
           SendPiece, SendFailed, Tick
      <3> QED BY <3>1, <3>2
    <2>2. \/ paneOwners'[p] \in {paneOwners[p], NoLease}
          \/ paneOwners'[p].expiresAt = clock + leaseDurationMs
      <3>1. ASSUME NEW c \in Client, Disconnect(c) \/ SocketClose(c)
            PROVE  paneOwners'[p] \in {paneOwners[p], NoLease}
        <4>1. Release(c, Pane)
          BY <3>1 DEF Disconnect, SocketClose
        <4> QED BY <4>1, ReleaseProperties
      <3>2. ASSUME NEW c \in Client, NEW q \in Pane, Detach(c, q)
            PROVE  paneOwners'[p] \in {paneOwners[p], NoLease}
        <4>1. Release(c, {q}) /\ {q} \in SUBSET Pane
          BY <3>2 DEF Detach
        <4> QED BY <4>1, ReleaseProperties
      <3>3. ASSUME NEW c \in Client, NEW q \in Pane, NEW o \in BOOLEAN, Input(c, q, o)
            PROVE  \/ paneOwners'[p] \in {paneOwners[p], NoLease}
                   \/ paneOwners'[p].expiresAt = clock + leaseDurationMs
        <4>1. TypeOK /\ SetOwner(q, c)
          BY <3>3 DEF Input
        <4>2. \/ paneOwners'[p] = Unexpired(paneOwners)[p]
              \/ paneOwners'[p] = [client |-> c, expiresAt |-> clock + leaseDurationMs]
          BY <4>1, SetOwnerProperties
        <4>3. Unexpired(paneOwners)[p] \in {paneOwners[p], NoLease}
          BY <4>1, UnexpiredProperties
        <4> QED BY <4>2, <4>3
      <3>4. ASSUME paneOwners' = paneOwners \/ paneOwners' = Unexpired(paneOwners)
            PROVE  paneOwners'[p] \in {paneOwners[p], NoLease}
        BY <3>4, UnexpiredProperties
      <3> QED
        BY <3>1, <3>2, <3>3, <3>4 DEF Next, vars, Connect, Auth, ListSessions,
           ListSessionsDone, ListSessionsFailed, EnableInput, DisableInput, Attach,
           AttachDone, AttachFailed, InputConflict, SendPiece, SendFailed, Tick
    <2> QED BY <2>1, <2>2 DEF LeaseBounded, TypeOK, LeaseOf, NoLease
  <1>2. LaneOwnerAttached' /\ SubscribedAttached' /\ KillSwitchHolds'
    <2>1. ASSUME NEW c \in Client, Connect(c) \/ Auth(c)
          PROVE  LaneOwnerAttached' /\ SubscribedAttached' /\ KillSwitchHolds'
      BY <2>1 DEF Connect, Auth, TypeOK, LaneOwnerAttached, SubscribedAttached,
         KillSwitchHolds, MayHandle, LeaseOf
    <2>2. ASSUME UNCHANGED <<phase, authenticated, attachedPanes, streamed>>,
                 sends' \subseteq sends \/ ~globalInputDisabled,
                 paneOwners' = paneOwners \/ paneOwners' = Unexpired(paneOwners)
          PROVE  LaneOwnerAttached' /\ SubscribedAttached' /\ KillSwitchHolds'
      BY <2>2, UnexpiredProperties DEF TypeOK, LaneOwnerAttached,
         SubscribedAttached, KillSwitchHolds, MayHandle, LeaseOf, NoLease
    <2>3. ASSUME NEW c \in Client, Disconnect(c)
          PROVE  LaneOwnerAttached' /\ SubscribedAttached' /\ KillSwitchHolds'
      BY <2>3, ReleaseProperties DEF Disconnect, TypeOK, LaneOwnerAttached,
         SubscribedAttached, KillSwitchHolds, MayHandle, LeaseOf, NoLease
    <2>4. ASSUME NEW c \in Client, SocketClose(c)
          PROVE  LaneOwnerAttached' /\ SubscribedAttached' /\ KillSwitchHolds'
      BY <2>4, ReleaseProperties DEF SocketClose, TypeOK, LaneOwnerAttached,
         SubscribedAttached, KillSwitchHolds, MayHandle, LeaseOf, NoLease
    <2>5. ASSUME NEW c \in Client, NEW p \in Pane,
                 Attach(c, p) \/ AttachDone(c, p) \/ AttachFailed(c, p)
          PROVE  LaneOwnerAttached' /\ SubscribedAttached' /\ KillSwitchHolds'
      <3>1. CASE Attach(c, p)
        BY <3>1 DEF Attach, TypeOK, LaneOwnerAttached, SubscribedAttached,
           KillSwitchHolds, MayHandle, LeaseOf
      <3>2. CASE AttachDone(c, p)
        BY <2>2, <3>2 DEF AttachDone, sessionVars
      <3>3. CASE AttachFailed(c, p)
        <4>1. /\ \A d \in Client : streamed'[d] \subseteq streamed[d]
              /\ UNCHANGED <<phase, authenticated, attachedPanes, paneOwners, sends>>
          BY <3>3 DEF AttachFailed, sessionVars
        <4>2. SubscribedAttached'
          BY <4>1 DEF SubscribedAttached, MayHandle
        <4> QED BY <4>1, <4>2 DEF LaneOwnerAttached, KillSwitchHolds, MayHandle
      <3> QED BY <2>5, <3>1, <3>2, <3>3
    <2>6. ASSUME NEW c \in Client, NEW p \in Pane, Detach(c, p)
          PROVE  LaneOwnerAttached' /\ SubscribedAttached' /\ KillSwitchHolds'
      BY <2>6, ReleaseProperties DEF Detach, TypeOK, LaneOwnerAttached,
         SubscribedAttached, KillSwitchHolds, MayHandle, LeaseOf, NoLease
    <2>7. ASSUME NEW c \in Client, NEW p \in Pane, NEW o \in BOOLEAN, Input(c, p, o)
          PROVE  LaneOwnerAttached' /\ SubscribedAttached' /\ KillSwitchHolds'
      <3>1. /\ MayInput(c, p) /\ SetOwner(p, c)
            /\ UNCHANGED <<phase, authenticated, attachedPanes, streamed>>
        BY <2>7 DEF Input, sessionVars
      <3>2. KillSwitchHolds'
        BY <3>1 DEF MayInput, KillSwitchHolds
      <3>3. SubscribedAttached'
        BY <3>1 DEF SubscribedAttached, MayHandle
      <3>4. ASSUME NEW q \in Pane, paneOwners'[q].client # NoOne
            PROVE  (MayHandle(paneOwners[q].client) /\ q \in attachedPanes[paneOwners[q].client])'
        <4>0. TypeOK
          OBVIOUS
        <4>1. CASE q = p
          <5>1. paneOwners'[q].client = c
            <6>1. paneOwners'[p] = [client |-> c, expiresAt |-> clock + leaseDurationMs]
              BY <3>1, <4>0, SetOwnerProperties
            <6> QED BY <4>1, <6>1
          <5> QED BY <3>1, <4>1, <5>1 DEF MayInput, MayHandle
        <4>2. CASE q # p
          <5>1. paneOwners'[q] = paneOwners[q]
            <6>1. paneOwners'[q] = Unexpired(paneOwners)[q]
              BY <3>1, <4>0, <4>2, SetOwnerProperties
            <6>2. Unexpired(paneOwners)[q] \in {paneOwners[q], NoLease}
              BY <4>0, UnexpiredProperties
            <6> QED BY <3>4, <6>1, <6>2 DEF NoLease
          <5> QED BY <3>1, <3>4, <5>1 DEF LaneOwnerAttached, MayHandle
        <4> QED BY <4>1, <4>2
      <3> QED BY <3>2, <3>3, <3>4 DEF LaneOwnerAttached
    <2>8. ASSUME NEW c \in Client,
                 \/ ListSessions(c) \/ ListSessionsDone(c) \/ ListSessionsFailed(c)
                 \/ EnableInput(c) \/ DisableInput(c)
          PROVE  LaneOwnerAttached' /\ SubscribedAttached' /\ KillSwitchHolds'
      BY <2>2, <2>8 DEF ListSessions, ListSessionsDone, ListSessionsFailed,
         EnableInput, DisableInput, sessionVars
    <2>9. ASSUME NEW c \in Client, NEW p \in Pane, NEW o \in BOOLEAN, InputConflict(c, p, o)
          PROVE  LaneOwnerAttached' /\ SubscribedAttached' /\ KillSwitchHolds'
      BY <2>2, <2>9 DEF InputConflict, sessionVars
    <2>10. ASSUME NEW s \in sends, SendPiece(s) \/ SendFailed(s)
           PROVE  LaneOwnerAttached' /\ SubscribedAttached' /\ KillSwitchHolds'
      <3>1. sends' \subseteq sends \/ ~globalInputDisabled
        BY DEF KillSwitchHolds
      <3> QED BY <2>2, <2>10, <3>1 DEF SendPiece, SendFailed, sessionVars
    <2>11. ASSUME Tick \/ UNCHANGED vars
           PROVE  LaneOwnerAttached' /\ SubscribedAttached' /\ KillSwitchHolds'
      BY <2>2, <2>11 DEF Tick, vars, sessionVars
    <2> QED
      BY <2>1, <2>3, <2>4, <2>5, <2>6, <2>7, <2>8, <2>9, <2>10, <2>11 DEF Next
  <1>3. DueCovers'
    BY <1>0, NextDueCovers
  <1> QED BY <1>0, <1>1, <1>2, <1>3

-----------------------------------------------------------------------------
(* The arbiter implements InputLane *)

\* The abstract lane state, as the refinement mapping computes it.
Holder == [p \in Pane |-> Unexpired(paneOwners)[p].client]
Idle == [p \in Pane |->
          IF Unexpired(paneOwners)[p].client = NoOne THEN 0
          ELSE clock + leaseDurationMs - paneOwners[p].expiresAt]

\* A lane is held while its lease runs.
LEMMA HolderOf ==
  ASSUME TypeOK, NEW p \in Pane
  PROVE  /\ paneOwners[p].expiresAt > clock =>
              Unexpired(paneOwners)[p].client = paneOwners[p].client
         /\ ~(paneOwners[p].expiresAt > clock) => Unexpired(paneOwners)[p].client = NoOne
         /\ clock \in Nat /\ paneOwners[p].expiresAt \in Nat
         /\ paneOwners[p].client \in Client \union {NoOne}
  BY DEF TypeOK, LeaseOf, NoLease, Unexpired

\* Forgetting a stale lease does not change the lanes.
LEMMA ExpiryStutters ==
  ASSUME TypeOK, clock' = clock, paneOwners' \in {paneOwners, Unexpired(paneOwners)}
  PROVE  Holder' = Holder /\ Idle' = Idle
  <1>1. ASSUME NEW p \in Pane
        PROVE  /\ Unexpired(paneOwners)'[p].client = Unexpired(paneOwners)[p].client
               /\ Unexpired(paneOwners)[p].client # NoOne =>
                    paneOwners'[p].expiresAt = paneOwners[p].expiresAt
    BY DEF TypeOK, LeaseOf, NoLease, Unexpired
  <1> QED BY <1>1 DEF Holder, Idle

\* A release is a Leave.
LEMMA ReleaseLeaves ==
  ASSUME TypeOK, clock' = clock, NEW c \in Client, NEW P \in SUBSET Pane, Release(c, P)
  PROVE  /\ Holder' = [p \in Pane |-> IF p \in P /\ Holder[p] = c THEN NoOne ELSE Holder[p]]
         /\ Idle' = [p \in Pane |-> IF p \in P /\ Holder[p] = c THEN 0 ELSE Idle[p]]
  <1>1. ASSUME NEW p \in Pane
        PROVE  /\ Unexpired(paneOwners)'[p].client =
                    IF p \in P /\ Unexpired(paneOwners)[p].client = c THEN NoOne
                    ELSE Unexpired(paneOwners)[p].client
               /\ Unexpired(paneOwners)'[p].client # NoOne =>
                    paneOwners'[p].expiresAt = paneOwners[p].expiresAt
    BY DEF TypeOK, LeaseOf, NoLease, Unexpired, Release
  <1> QED BY <1>1 DEF Holder, Idle

\* A granted input is a Write.
LEMMA SetOwnerWrites ==
  ASSUME TypeOK, clock' = clock, NEW c \in Client, NEW p \in Pane, SetOwner(p, c)
  PROVE  /\ Holder' = [Holder EXCEPT ![p] = c]
         /\ Idle' = [Idle EXCEPT ![p] = 0]
  <1>1. /\ paneOwners'[p] = [client |-> c, expiresAt |-> clock + leaseDurationMs]
        /\ \A q \in Pane \ {p} : paneOwners'[q] = Unexpired(paneOwners)[q]
    BY SetOwnerProperties
  <1>2. clock \in Nat
    BY DEF TypeOK
  <1>3. /\ Unexpired(paneOwners)'[p].client = c
        /\ clock' + leaseDurationMs - paneOwners'[p].expiresAt = 0
    BY <1>1, <1>2 DEF Unexpired
  <1>4. ASSUME NEW q \in Pane, q # p
        PROVE  /\ Unexpired(paneOwners)'[q].client = Unexpired(paneOwners)[q].client
               /\ Unexpired(paneOwners)[q].client # NoOne =>
                    paneOwners'[q].expiresAt = paneOwners[q].expiresAt
    <2>1. paneOwners'[q] = Unexpired(paneOwners)[q]
      BY <1>1, <1>4
    <2> QED BY <2>1 DEF TypeOK, LeaseOf, NoLease, Unexpired
  <1> QED BY <1>3, <1>4 DEF Holder, Idle

\* A tick of the clock is a Tick of the lanes: a lease of which nothing is
\* left is one that was idle for its whole length.
LEMMA TickLapses ==
  ASSUME TypeOK, TypeOK', LeaseBounded, Tick
  PROVE  LET lapses(p) == Holder[p] = NoOne \/ Idle[p] + 1 = leaseDurationMs IN
         /\ Holder' = [p \in Pane |-> IF lapses(p) THEN NoOne ELSE Holder[p]]
         /\ Idle' = [p \in Pane |-> IF lapses(p) THEN 0 ELSE Idle[p] + 1]
  <1> DEFINE lapses(p) == Holder[p] = NoOne \/ Idle[p] + 1 = leaseDurationMs
  <1>1. clock' = clock + 1 /\ paneOwners' = paneOwners /\ clock \in Nat
    BY DEF Tick, TypeOK
  <1>2. ASSUME NEW p \in Pane
        PROVE  /\ Unexpired(paneOwners)'[p].client =
                    IF lapses(p) THEN NoOne ELSE Unexpired(paneOwners)[p].client
               /\ ~lapses(p) => Unexpired(paneOwners)[p].client # NoOne
    <2>1. paneOwners[p].expiresAt \in Nat /\ paneOwners[p].expiresAt <= clock + leaseDurationMs
      BY HolderOf DEF LeaseBounded
    <2>2. Unexpired(paneOwners)'[p].client =
            IF paneOwners[p].expiresAt > clock + 1 THEN paneOwners[p].client ELSE NoOne
      BY <1>1 DEF Unexpired, NoLease
    <2>3. Unexpired(paneOwners)[p].client =
            IF paneOwners[p].expiresAt > clock THEN paneOwners[p].client ELSE NoOne
      BY DEF Unexpired, NoLease
    <2> QED BY <1>1, <2>1, <2>2, <2>3 DEF Holder, Idle
  <1>3. ASSUME NEW p \in Pane
        PROVE  Idle'[p] = IF lapses(p) THEN 0 ELSE Idle[p] + 1
    <2>1. paneOwners[p].expiresAt \in Nat
      BY HolderOf
    <2>2. CASE lapses(p)
      BY <1>2, <2>2 DEF Idle
    <2>3. CASE ~lapses(p) /\ Unexpired(paneOwners)'[p].client # NoOne
      <3>1. Idle'[p] = clock' + leaseDurationMs - paneOwners'[p].expiresAt
        BY <2>3 DEF Idle
      <3>2. Idle[p] = clock + leaseDurationMs - paneOwners[p].expiresAt
        BY <1>2, <2>3 DEF Idle
      <3> QED BY <1>1, <2>1, <2>3, <3>1, <3>2
    <2> QED BY <1>2, <2>2, <2>3
  <1> QED BY <1>2, <1>3 DEF Holder, Idle

LEMMA LaneInit == Init => Lane!Init
  BY DEF Init, Lane!Init, Unexpired, NoLease

LEMMA LaneStep == IInv /\ TypeOK' /\ [Next]_vars => [Lane!Next]_(Lane!vars)
  <1> SUFFICES ASSUME IInv, TypeOK', [Next]_vars PROVE [Lane!Next]_(Lane!vars)
    OBVIOUS
  <1>0. TypeOK /\ LeaseBounded
    BY DEF IInv
  <1>1. ASSUME clock' = clock, paneOwners' \in {paneOwners, Unexpired(paneOwners)}
        PROVE  UNCHANGED Lane!vars
    BY <1>0, <1>1, ExpiryStutters DEF Lane!vars, Holder, Idle
  <1>2. ASSUME clock' = clock, NEW c \in Client, NEW P \in SUBSET Pane, Release(c, P)
        PROVE  Lane!Next
    <2>1. Lane!Leave(c, P)
      BY <1>0, <1>2, ReleaseLeaves DEF Lane!Leave, Holder, Idle
    <2> QED BY <2>1 DEF Lane!Next
  <1>3. ASSUME NEW c \in Client, NEW p \in Pane, NEW o \in BOOLEAN, Input(c, p, o)
        PROVE  Lane!Next
    <2>1. SetOwner(p, c) /\ CanClaim(p, c, o) /\ clock' = clock
      BY <1>3 DEF Input
    <2>2. Holder[p] \in {NoOne, c} \/ AllowOverride
      BY <2>1 DEF CanClaim, Holder
    <2>3. Lane!Write(c, p)
      BY <1>0, <2>1, <2>2, SetOwnerWrites DEF Lane!Write, Holder, Idle
    <2> QED BY <2>3 DEF Lane!Next
  <1>4. ASSUME Tick PROVE Lane!Next
    <2>1. Lane!Tick
      BY <1>0, <1>4, TickLapses DEF Lane!Tick, Holder, Idle
    <2> QED BY <2>1 DEF Lane!Next
  <1>5. ASSUME NEW c \in Client, Disconnect(c) \/ SocketClose(c) PROVE Lane!Next
    BY <1>2, <1>5 DEF Disconnect, SocketClose
  <1>6. ASSUME NEW c \in Client, NEW p \in Pane, Detach(c, p) PROVE Lane!Next
    <2>1. Release(c, {p}) /\ clock' = clock /\ {p} \in SUBSET Pane
      BY <1>6 DEF Detach
    <2> QED BY <1>2, <2>1
  <1>7. ASSUME NEW c \in Client,
               \/ Connect(c) \/ Auth(c) \/ ListSessions(c) \/ ListSessionsDone(c)
               \/ ListSessionsFailed(c) \/ EnableInput(c) \/ DisableInput(c)
        PROVE  UNCHANGED Lane!vars
    <2>1. clock' = clock /\ paneOwners' \in {paneOwners, Unexpired(paneOwners)}
      BY <1>7 DEF Connect, Auth, ListSessions, ListSessionsDone, ListSessionsFailed,
         EnableInput, DisableInput
    <2> QED BY <1>1, <2>1
  <1>8. ASSUME NEW c \in Client, NEW p \in Pane,
               Attach(c, p) \/ AttachDone(c, p) \/ AttachFailed(c, p)
        PROVE  UNCHANGED Lane!vars
    BY <1>1, <1>8 DEF Attach, AttachDone, AttachFailed
  <1>9. ASSUME NEW c \in Client, NEW p \in Pane, NEW o \in BOOLEAN, InputConflict(c, p, o)
        PROVE  UNCHANGED Lane!vars
    BY <1>1, <1>9 DEF InputConflict
  <1>10. ASSUME NEW s \in sends, SendPiece(s) \/ SendFailed(s) PROVE UNCHANGED Lane!vars
    BY <1>1, <1>10 DEF SendPiece, SendFailed
  <1>11. CASE UNCHANGED vars
    BY <1>1, <1>11 DEF vars
  <1> QED BY <1>3, <1>4, <1>5, <1>6, <1>7, <1>8, <1>9, <1>10, <1>11 DEF Next

-----------------------------------------------------------------------------
(* The attach limit *)

\* Cardinality counts only finite sets, so the limit needs their finiteness.
AttachedFinite == \A c \in Client : IsFiniteSet(attachedPanes[c])

LEMMA InitAttachLimit == Init => AttachedFinite /\ AttachLimit
  BY FS_EmptySet DEF Init, AttachedFinite, AttachLimit

LEMMA NextAttachLimit ==
  TypeOK /\ AttachedFinite /\ AttachLimit /\ [Next]_vars => AttachedFinite' /\ AttachLimit'
  <1> SUFFICES ASSUME TypeOK, AttachedFinite, AttachLimit, [Next]_vars, NEW d \in Client
               PROVE  /\ IsFiniteSet(attachedPanes'[d])
                      /\ Cardinality(attachedPanes'[d]) <= maxAttachedPanes
    BY DEF AttachedFinite, AttachLimit
  <1>1. /\ IsFiniteSet(attachedPanes[d])
        /\ Cardinality(attachedPanes[d]) \in Nat
        /\ Cardinality(attachedPanes[d]) <= maxAttachedPanes
    BY FS_CardinalityType DEF AttachedFinite, AttachLimit
  <1>2. ASSUME attachedPanes'[d] \subseteq attachedPanes[d]
        PROVE  /\ IsFiniteSet(attachedPanes'[d])
               /\ Cardinality(attachedPanes'[d]) <= maxAttachedPanes
    <2>1. /\ IsFiniteSet(attachedPanes'[d])
          /\ Cardinality(attachedPanes'[d]) <= Cardinality(attachedPanes[d])
      BY <1>1, <1>2, FS_Subset
    <2>2. Cardinality(attachedPanes'[d]) \in Nat
      BY <2>1, FS_CardinalityType
    <2> QED BY <1>1, <2>1, <2>2
  <1>3. ASSUME NEW c \in Client, NEW p \in Pane, Attach(c, p)
        PROVE  /\ IsFiniteSet(attachedPanes'[d])
               /\ Cardinality(attachedPanes'[d]) <= maxAttachedPanes
    <2>1. CASE c # d \/ p \in attachedPanes[c]
      <3>1. attachedPanes'[d] \subseteq attachedPanes[d]
        BY <1>3, <2>1 DEF Attach, TypeOK
      <3> QED BY <1>2, <3>1
    <2>2. CASE c = d /\ p \notin attachedPanes[c]
      <3>1. attachedPanes'[d] = attachedPanes[d] \union {p}
        BY <1>3, <2>2 DEF Attach, TypeOK
      <3>2. Cardinality(attachedPanes[d]) < maxAttachedPanes
        BY <1>3, <2>2 DEF Attach
      <3>3. /\ IsFiniteSet(attachedPanes[d] \union {p})
            /\ Cardinality(attachedPanes[d] \union {p}) = Cardinality(attachedPanes[d]) + 1
        BY <1>1, <2>2, FS_AddElement
      <3> QED BY <1>1, <3>1, <3>2, <3>3
    <2> QED BY <2>1, <2>2
  <1>4. CASE \E c \in Client, p \in Pane : Detach(c, p)
    BY <1>2, <1>4 DEF Detach, TypeOK
  <1>5. CASE \E c \in Client : Disconnect(c) \/ SocketClose(c)
    BY <1>2, <1>5 DEF Disconnect, SocketClose, TypeOK
  <1>6. ASSUME attachedPanes' = attachedPanes
        PROVE  /\ IsFiniteSet(attachedPanes'[d])
               /\ Cardinality(attachedPanes'[d]) <= maxAttachedPanes
    BY <1>2, <1>6
  <1> QED
    BY <1>3, <1>4, <1>5, <1>6 DEF Next, vars, sessionVars, Connect, Auth, ListSessions,
       ListSessionsDone, ListSessionsFailed, EnableInput, DisableInput, AttachDone,
       AttachFailed, Input, InputConflict, SendPiece, SendFailed, Tick

-----------------------------------------------------------------------------
(* Theorems *)

\* The state of connections, lanes and sends stays well formed.
THEOREM ServerTypeCorrect == Spec => []TypeOK
  BY InitIInv, NextIInv, PTL DEF Spec, IInv

\* detach, disconnect and socket close leave no lane behind.
THEOREM ServerLaneOwnerAttached == Spec => []LaneOwnerAttached
  BY InitIInv, NextIInv, PTL DEF Spec, IInv

\* Subscriptions never outlive attachments, and what a left pane still sends is
\* bounded by the attaches that were suspended when it was left.
THEOREM ServerStreamedOnlyToAttached == Spec => []StreamedOnlyToAttached
  <1>1. IInv => StreamedOnlyToAttached
    BY DEF IInv, SubscribedAttached, DueCovers, StreamedOnlyToAttached
  <1> QED BY <1>1, InitIInv, NextIInv, PTL DEF Spec

\* With the kill switch on, no input is ever sent and no lane is ever taken.
THEOREM ServerKillSwitch == Spec => []KillSwitchHolds
  BY InitIInv, NextIInv, PTL DEF Spec, IInv

\* The arbiter, with its lazily expired leases, implements InputLane.
THEOREM ServerLaneImplemented == Spec => LaneImplemented
  <1>1. IInv /\ [Next]_vars => TypeOK'
    BY NextIInv DEF IInv
  <1> QED BY <1>1, InitIInv, NextIInv, LaneInit, LaneStep, PTL DEF Spec, LaneImplemented, Lane!Spec

\* A connection never exceeds its limit of attached panes.
THEOREM ServerAttachLimit == Spec => []AttachLimit
  <1>1. Spec => []TypeOK
    BY ServerTypeCorrect
  <1> QED BY <1>1, InitAttachLimit, NextAttachLimit, PTL DEF Spec

=============================================================================
