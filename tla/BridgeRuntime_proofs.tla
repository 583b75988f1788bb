----------------------- MODULE BridgeRuntime_proofs -----------------------
(***************************************************************************)
(* Proofs about the bridge process and its runtime backends, for any       *)
(* environments, operations, panes and inputs: the pinned key comes first, *)
(* only a fit bridge listens, inputs are typed in order, and the ids of a  *)
(* listing route back.                                                     *)
(***************************************************************************)
EXTENDS BridgeRuntime, SequenceTheorems, FiniteSetTheorems, WellFoundedInduction, TLAPS

-----------------------------------------------------------------------------
(* Sequences defined by recursion on their length *)

LEMMA NatLeast ==
  ASSUME NEW S, S \subseteq Nat, S # {}
  PROVE  \E x \in S : \A y \in S : x <= y
<1>1. PICK x \in S : \A y \in S : ~(<<y, x>> \in OpToRel(<, Nat))
  BY NatLessThanWellFounded, WFMin
<1>2. \A y \in S : x <= y
  <2> TAKE y \in S
  <2>1. x \in Nat /\ y \in Nat
    OBVIOUS
  <2>2. ~(y < x)
    BY <1>1, <2>1 DEF OpToRel
  <2> QED
    BY <2>1, <2>2
<1> QED
  BY <1>2

\* The sequences that FlattenSeq joins, one after the other.
LEMMA FlattenFacts ==
  ASSUME NEW T, NEW s \in Seq(Seq(T)), s # <<>>
  PROVE  FlattenSeq(s) \in Seq(T)
<1> DEFINE Rec(f, n) == f = [i \in 1..n |-> IF i = 1 THEN s[i] ELSE f[i - 1] \o s[i]]
           Bad == {n \in 0..Len(s) : ~(\E f : Rec(f, n))}
<1>1. Len(s) \in Nat \ {0} /\ \A i \in 1..Len(s) : s[i] \in Seq(T)
  OBVIOUS
<1> HIDE DEF Rec
<1>2. \E f : Rec(f, Len(s))
  <2>1. CASE Bad = {}
    <3>1. Len(s) \notin Bad /\ Len(s) \in 0..Len(s)
      BY <2>1, <1>1
    <3> QED
      BY <3>1
  <2>2. CASE Bad # {}
    <3>1. Bad \subseteq Nat
      BY <1>1
    <3>2. PICK n \in Bad : \A y \in Bad : n <= y
      <4> HIDE DEF Bad
      <4> QED
        BY <2>2, <3>1, NatLeast
    <3>3. n \in 0..Len(s) /\ ~(\E f : Rec(f, n))
      BY <3>2
    <3>4. n # 0
      <4>1. Rec([i \in 1..0 |-> {}], 0)
        BY DEF Rec
      <4> QED
        BY <4>1, <3>3
    <3>5. n - 1 \in 0..Len(s) /\ n - 1 \notin Bad
      <4>1. n - 1 \in 0..Len(s) /\ ~(n <= n - 1)
        BY <3>3, <3>4, <1>1
      <4> HIDE DEF Bad
      <4> QED
        BY <3>2, <4>1
    <3>6. PICK f : Rec(f, n - 1)
      BY <3>5
    <3> DEFINE g == [i \in 1..n |-> IF i = 1 THEN s[i] ELSE f[i - 1] \o s[i]]
    <3>7. ASSUME NEW i \in 1..n - 1 PROVE g[i] = f[i]
      <4>1. i \in 1..n
        BY <3>3
      <4>2. f = [j \in 1..n - 1 |-> IF j = 1 THEN s[j] ELSE f[j - 1] \o s[j]]
        BY <3>6, Zenon DEF Rec
      <4>3. f[i] = IF i = 1 THEN s[i] ELSE f[i - 1] \o s[i]
        BY <4>2, Zenon
      <4> QED
        BY <4>1, <4>3, Zenon
    <3>8. Rec(g, n)
      <4>1. \A i \in 1..n : (IF i = 1 THEN s[i] ELSE f[i - 1] \o s[i])
                          = (IF i = 1 THEN s[i] ELSE g[i - 1] \o s[i])
        <5> HIDE DEF g
        <5> QED
          BY <3>7, <3>3
      <4> QED
        BY <4>1, Zenon DEF Rec
    <3> QED
      BY <3>3, <3>8
  <2> QED
    BY <2>1, <2>2
<1>3. PICK f : Rec(f, Len(s)) /\ FlattenSeq(s) = f[Len(s)]
  <2>1. Len(s) # 0
    BY <1>1
  <2>2. FlattenSeq(s) = (CHOOSE f : Rec(f, Len(s)))[Len(s)]
    BY <2>1, Zenon DEF FlattenSeq, Rec
  <2>3. Rec(CHOOSE f : Rec(f, Len(s)), Len(s))
    BY <1>2, Zenon
  <2> QED
    BY <2>2, <2>3
<1> DEFINE Ill == {n \in 1..Len(s) : f[n] \notin Seq(T)}
<1>4. Ill = {}
  <2> SUFFICES ASSUME Ill # {} PROVE FALSE
    OBVIOUS
  <2>1. Ill \subseteq Nat
    BY <1>1
  <2>2. PICK n \in Ill : \A y \in Ill : n <= y
    <3> HIDE DEF Ill
    <3> QED
      BY <2>1, NatLeast
  <2>3. n \in 1..Len(s) /\ f[n] \notin Seq(T)
    BY <2>2
  <2>4. f[n] = IF n = 1 THEN s[n] ELSE f[n - 1] \o s[n]
    BY <1>3, <2>3, Zenon DEF Rec
  <2>5. n # 1
    BY <2>3, <2>4, <1>1
  <2>6. n - 1 \in 1..Len(s) /\ n - 1 \notin Ill
    BY <2>1, <2>2, <2>3, <2>5, <1>1
  <2>7. f[n - 1] \in Seq(T) /\ s[n] \in Seq(T)
    BY <2>6, <2>3, <1>1
  <2>8. f[n] = f[n - 1] \o s[n]
    BY <2>4, <2>5
  <2>9. f[n - 1] \o s[n] \in Seq(T)
    BY <2>7, ConcatProperties
  <2> QED
    BY <2>3, <2>8, <2>9
<1>5. Len(s) \in 1..Len(s) /\ Len(s) \notin Ill
  BY <1>1, <1>4
<1> QED
  BY <1>3, <1>5


\* Deduped keeps the first element and adds nothing.
LEMMA DedupedFacts ==
  ASSUME NEW T, NEW s \in Seq(T), s # <<>>
  PROVE  Deduped(s) \in Seq(T) /\ Deduped(s) # <<>>
<1> DEFINE Step(f, i) == IF i = 0 THEN <<>>
                         ELSE IF s[i] \in ToSet(f[i - 1]) THEN f[i - 1]
                         ELSE Append(f[i - 1], s[i])
           Rec(f, n) == f = [i \in 0..n |-> Step(f, i)]
           Bad == {n \in 0..Len(s) : ~(\E f : Rec(f, n))}
<1>1. Len(s) \in Nat \ {0} /\ \A i \in 1..Len(s) : s[i] \in T
  OBVIOUS
<1> HIDE DEF Rec, Step
<1>2. \E f : Rec(f, Len(s))
  <2>1. CASE Bad = {}
    <3>1. Len(s) \notin Bad /\ Len(s) \in 0..Len(s)
      BY <2>1, <1>1
    <3> QED
      BY <3>1
  <2>2. CASE Bad # {}
    <3>1. Bad \subseteq Nat
      BY <1>1
    <3>2. PICK n \in Bad : \A y \in Bad : n <= y
      <4> HIDE DEF Bad
      <4> QED
        BY <2>2, <3>1, NatLeast
    <3>3. n \in 0..Len(s) /\ ~(\E f : Rec(f, n))
      BY <3>2
    <3>4. n # 0
      <4>1. Rec([i \in 0..0 |-> <<>>], 0)
        BY DEF Rec, Step
      <4> QED
        BY <4>1, <3>3
    <3>5. n - 1 \in 0..Len(s) /\ n - 1 \notin Bad
      <4>1. n - 1 \in 0..Len(s) /\ ~(n <= n - 1)
        BY <3>3, <3>4, <1>1
      <4> HIDE DEF Bad
      <4> QED
        BY <3>2, <4>1
    <3>6. PICK f : Rec(f, n - 1)
      BY <3>5
    <3> DEFINE g == [i \in 0..n |-> Step(f, i)]
    <3>7. ASSUME NEW i \in 0..n - 1 PROVE g[i] = f[i]
      <4>1. i \in 0..n
        BY <3>3
      <4>2. f = [j \in 0..n - 1 |-> Step(f, j)]
        BY <3>6, Zenon DEF Rec
      <4>3. f[i] = Step(f, i)
        BY <4>2, Zenon
      <4> QED
        BY <4>1, <4>3, Zenon
    <3>8. Rec(g, n)
      <4>1. \A i \in 0..n : Step(f, i) = Step(g, i)
        <5> HIDE DEF g
        <5>1. \A i \in 0..n : i # 0 => f[i - 1] = g[i - 1]
          BY <3>7, <3>3
        <5> QED
          BY <5>1, Zenon DEF Step
      <4> QED
        BY <4>1, Zenon DEF Rec
    <3> QED
      BY <3>3, <3>8
  <2> QED
    BY <2>1, <2>2
<1>3. PICK f : Rec(f, Len(s)) /\ Deduped(s) = f[Len(s)]
  <2>1. Len(s) # 0
    BY <1>1
  <2>2. Deduped(s) = (CHOOSE f : Rec(f, Len(s)))[Len(s)]
    BY <2>1, Zenon DEF Deduped, Rec, Step
  <2>3. Rec(CHOOSE f : Rec(f, Len(s)), Len(s))
    BY <1>2, Zenon
  <2> QED
    BY <2>2, <2>3
<1> DEFINE Ill == {n \in 0..Len(s) : ~(f[n] \in Seq(T) /\ (n # 0 => f[n] # <<>>))}
<1>4. Ill = {}
  <2> SUFFICES ASSUME Ill # {} PROVE FALSE
    OBVIOUS
  <2>1. Ill \subseteq Nat
    BY <1>1
  <2>2. PICK n \in Ill : \A y \in Ill : n <= y
    <3> HIDE DEF Ill
    <3> QED
      BY <2>1, NatLeast
  <2>3. n \in 0..Len(s) /\ ~(f[n] \in Seq(T) /\ (n # 0 => f[n] # <<>>))
    BY <2>2
  <2>4. f[n] = IF n = 0 THEN <<>> ELSE IF s[n] \in ToSet(f[n - 1]) THEN f[n - 1]
               ELSE Append(f[n - 1], s[n])
    BY <1>3, <2>3, Zenon DEF Rec, Step
  <2>5. n # 0
    <3>1. <<>> \in Seq(T)
      OBVIOUS
    <3> QED
      BY <2>3, <2>4, <3>1
  <2>6. n - 1 \in 0..Len(s) /\ n - 1 \notin Ill
    <3>1. n - 1 \in 0..Len(s) /\ ~(n <= n - 1)
      BY <2>3, <2>5, <1>1
    <3> HIDE DEF Ill
    <3> QED
      BY <2>2, <3>1
  <2>7. PICK w \in Seq(T) : w = f[n - 1]
    BY <2>6
  <2>8. s[n] \in T
    BY <2>3, <2>5, <1>1
  <2>9. CASE s[n] \in ToSet(w)
    <3>1. f[n] = w
      BY <2>4, <2>5, <2>7, <2>9
    <3>2. w # <<>>
      BY <2>9 DEF ToSet
    <3> QED
      BY <2>3, <3>1, <3>2
  <2>10. CASE s[n] \notin ToSet(w)
    <3>1. f[n] = Append(w, s[n])
      BY <2>4, <2>5, <2>7, <2>10
    <3>2. Append(w, s[n]) \in Seq(T) /\ Append(w, s[n]) # <<>>
      BY <2>7, <2>8, AppendProperties
    <3> QED
      BY <2>3, <3>1, <3>2
  <2> QED
    BY <2>9, <2>10
<1>5. Len(s) \in 0..Len(s) /\ Len(s) \notin Ill /\ Len(s) # 0
  BY <1>1, <1>4
<1> QED
  BY <1>3, <1>5


-----------------------------------------------------------------------------
(* The configuration *)

LEMMA SentinelsApart == None # Blank /\ None # Reject /\ Blank # Reject
<1> SUFFICES ASSUME None = Blank \/ None = Reject \/ Blank = Reject PROVE FALSE
  OBVIOUS
<1>1. PICK a, b : {None, Blank, Reject} = {a, b}
  OBVIOUS
<1>2. /\ IsFiniteSet({None, Blank, Reject})
      /\ Cardinality({None, Blank, Reject}) <= 2
  <2>1. IsFiniteSet({}) /\ Cardinality({}) = 0
    BY FS_EmptySet
  <2>2. /\ IsFiniteSet({} \cup {a})
        /\ Cardinality({} \cup {a}) = 1
    BY <2>1, FS_AddElement
  <2>3. /\ IsFiniteSet({} \cup {a} \cup {b})
        /\ Cardinality({} \cup {a} \cup {b}) \in {1, 2}
    BY <2>2, FS_AddElement
  <2>4. {} \cup {a} \cup {b} = {None, Blank, Reject}
    BY <1>1
  <2> QED
    BY <2>3, <2>4
<1> QED
  BY <1>2, SentinelsDiffer

\* What a configuration that loads holds in the fields the bridge reads.
LEMMA ConfigFacts ==
  ASSUME NEW e \in Env, ~LoadThrows(loadConfig(e))
  PROVE  /\ loadConfig(e).runtimeBackends \in Seq(Backend)
         /\ loadConfig(e).runtimeBackends # <<>>
         /\ loadConfig(e).authToken # Blank
<1> DEFINE c == loadConfig(e)
<1>1. /\ c.runtimeBackends = parseRuntimeBackendsEnv(e.backends)
      /\ c.authToken = parseOptionalStringEnv(e.token)
      /\ "runtimeBackends" \in DOMAIN c
  BY DEF loadConfig
<1>2. c["runtimeBackends"] # Reject
  BY <1>1 DEF LoadThrows
<1>3. parseRuntimeBackendsEnv(e.backends) # Reject
  BY <1>1, <1>2
<1> HIDE DEF c
<1>4. /\ parseRuntimeBackendsEnv(e.backends) \in Seq(Backend)
      /\ parseRuntimeBackendsEnv(e.backends) # <<>>
  <2>1. CASE e.backends \in {None, Blank, <<>>}
    BY <2>1 DEF parseRuntimeBackendsEnv, Backend
  <2>2. CASE e.backends \notin {None, Blank, <<>>}
    <3>1. e.backends \in Seq(ToSet(e.backends)) /\ ToSet(e.backends) \subseteq Backend
      BY <1>3, <2>2, RuntimeAssumption DEF parseRuntimeBackendsEnv, SupportedRuntimeBackends, Backend
    <3>2. e.backends \in Seq(Backend)
      BY <3>1
    <3>3. parseRuntimeBackendsEnv(e.backends) = Deduped(e.backends)
      BY <1>3, <2>2 DEF parseRuntimeBackendsEnv
    <3> QED
      BY <3>2, <3>3, <2>2, DedupedFacts
  <2> QED
    BY <2>1, <2>2
<1>5. parseOptionalStringEnv(e.token) # Blank
  BY SentinelsApart DEF parseOptionalStringEnv
<1> QED
  BY <1>1, <1>4, <1>5 DEF c

-----------------------------------------------------------------------------
(* Pane ids route back, and keys make up an input *)

LEMMA RoutesBack ==
  ASSUME Backends \in Seq(Backend), NEW b \in ToSet(Backends), NEW raw \in RawId
  PROVE  resolvePaneTarget(RowOf(b, raw).id) = [backend |-> b, raw |-> raw]
<1>1. b \in Backend /\ b # Delimiter /\ b \in Token /\ Delimiter \in Token
  BY RuntimeAssumption DEF ToSet, Backend, Delimiter
<1>2. raw \in Seq(Token) /\ Len(raw) \in Nat /\ Len(raw) > 0
  BY DEF RawId
<1>3. CASE ~shouldNamespacePaneIds
  <2>1. RowOf(b, raw).id = raw
    BY <1>3 DEF RowOf
  <2>2. Backends[1] = b
    BY <1>3 DEF shouldNamespacePaneIds, ToSet
  <2> QED
    BY <1>3, <2>1, <2>2 DEF resolvePaneTarget
<1>4. CASE shouldNamespacePaneIds
  <2> DEFINE id == <<b, Delimiter>> \o raw
             I == {i \in 1..Len(id) : id[i] = Delimiter}
  <2>1. RowOf(b, raw).id = id
    BY <1>4 DEF RowOf, buildNamespacedPaneId
  <2>2. /\ id \in Seq(Token) /\ Len(id) = 2 + Len(raw) /\ id[1] = b /\ id[2] = Delimiter
        /\ \A i \in 1..Len(raw) : id[2 + i] = raw[i]
    <3>1. <<b, Delimiter>> \in Seq(Token)
      BY <1>1
    <3> QED
      BY <3>1, <1>1, <1>2, ConcatProperties
  <2> HIDE DEF id
  <2>3. SelectInSeq(id, LAMBDA t : t = Delimiter) = 2
    <3>1. SelectInSeq(id, LAMBDA t : t = Delimiter) = IF I # {} THEN Min(I) ELSE 0
      BY DEF SelectInSeq
    <3>2. 2 \in I /\ \A i \in I : 2 <= i
      BY <2>2, <1>1, <1>2
    <3>3. \A x \in I : (\A y \in I : x =< y) <=> x = 2
      <4>1. I \subseteq Nat
        BY <2>2
      <4> HIDE DEF I
      <4> QED
        BY <3>2, <4>1
    <3>4. Min(I) = 2
      <4> HIDE DEF I
      <4> QED
        BY <3>2, <3>3 DEF Min
    <3> QED
      BY <3>1, <3>2, <3>4
  <2>4. Head(id) = b /\ 2 # Len(id)
    BY <2>2, <1>2
  <2>5. SubSeq(id, 3, Len(id)) = raw
    <3>1. SubSeq(id, 3, Len(id)) \in Seq(Token) /\ Len(SubSeq(id, 3, Len(id))) = Len(raw)
      BY <2>2, <1>2, SubSeqProperties
    <3>2. \A i \in 1..Len(raw) : SubSeq(id, 3, Len(id))[i] = raw[i]
      BY <2>2, <1>2, SubSeqProperties
    <3> QED
      BY <3>1, <3>2, <1>2, SeqEqual
  <2>6. resolvePaneTarget(id) = [backend |-> b, raw |-> raw]
    <3> DEFINE k == SelectInSeq(id, LAMBDA t : t = Delimiter)
    <3>1. resolvePaneTarget(id) =
            IF ~shouldNamespacePaneIds THEN [backend |-> Backends[1], raw |-> id]
            ELSE IF k # 2 \/ k = Len(id) \/ Head(id) \notin ToSet(Backends) THEN Reject
            ELSE [backend |-> Head(id), raw |-> SubSeq(id, k + 1, Len(id))]
      BY Zenon DEF resolvePaneTarget
    <3>2. k = 2
      BY <2>3
    <3> HIDE DEF k
    <3>3. k = 2 /\ k # Len(id) /\ k + 1 = 3
      BY <2>4, <3>2
    <3> QED
      BY <1>4, <2>4, <2>5, <3>1, <3>3, Zenon
  <2> QED
    BY <2>1, <2>6
<1> QED
  BY <1>3, <1>4

\* Every key is a sequence of lines, or C-m.
LEMMA SendKeysFacts ==
  ASSUME NEW b \in Backend, NEW text \in Seq(Line)
  PROVE  SendKeys(b, text) \in Seq(TypedKey)
<1>1. CASE b = "cmux"
  BY <1>1 DEF SendKeys, TypedKey
<1>2. CASE b # "cmux"
  <2> DEFINE part(i) == (IF text[i] = "" THEN <<>> ELSE << <<text[i]>> >>)
                          \o (IF i < Len(text) THEN << <<"C-m">> >> ELSE <<>>)
             parts == [i \in DOMAIN text |-> part(i)]
  <2>1. SendKeys(b, text) = FlattenSeq(parts)
    BY <1>2 DEF SendKeys
  <2>2. ASSUME NEW i \in DOMAIN text PROVE part(i) \in Seq(TypedKey)
    <3>1. <<text[i]>> \in TypedKey /\ <<"C-m">> \in TypedKey
      BY DEF TypedKey
    <3>2. /\ (IF text[i] = "" THEN <<>> ELSE << <<text[i]>> >>) \in Seq(TypedKey)
          /\ (IF i < Len(text) THEN << <<"C-m">> >> ELSE <<>>) \in Seq(TypedKey)
      <4>1. <<>> \in Seq(TypedKey)
        OBVIOUS
      <4>2. << <<text[i]>> >> \in Seq(TypedKey) /\ << <<"C-m">> >> \in Seq(TypedKey)
        <5> HIDE DEF part
        <5>1. \A k \in TypedKey : <<k>> \in Seq(TypedKey)
          OBVIOUS
        <5> QED
          BY <3>1, <5>1
      <4> QED
        BY <4>1, <4>2, Zenon
    <3> QED
      BY <3>2, ConcatProperties
  <2> HIDE DEF part
  <2>3. parts \in Seq(Seq(TypedKey))
    BY <2>2
  <2>4. CASE parts = <<>>
    BY <2>1, <2>4 DEF FlattenSeq
  <2>5. CASE parts # <<>>
    <3> HIDE DEF parts
    <3> QED
      BY <2>1, <2>3, <2>5, FlattenFacts
  <2> QED
    BY <2>4, <2>5
<1> QED
  BY <1>1, <1>2


-----------------------------------------------------------------------------
(* The inductive invariant *)

AllOps == Ops \cup {Boot}

\* The configuration of a bridge that got beyond loading was fit to start with.
PhaseInv ==
  phase \notin {"load", "exited"} =>
    ~LoadThrows(Config) /\ validateStartupConfig(Config, env.files)

\* A verified key was scanned, and a bridge listens behind a verified key.
ScanInv ==
  Pinned => /\ verified => Config.fingerprint.key \in scanned
            /\ phase \in {"listening", "closing"} => verified

Live(o, b) == tasks[o][b].at # "none"

\* A tmux task of a pinned host runs, and succeeds, behind the verification;
\* the key it is about to compare was scanned.
PinOK(t) ==
  /\ t.at = "run" \/ t.ok => verified
  /\ t.at = "keygen" => t.key \in scanned

\* What was typed and what is still to be typed make up the input.
SendOK(o, b) ==
  LET t == tasks[o][b]
      want == SendKeys(b, op[o].text)
  IN
  /\ \A i \in 1..Len(typed[o]) : typed[o][i].backend = b
  /\ t.at # "done" => t.todo # <<>> /\ KeysOf(typed[o]) \o t.todo = want
  /\ t.at = "done" /\ t.ok => KeysOf(typed[o]) = want

\* A task belongs to a configured backend and to an operation under way, and
\* does what the operation is for; only listings and checks have several.
TaskOK(o, b) ==
  /\ b \in ToSet(Backends) /\ Running /\ op[o].kind # "none"
  /\ o \in Ops => result[o] = None
  /\ tasks[o][b].cmd \in IF op[o].kind \in {"capture", "send"} THEN {op[o].kind}
                         ELSE {"-V", "list"}
  /\ op[o].kind \in {"capture", "send"} => \A c \in Backend : Live(o, c) => c = b
  /\ Pinned /\ b = "tmux" => PinOK(tasks[o][b])
  /\ op[o].kind = "send" => SendOK(o, b)

InOrder(o) ==
  op[o].kind = "send" /\ typed[o] # <<>> =>
    LET want == SendKeys(typed[o][1].backend, op[o].text)
    IN  /\ IsPrefix(KeysOf(typed[o]), want)
        /\ result[o] # None /\ result[o].ok => KeysOf(typed[o]) = want

\* Every row of a listing was made from a configured backend and a raw id.
RowsOK(o) ==
  result[o] # None =>
    /\ ~LoadThrows(Config)
    /\ \A r \in result[o].rows :
         /\ r.backend \in ToSet(Backends)
         /\ r.id = IF shouldNamespacePaneIds THEN <<r.backend, Delimiter>> \o r.raw ELSE r.raw

OpInv(o) ==
  /\ \A b \in Backend : Live(o, b) => TaskOK(o, b)
  /\ op[o].kind \in {"capture", "send", "list"} => o \in Ops
  /\ o \in Ops => /\ op[o].kind \in {"none", "check"} => result[o] = None
                  /\ op[o].kind = "none" => typed[o] = <<>>
                  /\ InOrder(o) /\ RowsOK(o)

RuntimeInv == TypeOK /\ PhaseInv /\ ScanInv /\ \A o \in AllOps : OpInv(o)

LEMMA RuntimeInit ==
  Init => RuntimeInv
<1> SUFFICES ASSUME Init PROVE RuntimeInv
  OBVIOUS
<1>1. TypeOK
  <2>1. tasks \in [Ops \cup {Boot} -> [Backend -> TaskRecord \cup {NoTask}]]
    BY DEF Init, NoTasks
  <2>2. op \in [Ops \cup {Boot} -> OpRecord]
    BY DEF Init, OpRecord, NoOp
  <2>3. result \in [Ops -> {None} \cup [ok : BOOLEAN, rows : SUBSET Row]]
    BY DEF Init
  <2>4. typed \in [Ops -> Seq([backend : Backend, raw : Seq(Token), key : TypedKey])]
    BY DEF Init
  <2>5. status \in [Backend -> {"up", "idle", "down"}]
    BY DEF Init
  <2> QED
    BY <2>1, <2>2, <2>3, <2>4, <2>5 DEF Init, TypeOK
<1>2. ASSUME NEW o \in AllOps PROVE OpInv(o)
  <2>1. op[o].kind = "none" /\ \A b \in Backend : ~Live(o, b)
    BY DEF Init, AllOps, Live, NoTasks, NoTask, NoOp
  <2>2. o \in Ops => result[o] = None /\ typed[o] = <<>>
    BY DEF Init
  <2> QED
    BY <2>1, <2>2 DEF OpInv, InOrder, RowsOK
<1> QED
  BY <1>1, <1>2 DEF RuntimeInv, PhaseInv, ScanInv, Init

\* What depends on the environment alone stays.
LEMMA ConfigFixed ==
  ASSUME env' = env
  PROVE  /\ Config' = Config /\ Backends' = Backends /\ Over' = Over
         /\ (Pinned' <=> Pinned) /\ (shouldNamespacePaneIds' <=> shouldNamespacePaneIds)
         /\ (LoadThrows(Config)' <=> LoadThrows(Config))
<1>1. Config' = Config
  BY DEF Config
<1> QED
  BY <1>1 DEF Backends, Over, Pinned, shouldNamespacePaneIds

\* An operation whose own state a step leaves alone keeps its invariant.
LEMMA Untouched ==
  ASSUME NEW o \in AllOps, OpInv(o), env' = env,
         tasks'[o] = tasks[o], op'[o] = op[o],
         o \in Ops => result'[o] = result[o] /\ typed'[o] = typed[o],
         verified => verified', scanned \subseteq scanned',
         (\E b \in Backend : Live(o, b)) => (Running => Running')
  PROVE  OpInv(o)'
<1>1. /\ Config' = Config /\ Backends' = Backends
      /\ (Pinned' <=> Pinned) /\ (shouldNamespacePaneIds' <=> shouldNamespacePaneIds)
      /\ (LoadThrows(Config)' <=> LoadThrows(Config))
  BY ConfigFixed
<1>2. ASSUME NEW b \in Backend PROVE Live(o, b)' <=> Live(o, b)
  BY DEF Live
<1>3. ASSUME NEW b \in Backend, Live(o, b)' PROVE TaskOK(o, b)'
  <2>1. Live(o, b) /\ TaskOK(o, b)
    BY <1>2, <1>3 DEF OpInv
  <2>2. Running'
    BY <2>1 DEF TaskOK
  <2>3. Pinned /\ b = "tmux" => PinOK(tasks[o][b])'
    BY <2>1 DEF TaskOK, PinOK
  <2>4. op[o].kind = "send" => SendOK(o, b)'
    <3>1. SUFFICES ASSUME op[o].kind = "send" PROVE SendOK(o, b)'
      OBVIOUS
    <3>2. o \in Ops
      BY <3>1 DEF OpInv
    <3> QED
      BY <2>1, <3>1, <3>2 DEF TaskOK, SendOK
  <2> QED
    BY <1>1, <1>2, <2>1, <2>2, <2>3, <2>4 DEF TaskOK
<1>4. o \in Ops => InOrder(o)' /\ RowsOK(o)'
  BY <1>1 DEF OpInv, InOrder, RowsOK
<1> QED
  BY <1>2, <1>3, <1>4 DEF OpInv


-----------------------------------------------------------------------------
(* A step of one task *)

LEMMA TaskStep ==
  ASSUME RuntimeInv, NEW o \in AllOps, NEW b \in Backend, Live(o, b),
         NEW t \in TaskRecord, t.cmd = tasks[o][b].cmd,
         tasks' = [tasks EXCEPT ![o][b] = t],
         UNCHANGED <<env, phase, exitCode, status, hostKey, changes, op, result>>,
         verified' \in BOOLEAN, verified => verified',
         scanned \subseteq scanned', scanned' \subseteq {"k1", "k2"},
         Pinned => (verified' => Config.fingerprint.key \in scanned'),
         typed' \in [Ops -> Seq([backend : Backend, raw : Seq(Token), key : TypedKey])],
         \A d \in Ops \ {o} : typed'[d] = typed[d],
         Pinned /\ b = "tmux" =>
           /\ t.at = "run" \/ t.ok => verified'
           /\ t.at = "keygen" => t.key \in scanned',
         op[o].kind = "send" => SendOK(o, b)' /\ InOrder(o)',
         op[o].kind # "send" => typed' = typed
  PROVE  RuntimeInv'
<1>1. /\ Config' = Config /\ Backends' = Backends
      /\ (Pinned' <=> Pinned) /\ (shouldNamespacePaneIds' <=> shouldNamespacePaneIds)
      /\ (LoadThrows(Config)' <=> LoadThrows(Config))
  BY ConfigFixed
<1>2. TypeOK /\ OpInv(o) /\ TaskOK(o, b)
  BY DEF RuntimeInv, OpInv
<1>3. /\ tasks' \in [AllOps -> [Backend -> TaskRecord \cup {NoTask}]]
      /\ tasks'[o][b] = t
      /\ \A c \in Backend \ {b} : tasks'[o][c] = tasks[o][c]
      /\ \A d \in AllOps \ {o} : tasks'[d] = tasks[d]
  BY <1>2 DEF TypeOK, AllOps
<1>4. TypeOK'
  BY <1>2, <1>3 DEF TypeOK, AllOps
<1>5. PhaseInv' /\ ScanInv'
  BY <1>1, <1>2 DEF RuntimeInv, PhaseInv, ScanInv
<1>6. \A c \in Backend : Live(o, c)' <=> Live(o, c)
  BY <1>3 DEF Live, TaskRecord
<1>7. Running' <=> Running
  BY DEF Running
<1>8. op[o].kind = "send" => o \in Ops
  BY <1>2 DEF OpInv
<1>9. ASSUME NEW c \in Backend, Live(o, c)' PROVE TaskOK(o, c)'
  <2>1. TaskOK(o, c)
    BY <1>2, <1>6, <1>9 DEF OpInv
  <2>2. tasks'[o][c].cmd = tasks[o][c].cmd
    BY <1>3
  <2>3. Pinned /\ c = "tmux" => PinOK(tasks[o][c])'
    BY <1>3, <2>1 DEF PinOK, TaskOK
  <2>4. op[o].kind = "send" => SendOK(o, c)'
    <3>1. op[o].kind = "send" => c = b
      BY <2>1, <1>2 DEF TaskOK
    <3> QED
      BY <3>1
  <2> QED
    BY <1>1, <1>6, <1>7, <2>1, <2>2, <2>3, <2>4 DEF TaskOK
<1>10. ASSUME o \in Ops PROVE InOrder(o)' /\ RowsOK(o)' /\ (op[o].kind = "none" => typed'[o] = <<>>)
  <2>1. RowsOK(o)'
    BY <1>1, <1>2, <1>10 DEF OpInv, RowsOK
  <2>2. InOrder(o)'
    BY <1>2, <1>10 DEF InOrder
  <2> QED
    BY <1>2, <1>10, <2>1, <2>2 DEF OpInv
<1>11. OpInv(o)'
  BY <1>2, <1>9, <1>10 DEF OpInv
<1>12. ASSUME NEW d \in AllOps \ {o} PROVE OpInv(d)'
  BY <1>3, <1>7, <1>12, Untouched DEF RuntimeInv
<1> QED
  BY <1>4, <1>5, <1>11, <1>12 DEF RuntimeInv


\* A pinned host is reached by tmux alone.
LEMMA PinnedIsTmux ==
  ASSUME RuntimeInv, Pinned, NEW o \in AllOps, NEW b \in Backend, Live(o, b)
  PROVE  b = "tmux"
<1>1. b \in ToSet(Backends) /\ Running
  BY DEF RuntimeInv, OpInv, TaskOK
<1>2. Backends = <<"tmux">>
  BY <1>1 DEF RuntimeInv, PhaseInv, Running, validateStartupConfig, Pinned, Over, Backends, isTmuxOnly
<1> QED
  BY <1>1, <1>2 DEF ToSet

\* A task that types nothing leaves what is typed as it was.
LEMMA NothingTyped ==
  ASSUME RuntimeInv, NEW o \in AllOps, NEW b \in Backend, Live(o, b),
         NEW t \in TaskRecord, tasks'[o][b] = t,
         UNCHANGED <<op, result, typed>>, op[o].kind = "send",
         t.at # "done" => tasks[o][b].at # "done" /\ t.todo = tasks[o][b].todo,
         t.at = "done" => ~t.ok
  PROVE  SendOK(o, b)' /\ InOrder(o)'
<1>1. SendOK(o, b) /\ InOrder(o)
  BY DEF RuntimeInv, OpInv, TaskOK
<1>2. SendOK(o, b)'
  BY <1>1 DEF SendOK
<1>3. InOrder(o)'
  BY <1>1 DEF InOrder
<1> QED
  BY <1>2, <1>3

\* A call that ends unanswered.
CallFails(o, b) ==
  /\ tasks' = Failed(o, b)
  /\ UNCHANGED <<env, phase, exitCode, status, hostKey, changes, verified, op, result, typed,
                 scanned>>

LEMMA FailedStep ==
  ASSUME RuntimeInv, NEW o \in AllOps, NEW b \in Backend, Live(o, b),
         CallFails(o, b)
  PROVE  RuntimeInv'
<1>1. TypeOK /\ ScanInv
  BY DEF RuntimeInv
<1>2. tasks[o][b] \in TaskRecord
  BY <1>1 DEF TypeOK, AllOps, Live, NoTask
<1>3. PICK t \in TaskRecord :
        /\ t = [tasks[o][b] EXCEPT !.at = "done", !.ok = FALSE, !.rows = {}]
        /\ t.at = "done" /\ ~t.ok /\ t.cmd = tasks[o][b].cmd
  <2> DEFINE u == [tasks[o][b] EXCEPT !.at = "done", !.ok = FALSE, !.rows = {}]
  <2>1. u \in TaskRecord /\ u.at = "done" /\ ~u.ok /\ u.cmd = tasks[o][b].cmd
    BY <1>2 DEF TaskRecord
  <2> QED
    BY <2>1
<1>4. tasks' = [tasks EXCEPT ![o][b] = t]
  BY <1>3 DEF CallFails, Failed, Ended
<1>5. tasks'[o][b] = t
  BY <1>1, <1>4 DEF TypeOK, AllOps
<1>6. op[o].kind = "send" => SendOK(o, b)' /\ InOrder(o)'
  BY <1>3, <1>5, NothingTyped DEF CallFails
<1>7. /\ verified' \in BOOLEAN /\ (verified => verified')
      /\ scanned \subseteq scanned' /\ scanned' \subseteq {"k1", "k2"}
      /\ Pinned => (verified' => Config.fingerprint.key \in scanned')
      /\ typed' \in [Ops -> Seq([backend : Backend, raw : Seq(Token), key : TypedKey])]
      /\ \A d \in Ops \ {o} : typed'[d] = typed[d]
  BY <1>1 DEF TypeOK, ScanInv, CallFails
<1>8. /\ t.cmd = tasks[o][b].cmd
      /\ Pinned /\ b = "tmux" => /\ t.at = "run" \/ t.ok => verified'
                                 /\ t.at = "keygen" => t.key \in scanned'
  BY <1>3
<1>9. UNCHANGED <<env, phase, exitCode, status, hostKey, changes, op, result>> /\ typed' = typed
  BY DEF CallFails
<1> QED
  BY <1>4, <1>6, <1>7, <1>8, <1>9, TaskStep

LEMMA KeyScanStep ==
  ASSUME RuntimeInv, NEW o \in AllOps, NEW b \in Backend, KeyScan(o, b)
  PROVE  RuntimeInv'
<1>0. Live(o, b)
  BY DEF KeyScan, Live
<1>1. TypeOK /\ ScanInv /\ TaskOK(o, b)
  BY <1>0 DEF RuntimeInv, OpInv
<1>2. CASE tasks' = Failed(o, b) /\ UNCHANGED scanned
  BY <1>0, <1>2, FailedStep DEF KeyScan, CallFails
<1>3. CASE /\ tasks' = [tasks EXCEPT ![o][b] = [@ EXCEPT !.at = "keygen", !.key = hostKey]]
           /\ scanned' = scanned \cup {hostKey}
  <2>2. tasks[o][b] \in TaskRecord /\ hostKey \in {"k1", "k2"}
    BY <1>0, <1>1 DEF TypeOK, AllOps, Live, NoTask
  <2>3. PICK t \in TaskRecord :
          /\ t = [tasks[o][b] EXCEPT !.at = "keygen", !.key = hostKey]
          /\ t.at = "keygen" /\ t.key = hostKey /\ t.cmd = tasks[o][b].cmd
          /\ t.todo = tasks[o][b].todo /\ t.ok = tasks[o][b].ok
    <3> DEFINE u == [tasks[o][b] EXCEPT !.at = "keygen", !.key = hostKey]
    <3>1. /\ u \in TaskRecord /\ u.at = "keygen" /\ u.key = hostKey /\ u.cmd = tasks[o][b].cmd
          /\ u.todo = tasks[o][b].todo /\ u.ok = tasks[o][b].ok
      BY <2>2 DEF TaskRecord
    <3> QED
      BY <3>1
  <2>4. tasks' = [tasks EXCEPT ![o][b] = t]
    BY <1>3, <2>3
  <2>5. tasks'[o][b] = t
    BY <1>1, <2>4 DEF TypeOK, AllOps
  <2>6. op[o].kind = "send" => SendOK(o, b)' /\ InOrder(o)'
    BY <1>0, <2>3, <2>5, NothingTyped DEF KeyScan
  <2>7. /\ verified' \in BOOLEAN /\ (verified => verified')
        /\ scanned \subseteq scanned' /\ scanned' \subseteq {"k1", "k2"}
        /\ Pinned => (verified' => Config.fingerprint.key \in scanned')
        /\ typed' \in [Ops -> Seq([backend : Backend, raw : Seq(Token), key : TypedKey])]
        /\ (\A d \in Ops \ {o} : typed'[d] = typed[d]) /\ typed' = typed
    BY <1>1, <1>3, <2>2 DEF TypeOK, ScanInv, KeyScan
  <2>8. Pinned /\ b = "tmux" =>
          /\ t.at = "run" \/ t.ok => verified'
          /\ t.at = "keygen" => t.key \in scanned'
    BY <1>1, <1>3, <2>3, <2>7 DEF TaskOK, PinOK
  <2>9. UNCHANGED <<env, phase, exitCode, status, hostKey, changes, op, result>>
    BY DEF KeyScan
  <2> QED
    BY <1>0, <2>3, <2>4, <2>6, <2>7, <2>8, <2>9, TaskStep
<1> QED
  BY <1>2, <1>3 DEF KeyScan

LEMMA KeyGenStep ==
  ASSUME RuntimeInv, NEW o \in AllOps, NEW b \in Backend, KeyGen(o, b)
  PROVE  RuntimeInv'
<1>0. Live(o, b)
  BY DEF KeyGen, Live
<1>1. TypeOK /\ ScanInv /\ TaskOK(o, b)
  BY <1>0 DEF RuntimeInv, OpInv
<1>2. CASE tasks' = Failed(o, b) /\ UNCHANGED verified
  BY <1>0, <1>2, FailedStep DEF KeyGen, CallFails
<1>3. CASE /\ verifyExpectedHostFingerprint(tasks[o][b].key)
           /\ verified' = TRUE
           /\ tasks' = [tasks EXCEPT ![o][b] = [@ EXCEPT !.at = "run"]]
  <2>2. tasks[o][b] \in TaskRecord
    BY <1>0, <1>1 DEF TypeOK, AllOps, Live, NoTask
  <2>3. PICK t \in TaskRecord :
          /\ t = [tasks[o][b] EXCEPT !.at = "run"]
          /\ t.at = "run" /\ t.cmd = tasks[o][b].cmd /\ t.todo = tasks[o][b].todo
    <3> DEFINE u == [tasks[o][b] EXCEPT !.at = "run"]
    <3>1. u \in TaskRecord /\ u.at = "run" /\ u.cmd = tasks[o][b].cmd /\ u.todo = tasks[o][b].todo
      BY <2>2 DEF TaskRecord
    <3> QED
      BY <3>1
  <2>4. tasks' = [tasks EXCEPT ![o][b] = t]
    BY <1>3, <2>3
  <2>5. tasks'[o][b] = t
    BY <1>1, <2>4 DEF TypeOK, AllOps
  <2>6. op[o].kind = "send" => SendOK(o, b)' /\ InOrder(o)'
    BY <1>0, <2>3, <2>5, NothingTyped DEF KeyGen
  <2>7. /\ verified' \in BOOLEAN /\ (verified => verified')
        /\ scanned \subseteq scanned' /\ scanned' \subseteq {"k1", "k2"}
        /\ typed' \in [Ops -> Seq([backend : Backend, raw : Seq(Token), key : TypedKey])]
        /\ (\A d \in Ops \ {o} : typed'[d] = typed[d]) /\ typed' = typed
    BY <1>1, <1>3 DEF TypeOK, KeyGen
  <2>8. ASSUME Pinned PROVE Config.fingerprint.key \in scanned'
    <3>1. tasks[o][b].at = "keygen" /\ scanned' = scanned
      BY DEF KeyGen
    <3>2. tasks[o][b].key \in scanned
      BY <1>0, <1>1, <2>8, <3>1, PinnedIsTmux DEF TaskOK, PinOK
    <3>3. tasks[o][b].key # None
      BY <1>1, <3>2, RuntimeAssumption DEF TypeOK
    <3> QED
      BY <1>3, <3>1, <3>2, <3>3 DEF verifyExpectedHostFingerprint, normalizeFingerprint
  <2>9. UNCHANGED <<env, phase, exitCode, status, hostKey, changes, op, result>>
    BY DEF KeyGen
  <2>10. Pinned /\ b = "tmux" =>
           /\ t.at = "run" \/ t.ok => verified'
           /\ t.at = "keygen" => t.key \in scanned'
    BY <1>3, <2>3
  <2> QED
    BY <1>0, <2>3, <2>4, <2>6, <2>7, <2>8, <2>9, <2>10, TaskStep
<1> QED
  BY <1>2, <1>3 DEF KeyGen


LEMMA RunQueryStep ==
  ASSUME RuntimeInv, NEW o \in AllOps, NEW b \in Backend, RunQuery(o, b)
  PROVE  RuntimeInv'
<1>0. Live(o, b)
  BY DEF RunQuery, Live
<1>1. TypeOK /\ ScanInv /\ TaskOK(o, b)
  BY <1>0 DEF RuntimeInv, OpInv
<1>2. CASE tasks' = Failed(o, b)
  BY <1>0, <1>2, FailedStep DEF RunQuery, CallFails
<1>3. CASE tasks' # Failed(o, b)
  <2>1. \A reply \in CmuxReply : Rows(b, reply) \subseteq RawId
    BY RuntimeAssumption DEF Rows
  <2>2. tasks[o][b] \in TaskRecord /\ tasks[o][b].cmd \in {"-V", "list", "capture"}
    BY <1>0, <1>1 DEF TypeOK, AllOps, Live, NoTask, TaskRecord, RunQuery
  <2>3. \E ok \in BOOLEAN, rows \in SUBSET RawId : tasks' = Ended(o, b, ok, rows)
    <3>1. CASE tasks[o][b].cmd = "-V"
      <4>1. PICK reply \in CmuxReply :
              tasks' = Ended(o, b, b = "cmux" => parseJsonOutput(reply), {})
        BY <1>3, <3>1 DEF RunQuery
      <4>2. (b = "cmux" => parseJsonOutput(reply)) \in BOOLEAN
        OBVIOUS
      <4> QED
        BY <4>1, <4>2
    <3>2. CASE tasks[o][b].cmd = "list"
      BY <1>3, <2>1, <3>2 DEF RunQuery
    <3>3. CASE tasks[o][b].cmd = "capture"
      BY <1>3, <3>3 DEF RunQuery
    <3> QED
      BY <2>2, <3>1, <3>2, <3>3
  <2>4. PICK ok \in BOOLEAN, rows \in SUBSET RawId : tasks' = Ended(o, b, ok, rows)
    BY <2>3
  <2>5. PICK t \in TaskRecord :
          /\ t = [tasks[o][b] EXCEPT !.at = "done", !.ok = ok, !.rows = rows]
          /\ t.at = "done" /\ t.cmd = tasks[o][b].cmd
    <3> DEFINE u == [tasks[o][b] EXCEPT !.at = "done", !.ok = ok, !.rows = rows]
    <3>1. u \in TaskRecord /\ u.at = "done" /\ u.cmd = tasks[o][b].cmd
      BY <2>2 DEF TaskRecord
    <3> QED
      BY <3>1
  <2>6. tasks' = [tasks EXCEPT ![o][b] = t]
    BY <2>4, <2>5 DEF Ended
  <2>7. op[o].kind # "send"
    BY <1>1 DEF TaskOK, RunQuery
  <2>8. /\ verified' \in BOOLEAN /\ (verified => verified')
        /\ scanned \subseteq scanned' /\ scanned' \subseteq {"k1", "k2"}
        /\ Pinned => (verified' => Config.fingerprint.key \in scanned')
        /\ typed' \in [Ops -> Seq([backend : Backend, raw : Seq(Token), key : TypedKey])]
        /\ (\A d \in Ops \ {o} : typed'[d] = typed[d]) /\ typed' = typed
    BY <1>1 DEF TypeOK, ScanInv, RunQuery
  <2>9. Pinned /\ b = "tmux" => verified'
    BY <1>1 DEF TaskOK, PinOK, RunQuery
  <2>10. /\ t.cmd = tasks[o][b].cmd
         /\ Pinned /\ b = "tmux" => /\ t.at = "run" \/ t.ok => verified'
                                    /\ t.at = "keygen" => t.key \in scanned'
    BY <2>5, <2>9
  <2>11. UNCHANGED <<env, phase, exitCode, status, hostKey, changes, op, result>>
    BY DEF RunQuery
  <2> QED
    BY <1>0, <2>6, <2>7, <2>8, <2>10, <2>11, TaskStep
<1> QED
  BY <1>2, <1>3

-----------------------------------------------------------------------------
(* What is typed *)

LEMMA PrefixOfConcat ==
  ASSUME NEW S, NEW s \in Seq(S), NEW t \in Seq(S)
  PROVE  IsPrefix(s, s \o t)
<1>1. Len(s \o t) = Len(s) + Len(t) /\ Len(s) \in Nat /\ Len(t) \in Nat
  BY ConcatProperties, LenProperties
<1>2. SubSeq(s, 1, Len(s)) = s
  BY SubSeqFull
<1>3. SubSeq(s \o t, 1, Len(s)) = s
  BY ConcatProperties, LenProperties, SubSeqProperties, SMT
<1> QED
  BY <1>1, <1>2, <1>3 DEF IsPrefix

TypedEntry == [backend : Backend, raw : Seq(Token), key : TypedKey]

LEMMA KeysOfFacts ==
  ASSUME NEW s \in Seq(TypedEntry)
  PROVE  /\ KeysOf(s) \in Seq(TypedKey) /\ Len(KeysOf(s)) = Len(s)
         /\ \A i \in 1..Len(s) : KeysOf(s)[i] = s[i].key
<1>1. DOMAIN s = 1..Len(s) /\ Len(s) \in Nat
  BY LenProperties
<1>2. \A i \in 1..Len(s) : s[i].key \in TypedKey
  <2> TAKE i \in 1..Len(s)
  <2>1. s[i] \in TypedEntry
    BY ElementOfSeq
  <2> QED
    BY <2>1 DEF TypedEntry
<1>3. KeysOf(s) = [i \in 1..Len(s) |-> s[i].key]
  BY <1>1 DEF KeysOf
<1>4. KeysOf(s) \in [1..Len(s) -> TypedKey]
  BY <1>2, <1>3
<1>5. KeysOf(s) \in Seq(TypedKey)
  BY <1>1, <1>4
<1>6. DOMAIN KeysOf(s) = 1..Len(s)
  BY <1>3
<1>7. Len(KeysOf(s)) = Len(s)
  BY <1>1, <1>5, <1>6, LenProperties
<1> QED
  BY <1>3, <1>5, <1>7

\* A key moves from what is to be typed to what is typed.
LEMMA KeyTyped ==
  ASSUME NEW ty \in Seq(TypedEntry), NEW todo \in Seq(TypedKey), todo # <<>>,
         NEW e \in TypedEntry, e.key = Head(todo)
  PROVE  /\ KeysOf(Append(ty, e)) \in Seq(TypedKey) /\ Append(ty, e) \in Seq(TypedEntry)
         /\ Append(ty, e) # <<>>
         /\ KeysOf(Append(ty, e)) \o Tail(todo) = KeysOf(ty) \o todo
<1>1. PICK K \in Seq(TypedKey) :
        K = KeysOf(ty) /\ Len(K) = Len(ty) /\ \A i \in 1..Len(ty) : K[i] = ty[i].key
  BY KeysOfFacts
<1>2. /\ Append(ty, e) \in Seq(TypedEntry)
      /\ Len(Append(ty, e)) = Len(ty) + 1 /\ Len(ty) \in Nat
      /\ \A i \in 1..Len(ty) : Append(ty, e)[i] = ty[i]
      /\ Append(ty, e)[Len(ty) + 1] = e
  BY AppendProperties, LenProperties
<1>3. PICK L \in Seq(TypedKey) :
        /\ L = KeysOf(Append(ty, e)) /\ Len(L) = Len(ty) + 1
        /\ \A i \in 1..Len(ty) + 1 : L[i] = Append(ty, e)[i].key
  BY <1>2, KeysOfFacts
<1>4. (\A i \in 1..Len(ty) : L[i] = K[i]) /\ L[Len(ty) + 1] = Head(todo)
  <2>1. Len(ty) + 1 \in 1..Len(ty) + 1 /\ \A i \in 1..Len(ty) : i \in 1..Len(ty) + 1
    BY <1>2, SMTT(60)
  <2> QED
    BY <1>1, <1>2, <1>3, <2>1
<1>5. PICK T \in Seq(TypedKey) :
        /\ T = Tail(todo) /\ Len(T) = Len(todo) - 1
        /\ \A i \in 1..Len(todo) - 1 : T[i] = todo[i + 1]
  <2>1. Tail(todo) \in Seq(TypedKey) /\ Len(Tail(todo)) = Len(todo) - 1
    BY HeadTailProperties
  <2>2. \A i \in 1..Len(todo) - 1 : Tail(todo)[i] = todo[i + 1]
    OBVIOUS
  <2> QED
    BY <2>1, <2>2
<1>6. Len(todo) \in Nat /\ Len(todo) > 0 /\ Head(todo) = todo[1]
  OBVIOUS
<1>7. L \o T = K \o todo
  <2>1. /\ L \o T \in Seq(TypedKey) /\ Len(L \o T) = Len(L) + Len(T)
        /\ K \o todo \in Seq(TypedKey) /\ Len(K \o todo) = Len(K) + Len(todo)
    BY ConcatProperties
  <2>2. Len(L \o T) = Len(ty) + Len(todo) /\ Len(K \o todo) = Len(ty) + Len(todo)
    BY <1>1, <1>2, <1>3, <1>5, <1>6, <2>1
  <2>3. ASSUME NEW i \in 1..Len(ty) + Len(todo) PROVE (L \o T)[i] = (K \o todo)[i]
    <3>1. (L \o T)[i] = IF i <= Len(L) THEN L[i] ELSE T[i - Len(L)]
      BY <2>1, <2>2, ConcatProperties
    <3>2. (K \o todo)[i] = IF i <= Len(K) THEN K[i] ELSE todo[i - Len(K)]
      BY <2>1, <2>2, ConcatProperties
    <3>3. CASE i <= Len(ty)
      BY <1>1, <1>2, <1>3, <1>4, <3>1, <3>2, <3>3
    <3>4. CASE i = Len(ty) + 1
      BY <1>1, <1>2, <1>3, <1>4, <1>6, <3>1, <3>2, <3>4
    <3>5. CASE i > Len(ty) + 1
      <4>1. i - Len(L) \in 1..Len(todo) - 1 /\ (i - Len(L)) + 1 = i - Len(K)
        BY <1>1, <1>2, <1>3, <1>6, <3>5
      <4>2. T[i - Len(L)] = todo[(i - Len(L)) + 1]
        BY <1>5, <4>1
      <4>3. ~(i <= Len(L)) /\ ~(i <= Len(K))
        BY <1>1, <1>2, <1>3, <3>5
      <4> QED
        BY <3>1, <3>2, <4>1, <4>2, <4>3
    <3>6. i <= Len(ty) \/ i = Len(ty) + 1 \/ i > Len(ty) + 1
      BY <1>2, <1>6
    <3> QED
      BY <3>3, <3>4, <3>5, <3>6
  <2> QED
    BY <2>1, <2>2, <2>3, SeqEqual
<1>8. Append(ty, e) # <<>>
  BY AppendProperties
<1> QED
  BY <1>1, <1>2, <1>3, <1>5, <1>7, <1>8


LEMMA RunSendStep ==
  ASSUME RuntimeInv, NEW o \in AllOps, NEW b \in Backend, RunSend(o, b)
  PROVE  RuntimeInv'
<1>0. Live(o, b)
  BY DEF RunSend, Live
<1>1. TypeOK /\ ScanInv /\ TaskOK(o, b) /\ OpInv(o)
  BY <1>0 DEF RuntimeInv, OpInv
<1>2. CASE tasks' = KeyFails(o, b) /\ UNCHANGED typed
  <2>1. CallFails(o, b)
    BY <1>2 DEF CallFails, KeyFails, RunSend
  <2> QED
    BY <1>0, <2>1, FailedStep
<1>3. CASE /\ tasks[o][b].raw \in RawPanes[b]
           /\ typed' = [typed EXCEPT ![o] = Append(@, [backend |-> b, raw |-> tasks[o][b].raw,
                                                       key |-> Head(tasks[o][b].todo)])]
           /\ tasks' \in {NextKey(o, b), KeyFails(o, b)}
  <2>1. PICK x \in TaskRecord : x = tasks[o][b] /\ x.at = "run" /\ x.cmd = "send"
    BY <1>0, <1>1 DEF TypeOK, AllOps, Live, NoTask, RunSend
  <2>2. op[o].kind = "send" /\ o \in Ops /\ result[o] = None
    BY <1>1, <2>1 DEF TaskOK, OpInv
  <2>3. PICK want : want = SendKeys(b, op[o].text)
    OBVIOUS
  <2>4. PICK ty \in Seq(TypedEntry) :
          /\ ty = typed[o] /\ KeysOf(ty) \o x.todo = want
          /\ \A i \in 1..Len(ty) : ty[i].backend = b
    BY <1>1, <2>1, <2>2, <2>3 DEF TypeOK, TypedEntry, TaskOK, SendOK
  <2>5. PICK todo \in Seq(TypedKey) : todo = x.todo /\ todo # <<>>
    BY <1>1, <2>1, <2>2 DEF TaskRecord, TaskOK, SendOK
  <2>6. PICK e \in TypedEntry :
          /\ e = [backend |-> b, raw |-> tasks[o][b].raw, key |-> Head(tasks[o][b].todo)]
          /\ e.backend = b /\ e.key = Head(todo)
    <3>1. tasks[o][b].raw \in Seq(Token)
      BY <1>3, RuntimeAssumption DEF RawId
    <3>2. Head(todo) \in TypedKey /\ Head(todo) = Head(tasks[o][b].todo)
      BY <2>1, <2>5
    <3> DEFINE f == [backend |-> b, raw |-> tasks[o][b].raw, key |-> Head(tasks[o][b].todo)]
    <3>3. f \in TypedEntry /\ f.backend = b /\ f.key = Head(todo)
      BY <3>1, <3>2 DEF TypedEntry
    <3> QED
      BY <3>3
  <2>7. PICK tz \in Seq(TypedEntry) :
          /\ tz = Append(ty, e) /\ tz # <<>> /\ KeysOf(tz) \in Seq(TypedKey)
          /\ KeysOf(tz) \o Tail(todo) = want
          /\ (\A i \in 1..Len(tz) : tz[i].backend = b) /\ tz[1].backend = b
    <3>1. /\ Append(ty, e) \in Seq(TypedEntry) /\ Append(ty, e) # <<>>
          /\ KeysOf(Append(ty, e)) \in Seq(TypedKey)
          /\ KeysOf(Append(ty, e)) \o Tail(todo) = want
      BY <2>4, <2>5, <2>6, KeyTyped
    <3>2. Len(Append(ty, e)) = Len(ty) + 1 /\ Len(ty) \in Nat
      BY AppendProperties, LenProperties
    <3>3. \A i \in 1..Len(ty) + 1 : Append(ty, e)[i].backend = b
      <4> TAKE i \in 1..Len(ty) + 1
      <4>1. CASE i \in 1..Len(ty)
        BY <4>1, <2>4, AppendProperties
      <4>2. CASE i = Len(ty) + 1
        BY <4>2, <2>6, AppendProperties
      <4> QED
        BY <3>2, <4>1, <4>2
    <3>4. Append(ty, e)[1].backend = b
      BY <3>2, <3>3
    <3> QED
      BY <3>1, <3>2, <3>3, <3>4
  <2>8. /\ typed' \in [Ops -> Seq([backend : Backend, raw : Seq(Token), key : TypedKey])]
        /\ typed'[o] = tz /\ \A d \in Ops \ {o} : typed'[d] = typed[d]
    <3>1. typed' = [typed EXCEPT ![o] = tz]
      BY <1>3, <2>4, <2>6, <2>7
    <3>2. typed \in [Ops -> Seq(TypedEntry)]
      BY <1>1 DEF TypeOK, TypedEntry
    <3>3. /\ typed' \in [Ops -> Seq(TypedEntry)] /\ typed'[o] = tz
          /\ \A d \in Ops \ {o} : typed'[d] = typed[d]
      BY <2>2, <3>1, <3>2
    <3> QED
      BY <3>3 DEF TypedEntry
  <2>9. PICK u \in TaskRecord :
          /\ tasks' = [tasks EXCEPT ![o][b] = u]
          /\ u.cmd = "send" /\ u.at # "keygen"
          /\ u.at # "done" => u.todo = Tail(todo) /\ u.todo # <<>>
          /\ u.at = "done" /\ u.ok => Tail(todo) = <<>>
    <3> DEFINE done(ok) == [x EXCEPT !.at = "done", !.ok = ok, !.rows = {}]
               more == [x EXCEPT !.todo = Tail(todo), !.at = FirstStep(b)]
    <3>1. \A ok \in BOOLEAN : done(ok) \in TaskRecord /\ done(ok).cmd = "send"
                              /\ done(ok).at = "done" /\ done(ok).ok = ok
      BY <2>1 DEF TaskRecord
    <3>2. Tail(todo) \in Seq(TypedKey) /\ FirstStep(b) \in {"scan", "run"}
      BY <2>5 DEF FirstStep
    <3>3. more \in TaskRecord /\ more.cmd = "send" /\ more.at \in {"scan", "run"} /\ more.todo = Tail(todo)
      BY <2>1, <3>2 DEF TaskRecord
    <3>4. CASE tasks' = KeyFails(o, b)
      <4>1. tasks' = [tasks EXCEPT ![o][b] = done(FALSE)]
        BY <2>1, <3>4 DEF KeyFails, Failed, Ended
      <4>2. done(FALSE) \in TaskRecord /\ done(FALSE).cmd = "send" /\ done(FALSE).at = "done" /\ ~done(FALSE).ok
        BY <3>1
      <4> HIDE DEF done
      <4> QED
        BY <4>1, <4>2
    <3>5. CASE tasks' = NextKey(o, b) /\ Len(todo) = 1
      <4>1. tasks' = [tasks EXCEPT ![o][b] = done(TRUE)]
        BY <2>1, <2>5, <3>5 DEF NextKey, Ended
      <4>2. done(TRUE) \in TaskRecord /\ done(TRUE).cmd = "send" /\ done(TRUE).at = "done"
        BY <3>1
      <4>3. Tail(todo) = <<>>
        <5>1. Tail(todo) \in Seq(TypedKey) /\ Len(Tail(todo)) = 0
          BY <3>5, <2>5, HeadTailProperties
        <5> QED
          BY <5>1, EmptySeq
      <4> HIDE DEF done
      <4> QED
        BY <4>1, <4>2, <4>3
    <3>6. CASE tasks' = NextKey(o, b) /\ Len(todo) # 1
      <4>1. tasks' = [tasks EXCEPT ![o][b] = more]
        BY <2>1, <2>5, <3>6 DEF NextKey
      <4>2. Tail(todo) # <<>>
        <5>1. Len(Tail(todo)) = Len(todo) - 1 /\ Len(todo) \in Nat /\ Len(<<>>) = 0
          BY <2>5, HeadTailProperties, LenProperties, EmptySeq
        <5>2. Len(Tail(todo)) # 0
          BY <5>1, <3>6
        <5> QED
          BY <5>1, <5>2, Zenon
      <4> HIDE DEF more
      <4> QED
        BY <4>1, <4>2, <3>3
    <3> QED
      BY <1>3, <3>4, <3>5, <3>6
  <2>10. tasks'[o][b] = u /\ op' = op /\ result' = result
    BY <1>1, <2>9 DEF TypeOK, AllOps, RunSend
  <2>11. SendOK(o, b)'
    <3>1. u.at = "done" /\ u.ok => KeysOf(tz) = want
      BY <2>7, <2>9, ConcatEmptySeq
    <3> QED
      BY <2>3, <2>7, <2>8, <2>9, <2>10, <3>1 DEF SendOK
  <2>12. InOrder(o)'
    <3>1. IsPrefix(KeysOf(tz), want)
      <4>1. Tail(todo) \in Seq(TypedKey)
        BY <2>5
      <4> QED
        BY <4>1, <2>7, PrefixOfConcat
    <3> QED
      BY <2>2, <2>3, <2>7, <2>8, <2>10, <3>1 DEF InOrder
  <2>13. Pinned /\ b = "tmux" => verified
    BY <1>1, <2>1 DEF TaskOK, PinOK
  <2>14. /\ verified' \in BOOLEAN /\ (verified => verified')
         /\ scanned \subseteq scanned' /\ scanned' \subseteq {"k1", "k2"}
         /\ Pinned => (verified' => Config.fingerprint.key \in scanned')
    BY <1>1 DEF TypeOK, ScanInv, RunSend
  <2>15. /\ u.cmd = tasks[o][b].cmd
         /\ Pinned /\ b = "tmux" => /\ u.at = "run" \/ u.ok => verified'
                                    /\ u.at = "keygen" => u.key \in scanned'
    BY <2>1, <2>9, <2>13, <2>14
  <2>16. UNCHANGED <<env, phase, exitCode, status, hostKey, changes, op, result>>
    BY DEF RunSend
  <2>17. tasks' = [tasks EXCEPT ![o][b] = u]
    BY <2>9
  <2>18. /\ typed' \in [Ops -> Seq([backend : Backend, raw : Seq(Token), key : TypedKey])]
         /\ \A d \in Ops \ {o} : typed'[d] = typed[d]
    BY <2>8
  <2> QED
    BY <1>0, <2>2, <2>11, <2>12, <2>14, <2>15, <2>16, <2>17, <2>18, TaskStep
<1> QED
  BY <1>2, <1>3 DEF RunSend


-----------------------------------------------------------------------------
(* A step of one operation *)

OneOpChanges(o) ==
  /\ \A d \in AllOps \ {o} : tasks'[d] = tasks[d] /\ op'[d] = op[d]
  /\ \A d \in Ops \ {o} : result'[d] = result[d]
  /\ UNCHANGED <<env, phase, exitCode, status, hostKey, changes, verified, typed, scanned>>

LEMMA OpStep ==
  ASSUME RuntimeInv, NEW o \in AllOps, OneOpChanges(o),
         tasks' \in [AllOps -> [Backend -> TaskRecord \cup {NoTask}]],
         op' \in [AllOps -> OpRecord],
         result' \in [Ops -> {None} \cup [ok : BOOLEAN, rows : SUBSET Row]],
         OpInv(o)'
  PROVE  RuntimeInv'
<1>1. /\ Config' = Config /\ Backends' = Backends
      /\ (Pinned' <=> Pinned) /\ (LoadThrows(Config)' <=> LoadThrows(Config))
  BY ConfigFixed DEF OneOpChanges
<1>2. TypeOK /\ PhaseInv /\ ScanInv
  BY DEF RuntimeInv
<1>3. TypeOK'
  BY <1>2 DEF TypeOK, AllOps, OneOpChanges
<1>4. PhaseInv'
  BY <1>1, <1>2 DEF PhaseInv, OneOpChanges
<1>5. ScanInv'
  BY <1>1, <1>2 DEF ScanInv, OneOpChanges
<1>6. ASSUME NEW d \in AllOps \ {o} PROVE OpInv(d)'
  <2>1. /\ OpInv(d) /\ env' = env /\ tasks'[d] = tasks[d] /\ op'[d] = op[d]
        /\ (d \in Ops => result'[d] = result[d] /\ typed'[d] = typed[d])
        /\ (Running => Running')
    BY DEF RuntimeInv, OneOpChanges, Running
  <2>2. (verified => verified') /\ scanned \subseteq scanned'
    BY DEF OneOpChanges
  <2> QED
    BY <2>1, <2>2, Untouched
<1> QED
  BY <1>3, <1>4, <1>5, <1>6 DEF RuntimeInv

\* A new task starts at the key scan, or behind the verification.
NewTask(t, b, cmd, todo) ==
  /\ t.at \in {"scan", "run"} /\ t.cmd = cmd /\ t.todo = todo /\ ~t.ok
  /\ Pinned /\ b = "tmux" /\ t.at = "run" => verified

LEMMA TaskFacts ==
  ASSUME NEW b \in Backend, NEW cmd \in {"-V", "list", "capture", "send"},
         NEW raw \in Seq(Token) \cup {None}, NEW todo \in Seq(TypedKey)
  PROVE  /\ Task(b, cmd, raw, todo) \in TaskRecord
         /\ NewTask(Task(b, cmd, raw, todo), b, cmd, todo)
<1> DEFINE t == Task(b, cmd, raw, todo)
<1>1. /\ FirstStep(b) \in {"scan", "run"}
      /\ Pinned /\ b = "tmux" /\ FirstStep(b) = "run" => verified
  BY DEF FirstStep, Pinned
<1>2. /\ t \in TaskRecord /\ t.at = FirstStep(b)
      /\ t.cmd = cmd /\ t.todo = todo /\ ~t.ok
  BY <1>1 DEF Task, TaskRecord
<1> HIDE DEF t
<1>3. NewTask(t, b, cmd, todo)
  BY <1>1, <1>2 DEF NewTask
<1> QED
  BY <1>2, <1>3 DEF t

\* The tasks of a check or of a listing.
LEMMA AskFacts ==
  ASSUME RuntimeInv, NEW o \in AllOps, NEW cmd \in {"-V", "list"},
         UNCHANGED <<env, verified, scanned>>, Running',
         op'[o].kind \in {"check", "list"}, o \in Ops => result'[o] = None,
         \A b \in Backend : \/ tasks'[o][b] = NoTask
                            \/ tasks'[o][b] = Task(b, cmd, None, <<>>) /\ b \in ToSet(Backends)
  PROVE  /\ \A b \in Backend : Live(o, b)' => TaskOK(o, b)'
         /\ \A b \in Backend : tasks'[o][b] \in TaskRecord \cup {NoTask}
<1>1. Config' = Config /\ Backends' = Backends /\ (Pinned' <=> Pinned)
  BY ConfigFixed
<1>2. ASSUME NEW b \in Backend
      PROVE  (Live(o, b)' => TaskOK(o, b)') /\ tasks'[o][b] \in TaskRecord \cup {NoTask}
  <2>1. CASE tasks'[o][b] = NoTask
    BY <2>1 DEF Live, NoTask
  <2>2. CASE tasks'[o][b] = Task(b, cmd, None, <<>>) /\ b \in ToSet(Backends)
    <3>1. /\ <<>> \in Seq(TypedKey) /\ None \in Seq(Token) \cup {None}
          /\ cmd \in {"-V", "list", "capture", "send"}
      OBVIOUS
    <3>2. PICK t \in TaskRecord : t = Task(b, cmd, None, <<>>) /\ NewTask(t, b, cmd, <<>>)
      BY <3>1, TaskFacts
    <3>3. tasks'[o][b] = t
      BY <2>2, <3>2
    <3>4. Pinned /\ b = "tmux" => PinOK(tasks[o][b])'
      BY <3>2, <3>3 DEF PinOK, NewTask
    <3> QED
      BY <1>1, <2>2, <3>2, <3>3, <3>4 DEF TaskOK, NewTask
  <2> QED
    BY <2>1, <2>2
<1> QED
  BY <1>2

LEMMA ListPanesStep ==
  ASSUME RuntimeInv, NEW o \in Ops, ListPanes(o)
  PROVE  RuntimeInv'
<1>0. o \in AllOps /\ TypeOK /\ OpInv(o)
  BY DEF AllOps, RuntimeInv
<1>1. PICK cmd \in {"-V", "list"} : cmd = IF Direct THEN "list" ELSE "-V"
  OBVIOUS
<1>2. PICK k \in {"check", "list"} : k = IF Direct THEN "list" ELSE "check"
  OBVIOUS
<1>3. /\ op' = [op EXCEPT ![o] = [kind |-> k]]
      /\ tasks' = [tasks EXCEPT ![o] = StartTasks(cmd)]
  BY <1>1, <1>2 DEF ListPanes
<1>4. op' \in [AllOps -> OpRecord] /\ op'[o].kind = k
  <2>1. [kind |-> k] \in OpRecord /\ [kind |-> k].kind = k
    BY DEF OpRecord
  <2> QED
    BY <1>0, <1>3, <2>1 DEF TypeOK, AllOps
<1>5. tasks'[o] = StartTasks(cmd) /\ OneOpChanges(o)
  BY <1>0, <1>3 DEF TypeOK, AllOps, OneOpChanges, ListPanes
<1>6. result[o] = None /\ typed[o] = <<>> /\ op[o].kind = "none"
  BY <1>0 DEF OpInv, ListPanes, NoOp
<1>7. /\ \A b \in Backend : Live(o, b)' => TaskOK(o, b)'
      /\ \A b \in Backend : tasks'[o][b] \in TaskRecord \cup {NoTask}
  <2>1. \A b \in Backend : \/ tasks'[o][b] = NoTask
                           \/ tasks'[o][b] = Task(b, cmd, None, <<>>) /\ b \in ToSet(Backends)
    BY <1>5 DEF StartTasks
  <2>2. UNCHANGED <<env, verified, scanned>> /\ Running' /\ result' = result
    BY DEF ListPanes, Listening, Running
  <2>3. op'[o].kind \in {"check", "list"} /\ (o \in Ops => result'[o] = None)
    BY <1>4, <1>6, <2>2
  <2> QED
    BY <1>0, <2>1, <2>2, <2>3, AskFacts
<1>8. tasks' \in [AllOps -> [Backend -> TaskRecord \cup {NoTask}]]
  <2>1. DOMAIN StartTasks(cmd) = Backend /\ StartTasks(cmd) = [b \in Backend |-> StartTasks(cmd)[b]]
    BY DEF StartTasks
  <2>2. StartTasks(cmd) \in [Backend -> TaskRecord \cup {NoTask}]
    BY <1>5, <1>7, <2>1
  <2> QED
    BY <1>0, <1>3, <2>2 DEF TypeOK, AllOps
<1>9. result' = result /\ typed' = typed
  BY DEF ListPanes
<1>10. OpInv(o)'
  BY <1>4, <1>6, <1>7, <1>9 DEF OpInv, InOrder, RowsOK
<1>11. result' \in [Ops -> {None} \cup [ok : BOOLEAN, rows : SUBSET Row]]
  BY <1>0, <1>9 DEF TypeOK
<1> QED
  BY <1>0, <1>4, <1>5, <1>8, <1>10, <1>11, OpStep


LEMMA ListReachableStep ==
  ASSUME RuntimeInv, NEW o \in Ops, ListReachable(o)
  PROVE  RuntimeInv'
<1> DEFINE ts == [b \in Backend |-> IF b \in ToSet(Backends) /\ tasks[o][b].ok
                                     THEN Task(b, "list", None, <<>>) ELSE NoTask]
<1>0. o \in AllOps /\ TypeOK /\ OpInv(o)
  BY DEF AllOps, RuntimeInv
<1>1. op' = [op EXCEPT ![o] = [kind |-> "list"]] /\ tasks' = [tasks EXCEPT ![o] = ts]
  BY DEF ListReachable
<1>2. op' \in [AllOps -> OpRecord] /\ op'[o].kind = "list"
  <2>1. [kind |-> "list"] \in OpRecord /\ [kind |-> "list"].kind = "list"
    BY DEF OpRecord
  <2> QED
    BY <1>0, <1>1, <2>1 DEF TypeOK, AllOps
<1>3. tasks'[o] = ts /\ OneOpChanges(o)
  BY <1>0, <1>1 DEF TypeOK, AllOps, OneOpChanges, ListReachable
<1>4. result[o] = None
  BY <1>0 DEF OpInv, ListReachable
<1>5. /\ \A b \in Backend : Live(o, b)' => TaskOK(o, b)'
      /\ \A b \in Backend : tasks'[o][b] \in TaskRecord \cup {NoTask}
  <2>1. \A b \in Backend : \/ tasks'[o][b] = NoTask
                           \/ tasks'[o][b] = Task(b, "list", None, <<>>) /\ b \in ToSet(Backends)
    BY <1>3
  <2>2. UNCHANGED <<env, verified, scanned>> /\ Running' /\ result' = result
    BY DEF ListReachable, Running
  <2>3. op'[o].kind \in {"check", "list"} /\ (o \in Ops => result'[o] = None)
    BY <1>2, <1>4, <2>2
  <2> QED
    BY <1>0, <2>1, <2>2, <2>3, AskFacts
<1>6. tasks' \in [AllOps -> [Backend -> TaskRecord \cup {NoTask}]]
  <2>1. ts = [b \in Backend |-> ts[b]]
    OBVIOUS
  <2>2. ts \in [Backend -> TaskRecord \cup {NoTask}]
    <3> HIDE DEF ts
    <3> QED
      BY <1>3, <1>5, <2>1
  <2> HIDE DEF ts
  <2> QED
    BY <1>0, <1>1, <2>2 DEF TypeOK, AllOps
<1>7. result' = result /\ typed' = typed
  BY DEF ListReachable
<1>8. OpInv(o)'
  BY <1>2, <1>4, <1>5, <1>7 DEF OpInv, InOrder, RowsOK
<1>9. result' \in [Ops -> {None} \cup [ok : BOOLEAN, rows : SUBSET Row]]
  BY <1>0, <1>7 DEF TypeOK
<1> QED
  BY <1>0, <1>2, <1>3, <1>6, <1>8, <1>9, OpStep

\* An operation that gets its result.
LEMMA SettleFacts ==
  ASSUME RuntimeInv, NEW o \in Ops, NEW q \in [ok : BOOLEAN, rows : SUBSET Row],
         tasks' = [tasks EXCEPT ![o] = NoTasks], result' = [result EXCEPT ![o] = q],
         UNCHANGED <<env, phase, exitCode, status, hostKey, changes, verified, op, typed, scanned>>,
         op[o].kind \in {"list", "capture", "send"}, phase \in {"listening", "closing"},
         \A r \in q.rows :
           /\ r.backend \in ToSet(Backends)
           /\ r.id = IF shouldNamespacePaneIds THEN <<r.backend, Delimiter>> \o r.raw ELSE r.raw,
         op[o].kind = "send" /\ typed[o] # <<>> /\ q.ok =>
           KeysOf(typed[o]) = SendKeys(typed[o][1].backend, op[o].text)
  PROVE  RuntimeInv'
<1>0. o \in AllOps /\ TypeOK /\ OpInv(o) /\ PhaseInv
  BY DEF AllOps, RuntimeInv
<1>1. /\ Config' = Config /\ Backends' = Backends
      /\ (shouldNamespacePaneIds' <=> shouldNamespacePaneIds)
      /\ (LoadThrows(Config)' <=> LoadThrows(Config))
  BY ConfigFixed
<1>2. /\ tasks' \in [AllOps -> [Backend -> TaskRecord \cup {NoTask}]]
      /\ tasks'[o] = NoTasks /\ \A d \in AllOps \ {o} : tasks'[d] = tasks[d]
  <2>1. NoTasks \in [Backend -> TaskRecord \cup {NoTask}]
    BY DEF NoTasks
  <2> QED
    BY <1>0, <2>1 DEF TypeOK, AllOps
<1>3. /\ result' \in [Ops -> {None} \cup [ok : BOOLEAN, rows : SUBSET Row]]
      /\ result'[o] = q /\ \A d \in Ops \ {o} : result'[d] = result[d]
  BY <1>0 DEF TypeOK
<1>4. op' \in [AllOps -> OpRecord] /\ OneOpChanges(o)
  BY <1>0, <1>2, <1>3 DEF TypeOK, AllOps, OneOpChanges
<1>5. \A b \in Backend : ~Live(o, b)'
  BY <1>2 DEF Live, NoTasks, NoTask
<1>6. RowsOK(o)'
  <2>1. ~LoadThrows(Config)
    BY <1>0 DEF PhaseInv
  <2> QED
    BY <1>1, <1>3, <2>1 DEF RowsOK
<1>7. InOrder(o)'
  <2>1. InOrder(o)
    BY <1>0 DEF OpInv
  <2> QED
    BY <1>3, <2>1 DEF InOrder
<1>8. OpInv(o)'
  BY <1>5, <1>6, <1>7 DEF OpInv
<1> QED
  BY <1>0, <1>2, <1>3, <1>4, <1>8, OpStep

LEMMA SettleListStep ==
  ASSUME RuntimeInv, NEW o \in Ops, SettleList(o)
  PROVE  RuntimeInv'
<1>0. o \in AllOps /\ TypeOK /\ OpInv(o)
  BY DEF AllOps, RuntimeInv
<1> DEFINE listed == {x \in Backend : tasks[o][x].at = "done"}
           all == UNION {{RowOf(b, raw) : raw \in tasks[o][b].rows} : b \in listed}
<1>1. PICK q : /\ result' = [result EXCEPT ![o] = q]
               /\ q \in {Outcome(FALSE, {}), Outcome(TRUE, all)}
  BY DEF SettleList
<1>2. ASSUME NEW r \in all
      PROVE  /\ r \in Row /\ r.backend \in ToSet(Backends)
             /\ r.id = IF shouldNamespacePaneIds THEN <<r.backend, Delimiter>> \o r.raw ELSE r.raw
  <2>0. PICK b \in Backend :
          tasks[o][b].at = "done" /\ \E raw \in tasks[o][b].rows : r = RowOf(b, raw)
    OBVIOUS
  <2>1. PICK raw \in tasks[o][b].rows : tasks[o][b].at = "done" /\ r = RowOf(b, raw)
    BY <2>0
  <2>2. Live(o, b)
    BY <2>1 DEF Live
  <2>3. b \in ToSet(Backends) /\ tasks[o][b] \in TaskRecord
    BY <1>0, <2>2 DEF OpInv, TaskOK, TypeOK, AllOps, Live, NoTask
  <2>4. raw \in RawId
    BY <2>1, <2>3 DEF TaskRecord
  <2>5. /\ r.backend = b /\ r.raw = raw
        /\ r.id = IF shouldNamespacePaneIds THEN <<b, Delimiter>> \o raw ELSE raw
        /\ r = [id |-> r.id, backend |-> b, raw |-> raw]
    BY <2>1 DEF RowOf, buildNamespacedPaneId
  <2>6. r.id \in Seq(Token)
    <3>1. raw \in Seq(Token) /\ <<b, Delimiter>> \in Seq(Token)
      BY <2>4, RuntimeAssumption DEF RawId
    <3>2. <<b, Delimiter>> \o raw \in Seq(Token)
      BY <3>1, ConcatProperties
    <3> QED
      BY <2>5, <3>1, <3>2
  <2>7. [id |-> r.id, backend |-> b, raw |-> raw] \in Row
    BY <2>4, <2>6 DEF Row
  <2> QED
    BY <2>3, <2>5, <2>7
<1> HIDE DEF all
<1>3. /\ q \in [ok : BOOLEAN, rows : SUBSET Row] /\ q.rows \subseteq all
  <2>1. all \subseteq Row
    BY <1>2
  <2>2. CASE q = Outcome(FALSE, {})
    BY <2>2 DEF Outcome
  <2>3. CASE q = Outcome(TRUE, all)
    BY <2>1, <2>3 DEF Outcome
  <2> QED
    BY <1>1, <2>2, <2>3
<1>4. \A r \in q.rows :
        /\ r.backend \in ToSet(Backends)
        /\ r.id = IF shouldNamespacePaneIds THEN <<r.backend, Delimiter>> \o r.raw ELSE r.raw
  BY <1>2, <1>3
<1>5. /\ tasks' = [tasks EXCEPT ![o] = NoTasks] /\ phase \in {"listening", "closing"}
      /\ UNCHANGED <<env, phase, exitCode, status, hostKey, changes, verified, op, typed, scanned>>
  BY DEF SettleList
<1>6. op[o].kind = "list"
  BY DEF SettleList
<1> QED
  BY <1>1, <1>3, <1>4, <1>5, <1>6, SettleFacts

LEMMA SettleStep ==
  ASSUME RuntimeInv, NEW o \in Ops, Settle(o)
  PROVE  RuntimeInv'
<1>0. o \in AllOps /\ TypeOK /\ OpInv(o)
  BY DEF AllOps, RuntimeInv
<1>1. PICK b \in Backend :
        /\ phase \in {"listening", "closing"}
        /\ op[o].kind \in {"capture", "send"} /\ tasks[o][b].at = "done"
        /\ result' = [result EXCEPT ![o] = Outcome(tasks[o][b].ok, {})]
        /\ tasks' = [tasks EXCEPT ![o] = NoTasks]
        /\ UNCHANGED <<env, phase, exitCode, status, hostKey, changes, verified, op, typed, scanned>>
  BY DEF Settle
<1>2. Live(o, b) /\ TaskOK(o, b) /\ tasks[o][b] \in TaskRecord
  BY <1>0, <1>1 DEF Live, OpInv, TypeOK, AllOps, NoTask
<1>3. PICK q \in [ok : BOOLEAN, rows : SUBSET Row] :
        q = Outcome(tasks[o][b].ok, {}) /\ q.ok = tasks[o][b].ok /\ q.rows = {}
  <2>1. tasks[o][b].ok \in BOOLEAN
    BY <1>2 DEF TaskRecord
  <2>2. [ok |-> tasks[o][b].ok, rows |-> {}] \in [ok : BOOLEAN, rows : SUBSET Row]
    BY <2>1
  <2> QED
    BY <2>2 DEF Outcome
<1>4. op[o].kind = "send" /\ typed[o] # <<>> /\ q.ok =>
        KeysOf(typed[o]) = SendKeys(typed[o][1].backend, op[o].text)
  <2> SUFFICES ASSUME op[o].kind = "send", typed[o] # <<>>, q.ok
               PROVE  KeysOf(typed[o]) = SendKeys(typed[o][1].backend, op[o].text)
    OBVIOUS
  <2>1. SendOK(o, b)
    BY <1>2 DEF TaskOK
  <2>2. 1 \in 1..Len(typed[o])
    BY <1>0 DEF TypeOK
  <2>3. typed[o][1].backend = b
    BY <2>1, <2>2 DEF SendOK
  <2> QED
    BY <1>1, <1>3, <2>1, <2>3 DEF SendOK
<1>5. result' = [result EXCEPT ![o] = q] /\ \A r \in q.rows : FALSE
  BY <1>1, <1>3
<1> QED
  BY <1>1, <1>4, <1>5, SettleFacts


-----------------------------------------------------------------------------
(* Routed operations *)

\* What a pane id is routed to.
Target(id) == IF Direct THEN [backend |-> "tmux", raw |-> id] ELSE resolvePaneTarget(id)

LEMMA TargetFacts ==
  ASSUME Backends \in Seq(Backend), Backends # <<>>, NEW id \in Seq(Token), Target(id) # Reject
  PROVE  \E b \in Backend, raw \in Seq(Token) :
           Target(id) = [backend |-> b, raw |-> raw] /\ b \in ToSet(Backends)
<1>0. \A b \in ToSet(Backends) : b \in Backend
  BY DEF ToSet
<1>1. CASE Direct
  <2>1. "tmux" \in ToSet(Backends) /\ "tmux" \in Backend
    BY <1>1 DEF Direct, isTmuxOnly, ToSet, Backend
  <2> QED
    BY <1>1, <2>1 DEF Target
<1>2. CASE ~Direct /\ ~shouldNamespacePaneIds
  <2>1. Backends[1] \in ToSet(Backends)
    BY DEF ToSet
  <2>2. Target(id) = [backend |-> Backends[1], raw |-> id]
    BY <1>2, Zenon DEF Target, resolvePaneTarget
  <2> QED
    BY <1>0, <2>1, <2>2
<1>3. CASE ~Direct /\ shouldNamespacePaneIds
  <2> DEFINE I == {j \in 1..Len(id) : id[j] = Delimiter}
             i == SelectInSeq(id, LAMBDA t : t = Delimiter)
  <2>1. i = IF I # {} THEN Min(I) ELSE 0
    BY DEF SelectInSeq
  <2>2. i \in Nat
    <3>1. I \subseteq Nat
      OBVIOUS
    <3>2. ASSUME I # {} PROVE Min(I) \in I
      <4> HIDE DEF I
      <4>1. PICK x \in I : \A y \in I : x =< y
        BY <3>1, <3>2, NatLeast
      <4> QED
        BY <4>1 DEF Min
    <3> HIDE DEF I, i
    <3> QED
      BY <2>1, <3>1, <3>2
  <2>3. Target(id) = IF i # 2 \/ i = Len(id) \/ Head(id) \notin ToSet(Backends) THEN Reject
                     ELSE [backend |-> Head(id), raw |-> SubSeq(id, i + 1, Len(id))]
    BY <1>3, Zenon DEF Target, resolvePaneTarget
  <2> HIDE DEF i
  <2>4. /\ Head(id) \in ToSet(Backends)
        /\ Target(id) = [backend |-> Head(id), raw |-> SubSeq(id, i + 1, Len(id))]
    BY <2>3, Zenon
  <2>5. SubSeq(id, i + 1, Len(id)) \in Seq(Token)
    <3>1. i + 1 \in 1..Len(id) + 1 \/ i + 1 > Len(id)
      BY <2>2
    <3>2. \A k \in i + 1..Len(id) : id[k] \in Token
      BY <2>2
    <3> QED
      BY <2>2, <3>2, SubSeqProperties
  <2> QED
    BY <1>0, <2>4, <2>5
<1> QED
  BY <1>1, <1>2, <1>3

LEMMA RoutedStep ==
  ASSUME RuntimeInv, NEW o \in Ops, NEW kind \in {"capture", "send"}, NEW id \in PaneId,
         NEW text \in Text \cup {<<>>}, Routed(o, kind, id, text)
  PROVE  RuntimeInv'
<1>0. o \in AllOps /\ TypeOK /\ OpInv(o) /\ PhaseInv
  BY DEF AllOps, RuntimeInv
<1>1. /\ Listening /\ op[o] = NoOp /\ op' = [op EXCEPT ![o] = [kind |-> kind, id |-> id, text |-> text]]
      /\ UNCHANGED <<env, phase, exitCode, status, hostKey, changes, verified, typed, scanned>>
  BY DEF Routed
<1>2. /\ Config' = Config /\ Backends' = Backends /\ (Pinned' <=> Pinned)
      /\ (LoadThrows(Config)' <=> LoadThrows(Config)) /\ ~LoadThrows(Config)
  BY <1>0, <1>1, ConfigFixed DEF PhaseInv, Listening
<1>3. Backends \in Seq(Backend) /\ Backends # <<>>
  BY <1>0, <1>2, ConfigFacts DEF Backends, Config, TypeOK
<1>4. id \in Seq(Token) /\ text \in Seq(Line)
  <2>1. PaneId \subseteq Seq(Token) /\ Text \subseteq Seq(Line)
    BY RuntimeAssumption
  <2>2. <<>> \in Seq(Line)
    OBVIOUS
  <2> QED
    BY <2>1, <2>2
<1>5. op[o].kind = "none" /\ result[o] = None /\ typed[o] = <<>> /\ \A b \in Backend : ~Live(o, b)
  BY <1>0, <1>1 DEF OpInv, NoOp, TaskOK
<1>6. /\ op' \in [AllOps -> OpRecord] /\ op'[o].kind = kind /\ op'[o].text = text
      /\ \A d \in AllOps \ {o} : op'[d] = op[d]
  <2> DEFINE p == [kind |-> kind, id |-> id, text |-> text]
  <2>1. p \in OpRecord /\ p.kind = kind /\ p.text = text
    BY DEF OpRecord
  <2> HIDE DEF p
  <2>2. op' = [op EXCEPT ![o] = p]
    BY <1>1 DEF p
  <2> QED
    BY <1>0, <2>1, <2>2 DEF TypeOK, AllOps
<1> DEFINE todo == IF Target(id) = Reject \/ kind = "capture" THEN <<>>
                   ELSE SendKeys(Target(id).backend, text)
<1>7. IF Target(id) = Reject THEN result' = [result EXCEPT ![o] = Outcome(FALSE, {})] /\ UNCHANGED tasks
      ELSE IF kind = "send" /\ todo = <<>>
           THEN result' = [result EXCEPT ![o] = Outcome(TRUE, {})] /\ UNCHANGED tasks
      ELSE /\ tasks' = [tasks EXCEPT ![o][Target(id).backend] =
                          Task(Target(id).backend, kind, Target(id).raw, todo)]
           /\ UNCHANGED result
  BY Zenon DEF Routed, Target
<1>8. ASSUME NEW ok \in BOOLEAN, result' = [result EXCEPT ![o] = Outcome(ok, {})], UNCHANGED tasks
      PROVE  RuntimeInv'
  <2>1. PICK q \in [ok : BOOLEAN, rows : SUBSET Row] : q = Outcome(ok, {}) /\ q.rows = {}
    <3>1. [ok |-> ok, rows |-> {}] \in [ok : BOOLEAN, rows : SUBSET Row]
      OBVIOUS
    <3> QED
      BY <3>1 DEF Outcome
  <2>2. /\ result' \in [Ops -> {None} \cup [ok : BOOLEAN, rows : SUBSET Row]]
        /\ result'[o] = q /\ \A d \in Ops \ {o} : result'[d] = result[d]
    BY <1>0, <1>8, <2>1 DEF TypeOK
  <2>3. tasks' \in [AllOps -> [Backend -> TaskRecord \cup {NoTask}]] /\ OneOpChanges(o)
    BY <1>0, <1>1, <1>6, <1>8, <2>2 DEF TypeOK, AllOps, OneOpChanges
  <2>4. \A b \in Backend : ~Live(o, b)'
    BY <1>5, <1>8 DEF Live
  <2>5. InOrder(o)' /\ RowsOK(o)'
    BY <1>1, <1>2, <1>5, <2>1, <2>2 DEF InOrder, RowsOK
  <2>6. OpInv(o)'
    BY <1>6, <2>4, <2>5 DEF OpInv
  <2> QED
    BY <1>0, <1>6, <2>2, <2>3, <2>6, OpStep
<1>9. CASE Target(id) # Reject /\ ~(kind = "send" /\ todo = <<>>)
  <2>1. PICK b \in Backend, raw \in Seq(Token) :
          Target(id) = [backend |-> b, raw |-> raw] /\ b \in ToSet(Backends)
    BY <1>3, <1>4, <1>9, TargetFacts
  <2>2. Target(id).backend = b /\ Target(id).raw = raw
    BY <2>1
  <2>3. PICK keys \in Seq(TypedKey) :
          /\ keys = todo
          /\ kind = "send" => keys = SendKeys(b, text) /\ keys # <<>>
    <3>1. todo = IF kind = "capture" THEN <<>> ELSE SendKeys(b, text)
      BY <1>9, <2>2
    <3>2. SendKeys(b, text) \in Seq(TypedKey)
      BY <1>4, SendKeysFacts
    <3>3. <<>> \in Seq(TypedKey)
      OBVIOUS
    <3>4. todo \in Seq(TypedKey)
      BY <3>1, <3>2, <3>3
    <3> QED
      BY <1>9, <3>1, <3>4
  <2>4. PICK t \in TaskRecord : t = Task(b, kind, raw, keys) /\ NewTask(t, b, kind, keys)
    BY TaskFacts
  <2>5. tasks' = [tasks EXCEPT ![o][b] = t] /\ result' = result
    BY <1>7, <1>9, <2>2, <2>3, <2>4
  <2>6. /\ tasks' \in [AllOps -> [Backend -> TaskRecord \cup {NoTask}]]
        /\ tasks'[o][b] = t /\ (\A c \in Backend \ {b} : tasks'[o][c] = tasks[o][c])
        /\ \A d \in AllOps \ {o} : tasks'[d] = tasks[d]
    BY <1>0, <2>5 DEF TypeOK, AllOps
  <2>7. OneOpChanges(o) /\ result' \in [Ops -> {None} \cup [ok : BOOLEAN, rows : SUBSET Row]]
    BY <1>0, <1>1, <1>6, <2>5, <2>6 DEF TypeOK, OneOpChanges
  <2>8. \A c \in Backend : Live(o, c)' => c = b
    BY <1>5, <2>6 DEF Live
  <2>9. Pinned /\ b = "tmux" => PinOK(tasks[o][b])'
    BY <1>1, <2>4, <2>6 DEF PinOK, NewTask
  <2>10. kind = "send" => SendOK(o, b)'
    <3>1. typed'[o] = <<>> /\ KeysOf(<<>>) = <<>> /\ Len(<<>>) = 0
      BY <1>1, <1>5 DEF KeysOf
    <3>2. KeysOf(typed'[o]) \o keys = keys
      BY <3>1, ConcatEmptySeq
    <3> QED
      BY <1>6, <2>3, <2>4, <2>6, <3>1, <3>2 DEF SendOK, NewTask
  <2>11. Running'
    BY <1>1 DEF Listening, Running
  <2>12. TaskOK(o, b)'
    BY <1>2, <1>5, <1>6, <2>1, <2>4, <2>5, <2>6, <2>8, <2>9, <2>10, <2>11 DEF TaskOK, NewTask
  <2>13. InOrder(o)' /\ RowsOK(o)'
    BY <1>1, <1>5, <2>5 DEF InOrder, RowsOK
  <2>14. OpInv(o)'
    BY <1>6, <2>8, <2>12, <2>13 DEF OpInv
  <2> QED
    BY <1>0, <1>6, <2>6, <2>7, <2>14, OpStep
<1> QED
  BY <1>7, <1>8, <1>9


-----------------------------------------------------------------------------
(* main and shutdown *)

\* The process exits, and its children with it.
LEMMA ExitStep ==
  ASSUME RuntimeInv, NEW code \in {0, 1}, Exit(code),
         UNCHANGED <<env, status, hostKey, changes, verified, op, result, typed, scanned>>
  PROVE  RuntimeInv'
<1>0. TypeOK /\ ScanInv
  BY DEF RuntimeInv
<1>1. /\ Config' = Config /\ Backends' = Backends /\ (Pinned' <=> Pinned)
      /\ (shouldNamespacePaneIds' <=> shouldNamespacePaneIds)
      /\ (LoadThrows(Config)' <=> LoadThrows(Config))
  BY ConfigFixed
<1>2. phase' = "exited" /\ exitCode' = code /\ tasks' = [o \in AllOps |-> NoTasks]
  BY <1>0 DEF Exit, TypeOK, AllOps
<1>3. TypeOK'
  <2>1. NoTasks \in [Backend -> TaskRecord \cup {NoTask}]
    BY DEF NoTasks
  <2>2. tasks' \in [Ops \cup {Boot} -> [Backend -> TaskRecord \cup {NoTask}]]
    BY <1>2, <2>1 DEF AllOps
  <2> QED
    BY <1>0, <1>2, <2>2 DEF TypeOK
<1>4. PhaseInv' /\ ScanInv'
  BY <1>0, <1>1, <1>2 DEF PhaseInv, ScanInv
<1>5. ASSUME NEW o \in AllOps PROVE OpInv(o)'
  <2>1. \A b \in Backend : ~Live(o, b)'
    BY <1>2 DEF Live, NoTasks, NoTask
  <2>2. OpInv(o)
    BY DEF RuntimeInv
  <2>3. o \in Ops => InOrder(o)' /\ RowsOK(o)'
    BY <1>1, <2>2 DEF OpInv, InOrder, RowsOK
  <2> QED
    BY <2>1, <2>2, <2>3 DEF OpInv
<1> QED
  BY <1>3, <1>4, <1>5 DEF RuntimeInv

\* The startup probe and the second look: the tasks of Boot are new.
LEMMA BootStep ==
  ASSUME RuntimeInv, NEW k \in {"probe", "recheck"}, phase' = k,
         tasks' = [tasks EXCEPT ![Boot] = StartTasks("-V")],
         op' = [op EXCEPT ![Boot] = [kind |-> "check"]],
         UNCHANGED <<env, exitCode, status, hostKey, changes, verified, result, typed, scanned>>,
         ~LoadThrows(Config) /\ validateStartupConfig(Config, env.files),
         phase \in {"load", "preflight", "probe"}
  PROVE  RuntimeInv'
<1>0. TypeOK /\ ScanInv /\ Boot \in AllOps /\ Boot \notin Ops
  BY RuntimeAssumption DEF RuntimeInv, AllOps
<1>1. /\ Config' = Config /\ Backends' = Backends /\ (Pinned' <=> Pinned)
      /\ (LoadThrows(Config)' <=> LoadThrows(Config))
  BY ConfigFixed
<1>2. /\ op' \in [AllOps -> OpRecord] /\ op'[Boot].kind = "check"
      /\ \A d \in AllOps \ {Boot} : op'[d] = op[d]
  <2>1. [kind |-> "check"] \in OpRecord /\ [kind |-> "check"].kind = "check"
    BY DEF OpRecord
  <2> QED
    BY <1>0, <2>1 DEF TypeOK, AllOps
<1>3. tasks'[Boot] = StartTasks("-V") /\ \A d \in AllOps \ {Boot} : tasks'[d] = tasks[d]
  BY <1>0 DEF TypeOK, AllOps
<1>4. Running'
  BY DEF Running
<1>5. /\ \A b \in Backend : Live(Boot, b)' => TaskOK(Boot, b)'
      /\ \A b \in Backend : tasks'[Boot][b] \in TaskRecord \cup {NoTask}
  <2>1. \A b \in Backend : \/ tasks'[Boot][b] = NoTask
                           \/ tasks'[Boot][b] = Task(b, "-V", None, <<>>) /\ b \in ToSet(Backends)
    BY <1>3 DEF StartTasks
  <2>2. UNCHANGED <<env, verified, scanned>>
    OBVIOUS
  <2> QED
    BY <1>0, <1>2, <1>4, <2>1, <2>2, AskFacts
<1>6. tasks' \in [AllOps -> [Backend -> TaskRecord \cup {NoTask}]]
  <2>1. StartTasks("-V") = [b \in Backend |-> StartTasks("-V")[b]]
    BY DEF StartTasks
  <2>2. StartTasks("-V") \in [Backend -> TaskRecord \cup {NoTask}]
    BY <1>3, <1>5, <2>1
  <2> QED
    BY <1>0, <2>2 DEF TypeOK, AllOps
<1>7. TypeOK'
  BY <1>0, <1>2, <1>6 DEF TypeOK, AllOps
<1>8. PhaseInv'
  BY <1>1 DEF PhaseInv
<1>9. ScanInv'
  BY <1>0, <1>1 DEF ScanInv
<1>10. OpInv(Boot)'
  BY <1>0, <1>2, <1>5 DEF OpInv
<1>11. ASSUME NEW d \in AllOps \ {Boot} PROVE OpInv(d)'
  <2>1. /\ OpInv(d) /\ env' = env /\ tasks'[d] = tasks[d] /\ op'[d] = op[d]
        /\ (d \in Ops => result'[d] = result[d] /\ typed'[d] = typed[d])
    BY <1>2, <1>3 DEF RuntimeInv
  <2>2. (verified => verified') /\ scanned \subseteq scanned'
    OBVIOUS
  <2> QED
    BY <1>4, <2>1, <2>2, Untouched
<1> QED
  BY <1>7, <1>8, <1>9, <1>10, <1>11 DEF RuntimeInv

LEMMA LoadStep ==
  ASSUME RuntimeInv, Load
  PROVE  RuntimeInv'
<1>0. TypeOK /\ ScanInv
  BY DEF RuntimeInv
<1>1. CASE LoadThrows(Config) \/ ~validateStartupConfig(Config, env.files)
  <2>1. /\ Exit(1)
        /\ UNCHANGED <<env, status, hostKey, changes, verified, op, result, typed, scanned>>
    BY <1>1 DEF Load
  <2> QED
    BY <2>1, ExitStep
<1>2. CASE /\ ~LoadThrows(Config) /\ validateStartupConfig(Config, env.files) /\ Over = "ssh"
  <2>1. /\ phase' = "preflight" /\ phase = "load"
        /\ UNCHANGED <<exitCode, tasks, op, env, status, hostKey, changes, verified, result, typed,
                       scanned>>
    BY <1>2 DEF Load
  <2>2. /\ Config' = Config /\ (Pinned' <=> Pinned) /\ (LoadThrows(Config)' <=> LoadThrows(Config))
    BY <2>1, ConfigFixed
  <2>3. TypeOK'
    BY <1>0, <2>1 DEF TypeOK
  <2>4. PhaseInv'
    BY <1>2, <2>1, <2>2 DEF PhaseInv
  <2>5. ScanInv'
    BY <1>0, <2>1, <2>2 DEF ScanInv
  <2>6. ~Running
    BY <2>1 DEF Running
  <2>7. ASSUME NEW d \in AllOps PROVE OpInv(d)'
    <3>1. /\ OpInv(d) /\ env' = env /\ tasks'[d] = tasks[d] /\ op'[d] = op[d]
          /\ (d \in Ops => result'[d] = result[d] /\ typed'[d] = typed[d])
      BY <2>1 DEF RuntimeInv
    <3>2. (verified => verified') /\ scanned \subseteq scanned' /\ (Running => Running')
      BY <2>1, <2>6
    <3> QED
      BY <3>1, <3>2, Untouched
  <2> QED
    BY <2>3, <2>4, <2>5, <2>7 DEF RuntimeInv
<1>3. CASE /\ ~LoadThrows(Config) /\ validateStartupConfig(Config, env.files) /\ Over # "ssh"
  <2>1. /\ phase' = "probe" /\ phase \in {"load", "preflight", "probe"}
        /\ tasks' = [tasks EXCEPT ![Boot] = StartTasks("-V")]
        /\ op' = [op EXCEPT ![Boot] = [kind |-> "check"]]
        /\ UNCHANGED <<env, exitCode, status, hostKey, changes, verified, result, typed, scanned>>
    BY <1>3 DEF Load, ProbeBackends
  <2> QED
    BY <1>3, <2>1, BootStep
<1> QED
  BY <1>1, <1>2, <1>3

LEMMA PreflightStep ==
  ASSUME RuntimeInv, preflightSshTransport
  PROVE  RuntimeInv'
<1>1. phase = "preflight" /\ ~LoadThrows(Config) /\ validateStartupConfig(Config, env.files)
  BY DEF preflightSshTransport, RuntimeInv, PhaseInv
<1>2. CASE Exit(1) /\ UNCHANGED op
  <2>1. UNCHANGED <<env, status, hostKey, changes, verified, op, result, typed, scanned>>
    BY <1>2 DEF preflightSshTransport
  <2> QED
    BY <1>2, <2>1, ExitStep
<1>3. CASE ProbeBackends
  <2>1. /\ phase' = "probe" /\ phase \in {"load", "preflight", "probe"}
        /\ tasks' = [tasks EXCEPT ![Boot] = StartTasks("-V")]
        /\ op' = [op EXCEPT ![Boot] = [kind |-> "check"]]
        /\ UNCHANGED <<env, exitCode, status, hostKey, changes, verified, result, typed, scanned>>
    BY <1>1, <1>3 DEF preflightSshTransport, ProbeBackends
  <2> QED
    BY <1>1, <2>1, BootStep
<1> QED
  BY <1>2, <1>3 DEF preflightSshTransport


\* Whoever waited for the probe's answers has some, and they are the probe's.
LEMMA BootChecked ==
  ASSUME RuntimeInv, phase \in {"probe", "recheck"}, Checked(Boot)
  PROVE  /\ Backends \in Seq(Backend) /\ Backends # <<>>
         /\ op[Boot] = [kind |-> "check"] /\ Boot \in AllOps /\ Boot \notin Ops
         /\ ~LoadThrows(Config) /\ validateStartupConfig(Config, env.files)
         /\ \A b \in ToSet(Backends) :
              b \in Backend /\ Live(Boot, b) /\ TaskOK(Boot, b) /\ tasks[Boot][b] \in TaskRecord
<1>0. TypeOK /\ OpInv(Boot) /\ Boot \in AllOps /\ Boot \notin Ops
  BY RuntimeAssumption DEF RuntimeInv, AllOps
<1>1. ~LoadThrows(Config) /\ validateStartupConfig(Config, env.files)
  BY DEF RuntimeInv, PhaseInv
<1>2. Backends \in Seq(Backend) /\ Backends # <<>>
  BY <1>0, <1>1, ConfigFacts DEF Backends, Config, TypeOK
<1>3. ASSUME NEW b \in ToSet(Backends)
      PROVE  b \in Backend /\ Live(Boot, b) /\ TaskOK(Boot, b) /\ tasks[Boot][b] \in TaskRecord
  <2>1. b \in Backend /\ Live(Boot, b)
    BY <1>2 DEF ToSet, Checked, Live
  <2> QED
    BY <1>0, <2>1 DEF OpInv, TypeOK, AllOps, Live, NoTask
<1>4. op[Boot] = [kind |-> "check"]
  <2>1. Backends[1] \in ToSet(Backends)
    BY <1>2 DEF ToSet
  <2>2. op[Boot].kind # "none"
    BY <1>3, <2>1 DEF TaskOK
  <2>3. op[Boot].kind \notin {"capture", "send", "list"}
    BY <1>0 DEF OpInv
  <2>4. op[Boot] \in OpRecord
    BY <1>0 DEF TypeOK, AllOps
  <2>5. CASE op[Boot] \in {[kind |-> k] : k \in {"none", "check", "list"}}
    BY <2>2, <2>3, <2>5
  <2>6. CASE op[Boot] \in [kind : {"capture", "send"}, id : PaneId, text : Text \cup {<<>>}]
    BY <2>3, <2>6
  <2> QED
    BY <2>4, <2>5, <2>6 DEF OpRecord
<1> QED
  BY <1>0, <1>1, <1>2, <1>3, <1>4

LEMMA StartStep ==
  ASSUME RuntimeInv, Start
  PROVE  RuntimeInv'
<1>1. /\ phase = "probe" /\ Checked(Boot)
      /\ UNCHANGED <<env, status, hostKey, changes, verified, op, result, typed, scanned>>
  BY DEF Start
<1>2. CASE Exit(1)
  BY <1>1, <1>2, ExitStep
<1>3. CASE /\ phase' = "recheck" /\ UNCHANGED exitCode
           /\ tasks' = [tasks EXCEPT ![Boot] = StartTasks("-V")]
  <2>1. /\ op[Boot] = [kind |-> "check"]
        /\ ~LoadThrows(Config) /\ validateStartupConfig(Config, env.files)
    BY <1>1, BootChecked
  <2>2. op' = [op EXCEPT ![Boot] = [kind |-> "check"]]
    <3>1. op \in [AllOps -> OpRecord]
      BY DEF RuntimeInv, TypeOK, AllOps
    <3> QED
      BY <1>1, <2>1, <3>1
  <2>3. UNCHANGED <<env, exitCode, status, hostKey, changes, verified, result, typed, scanned>>
    BY <1>1, <1>3
  <2> QED
    BY <1>1, <1>3, <2>1, <2>2, <2>3, BootStep
<1> QED
  BY <1>2, <1>3 DEF Start

LEMMA StartServerStep ==
  ASSUME RuntimeInv, startBridgeServer
  PROVE  RuntimeInv'
<1>1. /\ phase = "recheck" /\ Checked(Boot)
      /\ UNCHANGED <<env, status, hostKey, changes, verified, op, result, typed, scanned>>
  BY DEF startBridgeServer
<1>2. CASE Exit(1)
  BY <1>1, <1>2, ExitStep
<1>3. CASE /\ \E b \in DOMAIN Signals : Signals[b]
           /\ phase' = "listening" /\ UNCHANGED exitCode
           /\ tasks' = [tasks EXCEPT ![Boot] = NoTasks]
  <2>0. TypeOK /\ ScanInv
    BY DEF RuntimeInv
  <2>1. /\ Boot \in AllOps /\ Boot \notin Ops /\ op[Boot] = [kind |-> "check"]
        /\ ~LoadThrows(Config) /\ validateStartupConfig(Config, env.files)
        /\ \A b \in ToSet(Backends) : b \in Backend /\ Live(Boot, b) /\ TaskOK(Boot, b)
    BY <1>1, BootChecked
  <2>2. /\ Config' = Config /\ (Pinned' <=> Pinned) /\ (LoadThrows(Config)' <=> LoadThrows(Config))
    BY <1>1, ConfigFixed
  <2>3. ASSUME Pinned PROVE verified
    <3>1. PICK b \in ToSet(Backends) : tasks[Boot][b].ok
      BY <1>3 DEF Signals
    <3>2. b \in Backend /\ Live(Boot, b) /\ TaskOK(Boot, b)
      BY <2>1, <3>1
    <3>3. b = "tmux"
      BY <2>1, <2>3, <3>2, PinnedIsTmux
    <3> QED
      BY <2>3, <3>1, <3>2, <3>3 DEF TaskOK, PinOK
  <2>4. /\ tasks' \in [AllOps -> [Backend -> TaskRecord \cup {NoTask}]]
        /\ tasks'[Boot] = NoTasks /\ \A d \in AllOps \ {Boot} : tasks'[d] = tasks[d]
    <3>1. NoTasks \in [Backend -> TaskRecord \cup {NoTask}]
      BY DEF NoTasks
    <3> QED
      BY <1>3, <2>0, <2>1, <3>1 DEF TypeOK, AllOps
  <2>5. TypeOK'
    BY <1>1, <1>3, <2>0, <2>4 DEF TypeOK, AllOps
  <2>6. PhaseInv'
    BY <1>1, <2>1, <2>2 DEF PhaseInv
  <2>7. ScanInv'
    BY <1>1, <2>0, <2>2, <2>3 DEF ScanInv
  <2>8. OpInv(Boot)'
    <3>1. \A b \in Backend : ~Live(Boot, b)'
      BY <2>4 DEF Live, NoTasks, NoTask
    <3>2. op'[Boot].kind = "check"
      BY <1>1, <2>1
    <3> QED
      BY <2>1, <3>1, <3>2 DEF OpInv
  <2>9. ASSUME NEW d \in AllOps \ {Boot} PROVE OpInv(d)'
    <3>1. /\ OpInv(d) /\ env' = env /\ tasks'[d] = tasks[d] /\ op'[d] = op[d]
          /\ (d \in Ops => result'[d] = result[d] /\ typed'[d] = typed[d])
      BY <1>1, <2>4 DEF RuntimeInv
    <3>2. (verified => verified') /\ scanned \subseteq scanned'
      BY <1>1
    <3>3. Running'
      BY <1>3 DEF Running
    <3> QED
      BY <3>1, <3>2, <3>3, Untouched
  <2> QED
    BY <2>5, <2>6, <2>7, <2>8, <2>9 DEF RuntimeInv
<1> QED
  BY <1>2, <1>3 DEF startBridgeServer

\* Steps that leave the tasks and the operations alone.
LEMMA QuietStep ==
  ASSUME RuntimeInv, TypeOK', UNCHANGED <<env, verified, tasks, op, result, typed, scanned>>,
         phase' = phase \/ (phase = "listening" /\ phase' = "closing")
  PROVE  RuntimeInv'
<1>0. TypeOK /\ ScanInv /\ PhaseInv
  BY DEF RuntimeInv
<1>1. /\ Config' = Config /\ (Pinned' <=> Pinned) /\ (LoadThrows(Config)' <=> LoadThrows(Config))
  BY ConfigFixed
<1>2. PhaseInv'
  BY <1>0, <1>1 DEF PhaseInv
<1>3. ScanInv'
  BY <1>0, <1>1 DEF ScanInv
<1>4. ASSUME NEW d \in AllOps PROVE OpInv(d)'
  <2>1. /\ OpInv(d) /\ env' = env /\ tasks'[d] = tasks[d] /\ op'[d] = op[d]
        /\ (d \in Ops => result'[d] = result[d] /\ typed'[d] = typed[d])
    BY DEF RuntimeInv
  <2>2. (verified => verified') /\ scanned \subseteq scanned'
    OBVIOUS
  <2>3. Running => Running'
    BY DEF Running
  <2> QED
    BY <2>1, <2>2, <2>3, Untouched
<1> QED
  BY <1>2, <1>3, <1>4 DEF RuntimeInv

LEMMA SignalStep ==
  ASSUME RuntimeInv, Signal
  PROVE  RuntimeInv'
<1>1. UNCHANGED <<env, status, hostKey, changes, verified, op, result, typed, scanned>>
  BY DEF Signal
<1>2. CASE Exit(1)
  BY <1>1, <1>2, ExitStep
<1>3. CASE Listening /\ phase' = "closing" /\ UNCHANGED <<exitCode, tasks>>
  <2>1. TypeOK'
    BY <1>1, <1>3 DEF RuntimeInv, TypeOK
  <2> QED
    BY <1>1, <1>3, <2>1, QuietStep DEF Listening
<1> QED
  BY <1>2, <1>3 DEF Signal

LEMMA ChangeStep ==
  ASSUME RuntimeInv, Change
  PROVE  RuntimeInv'
<1>0. TypeOK /\ PhaseInv
  BY DEF RuntimeInv
<1>1. /\ UNCHANGED <<env, phase, exitCode, verified, tasks, op, result, typed, scanned>>
      /\ Running /\ changes' = changes + 1
  BY DEF Change
<1>2. status' \in [Backend -> {"up", "idle", "down"}] /\ hostKey' \in {"k1", "k2"}
  <2>1. CASE hostKey' = "k2" /\ UNCHANGED status
    BY <1>0, <2>1 DEF TypeOK
  <2>2. CASE UNCHANGED hostKey /\ \E b \in ToSet(Backends) :
          status' \in {[status EXCEPT ![b] = s] : s \in {"up", "idle", "down"} \ {status[b]}}
    BY <1>0, <2>2 DEF TypeOK
  <2> QED
    BY <2>1, <2>2 DEF Change
<1>3. changes' \in Nat
  BY <1>0, <1>1 DEF TypeOK
<1>4. TypeOK'
  BY <1>0, <1>1, <1>2, <1>3, Zenon DEF TypeOK
<1> QED
  BY <1>1, <1>4, QuietStep

LEMMA RuntimeNext ==
  RuntimeInv /\ [Next]_vars => RuntimeInv'
<1> SUFFICES ASSUME RuntimeInv, [Next]_vars PROVE RuntimeInv'
  OBVIOUS
<1>0. DOMAIN tasks = AllOps
  BY DEF RuntimeInv, TypeOK, AllOps
<1>1. CASE Load
  BY <1>1, LoadStep
<1>2. CASE preflightSshTransport
  BY <1>2, PreflightStep
<1>3. CASE Start
  BY <1>3, StartStep
<1>4. CASE startBridgeServer
  BY <1>4, StartServerStep
<1>5. CASE Closed
  <2>1. /\ Exit(0)
        /\ UNCHANGED <<env, status, hostKey, changes, verified, op, result, typed, scanned>>
    BY <1>5 DEF Closed
  <2> QED
    BY <2>1, ExitStep
<1>6. ASSUME NEW o \in AllOps, NEW b \in Backend,
             KeyScan(o, b) \/ KeyGen(o, b) \/ RunQuery(o, b) \/ RunSend(o, b)
      PROVE  RuntimeInv'
  BY <1>6, KeyScanStep, KeyGenStep, RunQueryStep, RunSendStep
<1>7. ASSUME NEW o \in Ops, ListReachable(o) \/ SettleList(o) \/ Settle(o) \/ ListPanes(o)
      PROVE  RuntimeInv'
  BY <1>7, ListReachableStep, SettleListStep, SettleStep, ListPanesStep
<1>8. ASSUME NEW o \in Ops, CapturePane(o) PROVE RuntimeInv'
  <2>1. PICK id \in PaneId : Routed(o, "capture", id, <<>>)
    BY <1>8 DEF CapturePane
  <2> QED
    BY <2>1, RoutedStep
<1>9. ASSUME NEW o \in Ops, SendInput(o) PROVE RuntimeInv'
  <2>1. PICK id \in PaneId, text \in Text : Routed(o, "send", id, text)
    BY <1>9 DEF SendInput
  <2> QED
    BY <2>1, RoutedStep
<1>10. CASE Signal
  BY <1>10, SignalStep
<1>11. CASE Change
  BY <1>11, ChangeStep
<1>12. CASE UNCHANGED vars
  <2>1. UNCHANGED <<env, verified, tasks, op, result, typed, scanned>> /\ phase' = phase /\ TypeOK'
    BY <1>12 DEF vars, RuntimeInv, TypeOK
  <2> QED
    BY <2>1, QuietStep
<1> QED
  BY <1>0, <1>1, <1>2, <1>3, <1>4, <1>5, <1>6, <1>7, <1>8, <1>9, <1>10, <1>11, <1>12
     DEF Next, Progress, Stopped


-----------------------------------------------------------------------------
(* Theorems *)

\* The invariant of every behaviour of the bridge process.
THEOREM RuntimeInvariant == Spec => []RuntimeInv
<1>1. Init => RuntimeInv
  BY RuntimeInit
<1>2. RuntimeInv /\ [Next]_vars => RuntimeInv'
  BY RuntimeNext
<1> QED
  BY <1>1, <1>2, PTL DEF Spec

\* Every variable keeps to its values, whatever the calls' order and answers.
THEOREM RuntimeTypeCorrect == Spec => []TypeOK
<1>1. RuntimeInv => TypeOK
  BY DEF RuntimeInv
<1> QED
  BY <1>1, RuntimeInvariant, PTL

\* verifyExpectedHostFingerprint comes before every tmux command and before
\* the bridge listens, whatever else was scanned or failed before.
THEOREM RuntimePinnedFirst == Spec => []PinnedFirst
<1>1. RuntimeInv => PinnedFirst
  <2> SUFFICES ASSUME RuntimeInv, Pinned,
                      phase \in {"listening", "closing"} \/
                        \E o \in DOMAIN tasks : tasks[o]["tmux"].at = "run"
               PROVE  Config.fingerprint.key \in scanned
    BY DEF PinnedFirst
  <2>1. ASSUME NEW o \in DOMAIN tasks, tasks[o]["tmux"].at = "run" PROVE verified
    <3>1. o \in AllOps /\ "tmux" \in Backend /\ Live(o, "tmux")
      BY <2>1 DEF RuntimeInv, TypeOK, AllOps, Backend, Live
    <3>2. TaskOK(o, "tmux")
      BY <3>1 DEF RuntimeInv, OpInv
    <3> QED
      BY <2>1, <3>2 DEF TaskOK, PinOK
  <2>2. verified
    BY <2>1 DEF RuntimeInv, ScanInv
  <2> QED
    BY <2>2 DEF RuntimeInv, ScanInv
<1> QED
  BY <1>1, RuntimeInvariant, PTL

\* sendInput types an input's keys in order and without a gap, and reports
\* success only when it typed all of them.
THEOREM RuntimeTypedInOrder == Spec => []TypedInOrder
<1>1. RuntimeInv => TypedInOrder
  <2> SUFFICES ASSUME RuntimeInv, NEW o \in Ops PROVE InOrder(o)
    BY DEF TypedInOrder, InOrder
  <2> QED
    BY DEF RuntimeInv, OpInv, AllOps
<1> QED
  BY <1>1, RuntimeInvariant, PTL

\* resolvePaneTarget finds the backend and the raw id behind every id that
\* listPanes gives out, delimiters in raw ids included.
THEOREM RuntimeListingRoutesBack == Spec => []ListingRoutesBack
<1>1. RuntimeInv => ListingRoutesBack
  <2> SUFFICES ASSUME RuntimeInv, NEW o \in Ops, result[o] # None, NEW r \in result[o].rows
               PROVE  resolvePaneTarget(r.id) = [backend |-> r.backend, raw |-> r.raw]
    BY DEF ListingRoutesBack
  <2>1. RowsOK(o) /\ TypeOK
    BY DEF RuntimeInv, OpInv, AllOps
  <2>2. ~LoadThrows(Config)
    BY <2>1 DEF RowsOK
  <2>3. Backends \in Seq(Backend)
    BY <2>1, <2>2, ConfigFacts DEF Backends, Config, TypeOK
  <2>4. r.raw \in RawId
    BY <2>1 DEF TypeOK, Row
  <2>5. r.backend \in ToSet(Backends)
    BY <2>1 DEF RowsOK
  <2>6. r.id = RowOf(r.backend, r.raw).id
    BY <2>1 DEF RowsOK, RowOf, buildNamespacedPaneId
  <2>7. resolvePaneTarget(RowOf(r.backend, r.raw).id) = [backend |-> r.backend, raw |-> r.raw]
    BY <2>3, <2>4, <2>5, RoutesBack
  <2> QED
    BY <2>6, <2>7, Zenon
<1> QED
  BY <1>1, RuntimeInvariant, PTL


\* What StartsUp, validateStartupConfig and the startup profile amount to.
LEMMA StartsFit ==
  ASSUME RuntimeInv, Start, phase' = "recheck"
  PROVE  /\ \E b \in ToSet(Backends) : Signals[b]
         /\ "tmux" \in ToSet(Backends) => Signals["tmux"]
         /\ isLoopbackHost(Config.host) \/ Config.authToken \notin {None, Blank}
         /\ Config.auditLogPath # None =>
              env.files.auditParent = "writable" /\ env.files.auditFile \in {"missing", "writable"}
         /\ Over = "ssh" => Direct
<1>0. TypeOK
  BY DEF RuntimeInv
<1>1. phase = "probe" /\ Checked(Boot) /\ StartsUp
  BY DEF Start, Exit
<1>2. ~LoadThrows(Config) /\ validateStartupConfig(Config, env.files)
  BY <1>1, BootChecked
<1>3. DOMAIN Signals = ToSet(Backends)
  BY DEF Signals
<1>4. PICK report : /\ report = evaluateStartupProfile(Config, env.files, env.node, Signals)
                    /\ assertStartupProfilePass(report)
  BY <1>1 DEF StartsUp
<1>5. /\ DOMAIN report = {"node", "tmux", "app", "audit"}
      /\ report["tmux"] = evaluateTmuxBackendSignalPolicy(Config.runtimeBackends, Signals)
      /\ report["audit"] = evaluateAuditLogPathPolicy(Config.auditLogPath, env.files.auditParent,
                                                      env.files.auditFile)
  BY <1>4 DEF evaluateStartupProfile
<1>6. report["tmux"] \in {"pass", "skip"} /\ report["audit"] \in {"pass", "skip"}
  BY <1>4, <1>5 DEF assertStartupProfilePass
<1>7. "tmux" \in ToSet(Backends) => Signals["tmux"]
  BY <1>3, <1>5, <1>6 DEF evaluateTmuxBackendSignalPolicy, Backends
<1>8. \E b \in ToSet(Backends) : Signals[b]
  <2>1. CASE isTmuxOnly(Backends)
    <3>1. "tmux" \in ToSet(Backends)
      BY <2>1 DEF isTmuxOnly, ToSet
    <3> QED
      BY <1>7, <3>1
  <2>2. CASE logRuntimeBackendAvailability > 0
    <3>1. {b \in DOMAIN Signals : Signals[b]} # {}
      <4> SUFFICES ASSUME {b \in DOMAIN Signals : Signals[b]} = {} PROVE FALSE
        OBVIOUS
      <4>1. logRuntimeBackendAvailability = 0
        BY FS_EmptySet DEF logRuntimeBackendAvailability
      <4> QED
        BY <2>2, <4>1
    <3> QED
      BY <1>3, <3>1
  <2> QED
    BY <1>1, <2>1, <2>2 DEF StartsUp
<1>9. Config.auditLogPath # None =>
        env.files.auditParent = "writable" /\ env.files.auditFile \in {"missing", "writable"}
  <2>1. /\ env.files.auditParent \in {"stat_error", "missing", "not_dir", "readonly", "writable"}
        /\ env.files.auditFile \in {"stat_error", "missing", "dir", "readonly", "writable"}
    BY <1>0, RuntimeAssumption DEF TypeOK
  <2> QED
    BY <1>5, <1>6, <2>1 DEF evaluateAuditLogPathPolicy
<1>10. isLoopbackHost(Config.host) \/ Config.authToken \notin {None, Blank}
  <2>1. Config.authToken # Blank
    BY <1>0, <1>2, ConfigFacts DEF Config, TypeOK
  <2> QED
    BY <1>2, <2>1 DEF validateStartupConfig
<1>11. Over = "ssh" => Direct
  BY <1>2 DEF validateStartupConfig, Over, Direct, Backends
<1> QED
  BY <1>7, <1>8, <1>9, <1>10, <1>11

\* main starts the server, and startBridgeServer listens, only with a backend
\* that answers, the tmux backend if it is configured, an audit file that can
\* be written and a token on every address that other hosts reach.
THEOREM RuntimeListensOnlyIfFit == Spec => Fit
<1>1. RuntimeInv /\ [Next]_vars => [ListensOnlyIfFit]_vars
  <2> SUFFICES ASSUME RuntimeInv, Next PROVE ListensOnlyIfFit
    OBVIOUS
  <2>1. ASSUME ~(phase' = "listening" /\ phase # "listening"), ~(phase = "probe" /\ phase' = "recheck")
        PROVE  ListensOnlyIfFit
    BY <2>1 DEF ListensOnlyIfFit
  <2>2. CASE Start
    <3>1. phase = "probe" /\ phase' \in {"recheck", "exited"}
      BY <2>2 DEF Start, Exit
    <3>2. CASE phase' = "recheck"
      BY <2>2, <3>1, <3>2, StartsFit DEF ListensOnlyIfFit
    <3>3. CASE phase' = "exited"
      BY <3>1, <3>3 DEF ListensOnlyIfFit
    <3> QED
      BY <3>1, <3>2, <3>3
  <2>3. CASE startBridgeServer
    <3>1. CASE Exit(1)
      BY <3>1, <2>1 DEF Exit
    <3>2. CASE \E b \in DOMAIN Signals : Signals[b]
      <4>1. phase = "recheck" /\ \E b \in ToSet(Backends) : Signals[b]
        BY <2>3, <3>2 DEF startBridgeServer, Signals
      <4> QED
        BY <4>1 DEF ListensOnlyIfFit
    <3> QED
      BY <2>3, <3>1, <3>2 DEF startBridgeServer
  <2>4. CASE Load \/ preflightSshTransport \/ Closed \/ Signal \/ Change \/ Stopped
    <3>1. phase' = phase \/ phase' \in {"preflight", "probe", "closing", "exited"}
      BY <2>4 DEF Load, preflightSshTransport, Closed, Signal, Change, Stopped, Exit, ProbeBackends, vars
    <3> QED
      BY <3>1, <2>1
  <2>5. ASSUME NEW o \in DOMAIN tasks, NEW b \in Backend,
               KeyScan(o, b) \/ KeyGen(o, b) \/ RunQuery(o, b) \/ RunSend(o, b)
        PROVE  phase' = phase
    BY <2>5 DEF KeyScan, KeyGen, RunQuery, RunSend
  <2>6. ASSUME NEW o \in Ops, \/ ListReachable(o) \/ SettleList(o) \/ Settle(o) \/ ListPanes(o)
                              \/ CapturePane(o) \/ SendInput(o)
        PROVE  phase' = phase
    BY <2>6 DEF ListReachable, SettleList, Settle, ListPanes, CapturePane, SendInput, Routed
  <2>7. phase' = phase => ListensOnlyIfFit
    BY <2>1
  <2> QED
    BY <2>2, <2>3, <2>4, <2>5, <2>6, <2>7 DEF Next, Progress
<1> QED
  BY <1>1, RuntimeInvariant, PTL DEF Spec, Fit

=============================================================================
