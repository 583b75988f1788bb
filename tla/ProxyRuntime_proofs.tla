------------------------ MODULE ProxyRuntime_proofs ------------------------
(***************************************************************************)
(* Proofs about the proxy packages, for any limit of the cache, any        *)
(* environments and any number of requests: the cache is exactly           *)
(* least-recently-used and no agent is lost, the controller's decisions    *)
(* and counters agree with its factory's, and every request is watched.    *)
(***************************************************************************)
EXTENDS ProxyRuntime, SequenceTheorems, WellFoundedInduction, TLAPS

-----------------------------------------------------------------------------
(* Sequences that hold a key at most once *)

\* Every nonempty set of numbers has a least one.
LEMMA LeastFacts ==
  ASSUME NEW S, S \subseteq Nat, S # {}
  PROVE  \E x \in S : \A y \in S : x <= y
<1>1. PICK x \in S : \A y \in S : ~(<<y, x>> \in OpToRel(<, Nat))
  BY NatLessThanWellFounded, WFMin
<1>2. \A y \in S : x <= y
  <2> TAKE y \in S
  <2>1. x \in Nat /\ y \in Nat
    OBVIOUS
  <2>2. ~(y < x)
    BY <1>1, <2>1 DEF OpToRel
  <2> QED
    BY <2>1, <2>2
<1> QED
  BY <1>2

LEMMA MinFacts ==
  ASSUME NEW S, S \subseteq Nat, S # {}
  PROVE  Min(S) \in S
BY LeastFacts DEF Min

\* What is left when position i is removed.
LEMMA RemoveAtFacts ==
  ASSUME NEW T, NEW s \in Seq(T), NEW i \in 1..Len(s)
  PROVE  /\ RemoveAt(s, i) \in Seq(T) /\ Len(RemoveAt(s, i)) = Len(s) - 1
         /\ \A j \in 1..Len(s) - 1 : RemoveAt(s, i)[j] = IF j < i THEN s[j] ELSE s[j + 1]
<1> DEFINE a == SubSeq(s, 1, i - 1)
           b == SubSeq(s, i + 1, Len(s))
<1>1. a \in Seq(T) /\ Len(a) = i - 1 /\ \A j \in 1..i - 1 : a[j] = s[j]
  OBVIOUS
<1>2. b \in Seq(T) /\ Len(b) = Len(s) - i /\ \A j \in 1..Len(s) - i : b[j] = s[i + j]
  OBVIOUS
<1>3. RemoveAt(s, i) = a \o b
  BY DEF RemoveAt
<1> HIDE DEF a, b
<1>4. a \o b \in Seq(T) /\ Len(a \o b) = Len(s) - 1
  <2>1. a \o b \in Seq(T) /\ Len(a \o b) = Len(a) + Len(b)
    BY <1>1, <1>2, ConcatProperties
  <2>2. Len(s) \in Nat /\ i \in Nat
    OBVIOUS
  <2> QED
    BY <1>1, <1>2, <2>1, <2>2
<1>5. ASSUME NEW j \in 1..Len(s) - 1
      PROVE  (a \o b)[j] = IF j < i THEN s[j] ELSE s[j + 1]
  <2>1. CASE j < i
    BY <1>1, <1>2, <2>1
  <2>2. CASE ~(j < i)
    <3>1. (a \o b)[j] = b[j - Len(a)]
      BY <1>1, <1>2, <2>2
    <3>2. j - Len(a) \in 1..Len(s) - i /\ i + (j - Len(a)) = j + 1
      BY <1>1, <2>2
    <3> QED
      BY <1>2, <2>2, <3>1, <3>2
  <2> QED
    BY <2>1, <2>2
<1> QED
  BY <1>3, <1>4, <1>5

\* A Map's entries: [key, val] with distinct keys.
IsMap(c) == \A i, j \in 1..Len(c) : c[i].key = c[j].key => i = j

LEMMA LookupFacts ==
  ASSUME NEW T, NEW c \in Seq(T), IsMap(c), NEW key
  PROVE  /\ (\A i \in 1..Len(c) : c[i].key # key) => CacheValue(c, key) = 0 /\ Without(c, key) = c
         /\ \A i \in 1..Len(c) : c[i].key = key =>
              CacheValue(c, key) = c[i].val /\ Without(c, key) = RemoveAt(c, i)
<1> DEFINE I == {i \in 1..Len(c) : c[i].key = key}
<1>1. SelectInSeq(c, LAMBDA e : e.key = key) = IF I # {} THEN Min(I) ELSE 0
  BY DEF SelectInSeq
<1>2. ASSUME NEW i \in 1..Len(c), c[i].key = key
      PROVE  SelectInSeq(c, LAMBDA e : e.key = key) = i
  <2>1. I = {i}
    BY <1>2 DEF IsMap
  <2>2. Min(I) \in I
    <3>1. I \subseteq Nat /\ I # {}
      BY <2>1
    <3> HIDE DEF I
    <3> QED
      BY <3>1, MinFacts
  <2> QED
    BY <1>1, <2>1, <2>2
<1>3. ASSUME NEW i \in 1..Len(c), c[i].key = key
      PROVE  CacheValue(c, key) = c[i].val /\ Without(c, key) = RemoveAt(c, i)
  <2>0. i # 0
    OBVIOUS
  <2>1. SelectInSeq(c, LAMBDA e : e.key = key) = i
    BY <1>2, <1>3, Zenon
  <2>2. CacheValue(c, key) = c[i].val
    BY <2>0, <2>1 DEF CacheValue
  <2>3. Without(c, key) = RemoveAt(c, i)
    BY <1>3, <2>1 DEF Without, RemoveFirstMatch
  <2> QED
    BY <2>2, <2>3
<1>4. ASSUME \A i \in 1..Len(c) : c[i].key # key
      PROVE  CacheValue(c, key) = 0 /\ Without(c, key) = c
  <2>1. I = {}
    BY <1>4
  <2>2. SelectInSeq(c, LAMBDA e : e.key = key) = 0
    BY <1>1, <2>1
  <2> QED
    BY <1>4, <2>2 DEF CacheValue, Without, RemoveFirstMatch
<1> QED
  BY <1>3, <1>4

Distinct(s) == \A i, j \in 1..Len(s) : s[i] = s[j] => i = j

LEMMA RemoveFirstFacts ==
  ASSUME NEW T, NEW s \in Seq(T), Distinct(s), NEW key
  PROVE  /\ (\A i \in 1..Len(s) : s[i] # key) => RemoveFirst(s, key) = s
         /\ \A i \in 1..Len(s) : s[i] = key => RemoveFirst(s, key) = RemoveAt(s, i)
<1> DEFINE I == {i \in 1..Len(s) : s[i] = key}
<1>1. SelectInSeq(s, LAMBDA v : v = key) = IF I # {} THEN Min(I) ELSE 0
  BY DEF SelectInSeq
<1>2. ASSUME NEW i \in 1..Len(s), s[i] = key
      PROVE  RemoveFirst(s, key) = RemoveAt(s, i)
  <2>1. I = {i}
    BY <1>2 DEF Distinct
  <2>2. Min(I) \in I
    <3>1. I \subseteq Nat /\ I # {}
      BY <2>1
    <3> HIDE DEF I
    <3> QED
      BY <3>1, MinFacts
  <2>3. SelectInSeq(s, LAMBDA v : v = key) = i
    BY <1>1, <2>1, <2>2
  <2> QED
    BY <1>2, <2>3 DEF RemoveFirst
<1> QED
  BY <1>2 DEF RemoveFirst

-----------------------------------------------------------------------------
(* The cache as a function of the uses *)

\* c holds the last distinct keys of u, in the order of u.
RecentOf(c, u) ==
  /\ Len(c) = IF Len(u) < MaxEntries THEN Len(u) ELSE MaxEntries
  /\ \A i \in 1..Len(c) : c[i].key = u[Len(u) - Len(c) + i]
  /\ Distinct(u)

Entries == [key : CacheKeys, val : Nat]

LEMMA RecentIsMap ==
  ASSUME NEW c \in Seq(Entries), NEW u \in Seq(CacheKeys), RecentOf(c, u)
  PROVE  IsMap(c) /\ Len(c) <= Len(u) /\ Len(c) <= MaxEntries
<1>1. Len(c) \in Nat /\ Len(u) \in Nat /\ Len(c) <= Len(u) /\ Len(c) <= MaxEntries
  BY MaxEntriesAssumption DEF RecentOf
<1>2. ASSUME NEW i \in 1..Len(c), NEW j \in 1..Len(c), c[i].key = c[j].key
      PROVE  i = j
  <2>1. /\ Len(u) - Len(c) + i \in 1..Len(u) /\ Len(u) - Len(c) + j \in 1..Len(u)
        /\ u[Len(u) - Len(c) + i] = u[Len(u) - Len(c) + j]
    BY <1>1, <1>2 DEF RecentOf
  <2>2. Len(u) - Len(c) + i = Len(u) - Len(c) + j
    BY <2>1 DEF RecentOf, Distinct
  <2> QED
    BY <1>1, <2>2
<1> QED
  BY <1>1, <1>2 DEF IsMap

\* Moving a key that is there to the end.
LEMMA MoveFacts ==
  ASSUME NEW T, NEW s \in Seq(T), NEW j \in 1..Len(s), NEW e \in T
  PROVE  LET r == Append(RemoveAt(s, j), e)
         IN  /\ r \in Seq(T) /\ Len(r) = Len(s) /\ r[Len(s)] = e
             /\ \A i \in 1..Len(s) - 1 : r[i] = IF i < j THEN s[i] ELSE s[i + 1]
<1> DEFINE q == RemoveAt(s, j)
<1>1. /\ q \in Seq(T) /\ Len(q) = Len(s) - 1 /\ Len(s) \in Nat
      /\ \A i \in 1..Len(s) - 1 : q[i] = IF i < j THEN s[i] ELSE s[i + 1]
  BY RemoveAtFacts
<1> HIDE DEF q
<1>2. /\ Append(q, e) \in Seq(T) /\ Len(Append(q, e)) = Len(s) /\ Append(q, e)[Len(s)] = e
      /\ \A i \in 1..Len(s) - 1 : Append(q, e)[i] = q[i]
  BY <1>1
<1> QED
  BY <1>1, <1>2 DEF q

LEMMA MoveDistinct ==
  ASSUME NEW T, NEW s \in Seq(T), Distinct(s), NEW j \in 1..Len(s)
  PROVE  Distinct(Append(RemoveAt(s, j), s[j]))
<1> DEFINE r == Append(RemoveAt(s, j), s[j])
           at(i) == IF i = Len(s) THEN j ELSE IF i < j THEN i ELSE i + 1
<1>1. /\ Len(r) = Len(s) /\ r[Len(s)] = s[j] /\ Len(s) \in Nat
      /\ \A i \in 1..Len(s) - 1 : r[i] = IF i < j THEN s[i] ELSE s[i + 1]
  BY MoveFacts
<1> HIDE DEF r
<1>2. \A i \in 1..Len(s) : at(i) \in 1..Len(s) /\ r[i] = s[at(i)]
  BY <1>1
<1>3. \A i, k \in 1..Len(s) : at(i) = at(k) => i = k
  BY <1>1
<1> HIDE DEF at
<1>4. \A i, k \in 1..Len(s) : r[i] = r[k] => i = k
  BY <1>2, <1>3 DEF Distinct
<1> QED
  BY <1>1, <1>4 DEF Distinct, r

\* A hit: the entry becomes the newest, as its key does among the uses.
LEMMA GetKeeps ==
  ASSUME NEW c \in Seq(Entries), NEW u \in Seq(CacheKeys), RecentOf(c, u),
         NEW key \in CacheKeys, NEW j \in 1..Len(c), c[j].key = key, c[j].val # 0
  PROVE  LET r == CacheGet(c, key)
             v == Append(RemoveFirst(u, key), key)
         IN  /\ CacheValue(c, key) = c[j].val
             /\ r \in Seq(Entries) /\ v \in Seq(CacheKeys) /\ RecentOf(r, v)
             /\ \A i \in 1..Len(r) : \E k \in 1..Len(c) : r[i] = c[k]
             /\ \A k \in 1..Len(c) : \E i \in 1..Len(r) : r[i] = c[k]
<1> DEFINE r == CacheGet(c, key)
           v == Append(RemoveFirst(u, key), key)
<1>1. IsMap(c) /\ Len(c) <= Len(u) /\ Len(c) \in Nat /\ Len(u) \in Nat
  BY RecentIsMap
<1>0. c[j] \in Entries /\ key \in CacheKeys
  <2>1. c[j] \in Entries
    OBVIOUS
  <2> QED
    BY <2>1 DEF Entries
<1>2. PICK p \in 1..Len(u) : p = Len(u) - Len(c) + j /\ u[p] = key
  <2>1. Len(u) - Len(c) + j \in 1..Len(u)
    BY <1>1
  <2>2. u[Len(u) - Len(c) + j] = key
    BY DEF RecentOf
  <2> QED
    BY <2>1, <2>2
<1>3. CacheValue(c, key) = c[j].val /\ Without(c, key) = RemoveAt(c, j)
  BY <1>1, LookupFacts
<1>4. RemoveFirst(u, key) = RemoveAt(u, p)
  BY <1>2, RemoveFirstFacts DEF RecentOf
<1>5. c[j] = [key |-> c[j].key, val |-> c[j].val]
  BY <1>0 DEF Entries
<1>6. r = Append(RemoveAt(c, j), c[j])
  BY <1>3, <1>5 DEF CacheGet
<1>7. v = Append(RemoveAt(u, p), u[p])
  BY <1>2, <1>4
<1>8. /\ r \in Seq(Entries) /\ Len(r) = Len(c) /\ r[Len(c)] = c[j]
      /\ \A i \in 1..Len(c) - 1 : r[i] = IF i < j THEN c[i] ELSE c[i + 1]
  BY <1>0, <1>6, MoveFacts, SMTT(60)
<1>9. /\ v \in Seq(CacheKeys) /\ Len(v) = Len(u) /\ v[Len(u)] = key
      /\ \A i \in 1..Len(u) - 1 : v[i] = IF i < p THEN u[i] ELSE u[i + 1]
  <2>1. PICK e \in CacheKeys : e = u[p]
    BY <1>0, <1>2
  <2>2. v = Append(RemoveAt(u, p), e) /\ e = key
    BY <1>2, <1>7, <2>1
  <2> HIDE DEF v
  <2>3. LET w == Append(RemoveAt(u, p), e)
        IN  /\ w \in Seq(CacheKeys) /\ Len(w) = Len(u) /\ w[Len(u)] = e
            /\ \A i \in 1..Len(u) - 1 : w[i] = IF i < p THEN u[i] ELSE u[i + 1]
    BY MoveFacts
  <2> QED
    BY <2>2, <2>3
<1>10. Distinct(v)
  BY <1>2, <1>7, MoveDistinct DEF RecentOf
<1> HIDE DEF r, v
<1>11. ASSUME NEW i \in 1..Len(c) PROVE r[i].key = v[Len(u) - Len(c) + i]
  <2>1. CASE i = Len(c)
    BY <1>1, <1>8, <1>9, <2>1
  <2>2. CASE i < Len(c) /\ i < j
    <3>0. i \in 1..Len(c) - 1 /\ Len(u) - Len(c) + i \in 1..Len(u) - 1 /\ Len(u) - Len(c) + i < p
      BY <1>1, <1>2, <2>2
    <3>1. r[i] = c[i] /\ v[Len(u) - Len(c) + i] = u[Len(u) - Len(c) + i]
      BY <1>8, <1>9, <2>2, <3>0
    <3> QED
      BY <3>1 DEF RecentOf
  <2>3. CASE i < Len(c) /\ ~(i < j)
    <3>0. i \in 1..Len(c) - 1 /\ Len(u) - Len(c) + i \in 1..Len(u) - 1 /\ ~(Len(u) - Len(c) + i < p)
      BY <1>1, <1>2, <2>3
    <3>1. r[i] = c[i + 1] /\ v[Len(u) - Len(c) + i] = u[(Len(u) - Len(c) + i) + 1]
      BY <1>8, <1>9, <2>3, <3>0
    <3>2. i + 1 \in 1..Len(c) /\ (Len(u) - Len(c) + i) + 1 = Len(u) - Len(c) + (i + 1)
      BY <1>1, <2>3
    <3> QED
      BY <3>1, <3>2 DEF RecentOf
  <2> QED
    BY <1>1, <2>1, <2>2, <2>3
<1>12. RecentOf(r, v)
  BY <1>1, <1>8, <1>9, <1>10, <1>11 DEF RecentOf
<1>13. \A i \in 1..Len(r) : \E k \in 1..Len(c) : r[i] = c[k]
  BY <1>1, <1>8
<1>14. ASSUME NEW k \in 1..Len(c) PROVE \E i \in 1..Len(r) : r[i] = c[k]
  <2>1. CASE k = j
    BY <1>1, <1>8, <2>1
  <2>2. CASE k < j
    <3>1. k \in 1..Len(c) - 1 /\ r[k] = c[k]
      BY <1>1, <1>8, <2>2
    <3> QED
      BY <1>1, <1>8, <3>1
  <2>3. CASE k > j
    <3>1. k - 1 \in 1..Len(c) - 1 /\ ~(k - 1 < j) /\ (k - 1) + 1 = k
      BY <1>1, <2>3
    <3>2. r[k - 1] = c[k] /\ k - 1 \in 1..Len(r)
      BY <1>1, <1>8, <3>1
    <3> QED
      BY <3>2
  <2> QED
    BY <1>1, <2>1, <2>2, <2>3
<1> QED
  BY <1>3, <1>8, <1>9, <1>12, <1>13, <1>14 DEF r, v

\* The uses after a key that is not among the last ones.
LEMMA UseFacts ==
  ASSUME NEW u \in Seq(CacheKeys), Distinct(u), NEW key \in CacheKeys, NEW n \in 0..Len(u),
         \A i \in Len(u) - n + 1..Len(u) : u[i] # key
  PROVE  LET v == Append(RemoveFirst(u, key), key)
         IN  /\ v \in Seq(CacheKeys) /\ Distinct(v) /\ v[Len(v)] = key
             /\ \/ Len(v) = Len(u) /\ n < Len(u)
                \/ Len(v) = Len(u) + 1
             /\ \A i \in 1..n : v[Len(v) - 1 - n + i] = u[Len(u) - n + i]
<1> DEFINE v == Append(RemoveFirst(u, key), key)
<1>0. Len(u) \in Nat /\ n \in Nat /\ n <= Len(u)
  OBVIOUS
<1>1. CASE \A i \in 1..Len(u) : u[i] # key
  <2>1. v = Append(u, key)
    BY <1>1, RemoveFirstFacts
  <2> HIDE DEF v
  <2>2. /\ v \in Seq(CacheKeys) /\ Len(v) = Len(u) + 1 /\ v[Len(v)] = key
        /\ \A i \in 1..Len(u) : v[i] = u[i]
    BY <2>1
  <2>3. Distinct(v)
    <3> SUFFICES ASSUME NEW i \in 1..Len(u) + 1, NEW k \in 1..Len(u) + 1, v[i] = v[k] PROVE i = k
      BY <2>2 DEF Distinct
    <3>1. CASE i = Len(u) + 1 \/ k = Len(u) + 1
      BY <1>0, <1>1, <2>2, <3>1
    <3>2. CASE i \in 1..Len(u) /\ k \in 1..Len(u)
      BY <2>2, <3>2 DEF Distinct
    <3> QED
      BY <1>0, <3>1, <3>2
  <2>4. \A i \in 1..n : v[Len(v) - 1 - n + i] = u[Len(u) - n + i]
    BY <1>0, <2>2
  <2> QED
    BY <2>2, <2>3, <2>4 DEF v
<1>2. ASSUME NEW p \in 1..Len(u), u[p] = key PROVE LET w == v IN
             /\ w \in Seq(CacheKeys) /\ Distinct(w) /\ w[Len(w)] = key
             /\ Len(w) = Len(u) /\ n < Len(u)
             /\ \A i \in 1..n : w[Len(w) - 1 - n + i] = u[Len(u) - n + i]
  <2>1. v = Append(RemoveAt(u, p), key)
    BY <1>2, RemoveFirstFacts
  <2>2. /\ v \in Seq(CacheKeys) /\ Len(v) = Len(u) /\ v[Len(u)] = key
        /\ \A i \in 1..Len(u) - 1 : v[i] = IF i < p THEN u[i] ELSE u[i + 1]
    BY <2>1, MoveFacts
  <2>3. Distinct(v)
    <3>1. v = Append(RemoveAt(u, p), u[p])
      BY <1>2, <2>1
    <3> QED
      BY <3>1, MoveDistinct
  <2> HIDE DEF v
  <2>4. p <= Len(u) - n
    BY <1>0, <1>2
  <2>5. ASSUME NEW i \in 1..n PROVE v[Len(v) - 1 - n + i] = u[Len(u) - n + i]
    <3>1. /\ Len(v) - 1 - n + i \in 1..Len(u) - 1 /\ ~(Len(v) - 1 - n + i < p)
          /\ (Len(v) - 1 - n + i) + 1 = Len(u) - n + i
      BY <1>0, <2>2, <2>4
    <3> QED
      BY <2>2, <3>1
  <2> QED
    BY <1>0, <2>2, <2>3, <2>4, <2>5
<1> QED
  BY <1>1, <1>2

\* A miss: the new entry is the newest and the oldest makes room.
LEMMA SetKeeps ==
  ASSUME NEW c \in Seq(Entries), NEW u \in Seq(CacheKeys), RecentOf(c, u),
         NEW key \in CacheKeys, NEW val \in Nat, \A i \in 1..Len(c) : c[i].key # key
  PROVE  LET r == CacheSet(c, key, val)
             v == Append(RemoveFirst(u, key), key)
             e == [key |-> key, val |-> val]
         IN  /\ r \in Seq(Entries) /\ v \in Seq(CacheKeys) /\ RecentOf(r, v)
             /\ \A i \in 1..Len(r) : r[i] = e \/ \E k \in 1..Len(c) : r[i] = c[k]
             /\ MaxEntries > 0 => Len(r) \in 1..Len(r) /\ r[Len(r)] = e
             /\ MaxEntries = 0 => r = c /\ Len(c) = 0
<1> DEFINE r == CacheSet(c, key, val)
           v == Append(RemoveFirst(u, key), key)
           n == Len(c)
<1>1. /\ IsMap(c) /\ n <= Len(u) /\ n <= MaxEntries /\ n \in Nat /\ Len(u) \in Nat
      /\ MaxEntries \in Nat
  BY RecentIsMap, MaxEntriesAssumption
<1>2. Without(c, key) = c
  BY <1>1, LookupFacts
<1>3. PICK e \in Entries : e = [key |-> key, val |-> val]
  BY DEF Entries
<1>4. e.key = key
  BY <1>3
<1>5. r = IF MaxEntries = 0 THEN c
          ELSE IF Len(Append(c, e)) > MaxEntries
               THEN SubSeq(Append(c, e), Len(Append(c, e)) - MaxEntries + 1, Len(Append(c, e)))
               ELSE Append(c, e)
  BY <1>2, <1>3 DEF CacheSet
<1>6. /\ v \in Seq(CacheKeys) /\ Distinct(v) /\ v[Len(v)] = key
      /\ \/ Len(v) = Len(u) /\ n < Len(u)
         \/ Len(v) = Len(u) + 1
      /\ \A i \in 1..n : v[Len(v) - 1 - n + i] = u[Len(u) - n + i]
  <2>1. \A i \in Len(u) - n + 1..Len(u) : u[i] # key
    <3> TAKE i \in Len(u) - n + 1..Len(u)
    <3>1. i - (Len(u) - n) \in 1..n /\ Len(u) - n + (i - (Len(u) - n)) = i
      BY <1>1
    <3> QED
      BY <3>1 DEF RecentOf
  <2>2. n \in 0..Len(u) /\ Distinct(u)
    BY <1>1 DEF RecentOf
  <2> QED
    BY <2>1, <2>2, UseFacts
<1> HIDE DEF r, v
<1>7. n = IF Len(u) < MaxEntries THEN Len(u) ELSE MaxEntries
  BY DEF RecentOf
<1>8. \A i \in 1..n : c[i].key = v[Len(v) - 1 - n + i]
  BY <1>6 DEF RecentOf
<1>9. CASE MaxEntries = 0
  <2>1. r = c /\ n = 0
    BY <1>1, <1>5, <1>9
  <2>2. RecentOf(r, v)
    BY <1>6, <1>9, <2>1 DEF RecentOf
  <2> QED
    BY <1>6, <1>9, <2>1, <2>2 DEF r, v
<1>10. CASE MaxEntries > 0 /\ n + 1 <= MaxEntries
  <2>1. r = Append(c, e)
    BY <1>1, <1>5, <1>10
  <2>2. /\ r \in Seq(Entries) /\ Len(r) = n + 1 /\ r[n + 1] = e /\ \A i \in 1..n : r[i] = c[i]
    BY <2>1
  <2>3. n = Len(u) /\ Len(v) = n + 1
    BY <1>1, <1>6, <1>7, <1>10
  <2>4. \A i \in 1..Len(r) : r[i].key = v[Len(v) - Len(r) + i]
    <3> TAKE i \in 1..Len(r)
    <3>1. CASE i = n + 1
      BY <1>1, <1>4, <1>6, <2>2, <2>3, <3>1
    <3>2. CASE i \in 1..n
      BY <1>1, <1>8, <2>2, <2>3, <3>2
    <3> QED
      BY <1>1, <2>2, <3>1, <3>2
  <2>5. RecentOf(r, v)
    <3>1. Len(r) = IF Len(v) < MaxEntries THEN Len(v) ELSE MaxEntries
      BY <1>1, <1>10, <2>2, <2>3
    <3> QED
      BY <1>6, <2>4, <3>1 DEF RecentOf
  <2>6. \A i \in 1..Len(r) : r[i] = e \/ \E k \in 1..Len(c) : r[i] = c[k]
    BY <1>1, <2>2
  <2> QED
    BY <1>1, <1>3, <1>6, <1>10, <2>2, <2>5, <2>6 DEF r, v
<1>11. CASE MaxEntries > 0 /\ n = MaxEntries
  <2>1. /\ r \in Seq(Entries) /\ Len(r) = n /\ r[n] = e /\ \A i \in 1..n - 1 : r[i] = c[i + 1]
    <3>0. Append(c, e) \in Seq(Entries)
      BY AppendProperties
    <3>1. PICK a \in Seq(Entries) : a = Append(c, e)
      BY <3>0
    <3>2. Len(a) = n + 1 /\ a[n + 1] = e /\ \A i \in 1..n : a[i] = c[i]
      BY <3>1
    <3>3. r = SubSeq(a, 2, n + 1)
      BY <1>1, <1>5, <1>11, <3>1, <3>2
    <3>4. /\ r \in Seq(Entries) /\ Len(r) = n /\ \A i \in 1..n : r[i] = a[i + 1]
      BY <1>1, <1>11, <3>2, <3>3
    <3>5. r[n] = a[n + 1]
      BY <1>1, <1>11, <3>4
    <3>6. ASSUME NEW i \in 1..n - 1 PROVE r[i] = c[i + 1]
      <4>1. i \in 1..n /\ i + 1 \in 1..n
        BY <1>1
      <4> QED
        BY <3>2, <3>4, <4>1
    <3> QED
      BY <3>2, <3>4, <3>5, <3>6
  <2>2. Len(v) >= MaxEntries
    BY <1>1, <1>6, <1>7, <1>11
  <2>3. \A i \in 1..Len(r) : r[i].key = v[Len(v) - Len(r) + i]
    <3> TAKE i \in 1..Len(r)
    <3>0. Len(v) \in Nat
      BY <1>6
    <3>1. CASE i = n
      BY <1>1, <1>4, <1>6, <2>1, <3>0, <3>1
    <3>2. CASE i \in 1..n - 1
      <4>1. i + 1 \in 1..n /\ Len(v) - 1 - n + (i + 1) = Len(v) - Len(r) + i
        BY <1>1, <2>1, <3>0, <3>2
      <4>2. r[i] = c[i + 1]
        BY <2>1, <3>2
      <4> QED
        BY <1>8, <4>1, <4>2
    <3> QED
      BY <1>1, <2>1, <3>1, <3>2
  <2>4. RecentOf(r, v)
    BY <1>1, <1>6, <1>11, <2>1, <2>2, <2>3 DEF RecentOf
  <2>5. \A i \in 1..Len(r) : r[i] = e \/ \E k \in 1..Len(c) : r[i] = c[k]
    <3> TAKE i \in 1..Len(r)
    <3>1. i = n \/ (i \in 1..n - 1 /\ i + 1 \in 1..n)
      BY <1>1, <2>1
    <3> QED
      BY <2>1, <3>1
  <2> QED
    BY <1>1, <1>3, <1>6, <1>11, <2>1, <2>4, <2>5 DEF r, v
<1> QED
  BY <1>1, <1>9, <1>10, <1>11

-----------------------------------------------------------------------------
(* The factories *)

Agents == [key : CacheKeys, open : BOOLEAN]
Loaded == {loadProxySettings(Environment[e]) : e \in DOMAIN Environment}

\* Every entry has an open agent of its own, and the agent factory has lost none.
AgentInv ==
  /\ \A i \in 1..Len(cache) :
       /\ cache[i].val \in 1..Len(agents)
       /\ agents[cache[i].val].open /\ agents[cache[i].val].key = cache[i].key
  /\ kind # "undici" => direct = 0
  /\ kind # "undici" /\ MaxEntries > 0 =>
       \A i \in 1..Len(agents) : agents[i].open => \E k \in 1..Len(cache) : cache[k].val = i

FactoryInv ==
  /\ kind \in Kind /\ settings \in Loaded
  /\ cache \in Seq(Entries) /\ agents \in Seq(Agents) /\ used \in Seq(CacheKeys) /\ direct \in Nat
  /\ RecentOf(cache, used) /\ AgentInv

LEMMA RouteFacts ==
  ASSUME NEW loaded \in Loaded, NEW target
  PROVE  /\ resolveProxyForUrl(target, loaded) \in ProxyUrls
         /\ shouldBypassProxy(target, loaded.noProxy) => resolveProxyForUrl(target, loaded) = None
<1>1. PICK e \in DOMAIN Environment : loaded = loadProxySettings(Environment[e])
  BY DEF Loaded
<1>2. \A x \in {"httpProxy", "httpsProxy", "allProxy"} : loaded[x] \in ProxyUrls
  BY <1>1 DEF ProxyUrls
<1>3. loaded.httpProxy \in ProxyUrls /\ loaded.httpsProxy \in ProxyUrls /\ loaded.allProxy \in ProxyUrls
  BY <1>2
<1>4. None \in ProxyUrls
  BY DEF ProxyUrls
<1> QED
  BY <1>3, <1>4 DEF resolveProxyForUrl, Coalesce

LEMMA KeyFacts ==
  ASSUME FactoryInv, NEW target, ~Throws(target), Resolution(target).viaProxy
  PROVE  cacheKey(Resolution(target).proxyUrl, target) \in CacheKeys
<1> DEFINE proxy == resolveProxyForUrl(target, settings)
<1>1. proxy \in ProxyUrls /\ proxy # None /\ Resolution(target).proxyUrl = proxy
  BY RouteFacts DEF FactoryInv, Resolution
<1>2. CASE kind = "undici"
  BY <1>1, <1>2 DEF cacheKey, CacheKeys
<1>3. CASE kind # "undici"
  <2>1. target.proto \in {"http", "https", "ws", "wss"}
    BY <1>1, <1>3 DEF Throws, createProxyAgentThrows
  <2> QED
    BY <1>1, <1>3, <2>1 DEF cacheKey, CacheKeys
<1> QED
  BY <1>2, <1>3

\* Disposing keeps every agent's place and key; only the agent factory closes.
LEMMA DisposeFacts ==
  ASSUME NEW all \in Seq(Agents), NEW ids
  PROVE  LET r == Dispose(all, ids)
         IN  /\ r \in Seq(Agents) /\ Len(r) = Len(all)
             /\ \A i \in 1..Len(all) : /\ r[i].key = all[i].key
                                       /\ i \notin ids => r[i] = all[i]
                                       /\ r[i].open => all[i].open
                                       /\ i \in ids /\ kind # "undici" => ~r[i].open
<1> DEFINE at(i) == IF i \notin ids THEN all[i]
                    ELSE IF kind = "undici" THEN all[i] ELSE [all[i] EXCEPT !.open = FALSE]
           r == [i \in 1..Len(all) |-> at(i)]
<1>1. Dispose(all, ids) = r
  BY DEF Dispose, closeDispatcher, tryDisposeAgent
<1>2. ASSUME NEW i \in 1..Len(all)
      PROVE  /\ at(i) \in Agents /\ at(i).key = all[i].key /\ (i \notin ids => at(i) = all[i])
             /\ (at(i).open => all[i].open) /\ (i \in ids /\ kind # "undici" => ~at(i).open)
  <2>1. all[i] \in Agents
    OBVIOUS
  <2> QED
    BY <2>1 DEF Agents
<1> HIDE DEF at
<1>3. r \in Seq(Agents) /\ Len(r) = Len(all)
  BY <1>2
<1>4. \A i \in 1..Len(all) : r[i] = at(i)
  OBVIOUS
<1> HIDE DEF r
<1> QED
  BY <1>1, <1>2, <1>3, <1>4

\* resolve keeps the factory's invariant, and creates an agent exactly when a
\* proxied route is not in the cache.
LEMMA ResolveKeeps ==
  ASSUME FactoryInv, NEW target, FactoryResolve(target), kind' = kind
  PROVE  /\ FactoryInv'
         /\ kind # "undici" =>
              /\ Len(agents') = Len(agents) + (IF Resolution(target).viaProxy /\ ~Resolution(target).fromCache
                                               THEN 1 ELSE 0)
              /\ Resolution(target).fromCache => Resolution(target).viaProxy
              /\ Resolution(target).agent \in Nat
<1> DEFINE res == Resolution(target)
           proxy == resolveProxyForUrl(target, settings)
           key == cacheKey(proxy, target)
<1>0. /\ cache \in Seq(Entries) /\ agents \in Seq(Agents) /\ used \in Seq(CacheKeys)
      /\ RecentOf(cache, used) /\ Len(agents) \in Nat /\ Len(cache) \in Nat /\ direct \in Nat
      /\ UNCHANGED settings
  BY DEF FactoryInv, FactoryResolve
<1>1. res.proxyUrl = proxy /\ (res.viaProxy <=> proxy # None)
  BY DEF Resolution
<1>2. CASE ~res.viaProxy /\ kind # "undici"
  <2>1. UNCHANGED <<cache, direct, agents, used>>
    BY <1>2 DEF FactoryResolve
  <2>2. FactoryInv'
    BY <1>0, <2>1 DEF FactoryInv, AgentInv
  <2>3. ~res.fromCache /\ res.agent = 0
    BY <1>1, <1>2 DEF Resolution, FactoryInv, AgentInv
  <2> QED
    BY <1>0, <1>2, <2>1, <2>2, <2>3
<1>3. CASE ~res.viaProxy /\ kind = "undici"
  <2>1. /\ direct' = res.agent /\ UNCHANGED <<cache, used>>
        /\ agents' = IF res.fromCache THEN agents
                     ELSE Append(agents, [key |-> <<None>>, open |-> TRUE])
    BY <1>3 DEF FactoryResolve, resolveDirect
  <2>2. res.agent \in Nat
    BY <1>0, <1>1, <1>3 DEF Resolution
  <2>3. [key |-> <<None>>, open |-> TRUE] \in Agents
    BY DEF Agents, CacheKeys, ProxyUrls
  <2>4. /\ agents' \in Seq(Agents) /\ Len(agents') \in Nat /\ Len(agents') >= Len(agents)
        /\ \A i \in 1..Len(agents) : agents'[i] = agents[i]
    BY <1>0, <2>1, <2>3
  <2>5. AgentInv'
    BY <1>0, <1>3, <2>1, <2>4 DEF FactoryInv, AgentInv
  <2> QED
    BY <1>0, <1>3, <2>1, <2>2, <2>4, <2>5 DEF FactoryInv
<1>4. CASE res.viaProxy
  <2>1. /\ used' = Append(RemoveFirst(used, key), key) /\ UNCHANGED direct
        /\ cache' = IF res.fromCache THEN CacheGet(cache, key) ELSE CacheSet(cache, key, res.agent)
        /\ agents' = IF res.fromCache THEN agents
                     ELSE Evict(Append(agents, [key |-> key, open |-> TRUE]), cache, cache')
    BY <1>1, <1>4 DEF FactoryResolve, ResolveProxied
  <2>2. key \in CacheKeys
    <3>1. ~Throws(target)
      BY DEF FactoryResolve
    <3> QED
      BY <1>1, <1>4, <3>1, KeyFacts
  <2>3. /\ res.fromCache <=> CacheValue(cache, key) # 0
        /\ res.agent = IF res.fromCache THEN CacheValue(cache, key) ELSE Len(agents) + 1
    BY <1>1, <1>4 DEF Resolution
  <2>4. IsMap(cache)
    BY <1>0, RecentIsMap
  <2> HIDE DEF res, key
  <2>5. ASSUME NEW j \in 1..Len(cache), cache[j].key = key
        PROVE  FactoryInv' /\ Len(agents') = Len(agents) /\ res.fromCache /\ res.agent \in Nat
    <3>1. cache[j].val \in 1..Len(agents) /\ cache[j].val # 0
      BY <1>0, <2>5 DEF FactoryInv, AgentInv
    <3>2. /\ CacheValue(cache, key) = cache[j].val
          /\ CacheGet(cache, key) \in Seq(Entries)
          /\ Append(RemoveFirst(used, key), key) \in Seq(CacheKeys)
          /\ RecentOf(CacheGet(cache, key), Append(RemoveFirst(used, key), key))
          /\ \A i \in 1..Len(CacheGet(cache, key)) : \E k \in 1..Len(cache) : CacheGet(cache, key)[i] = cache[k]
          /\ \A k \in 1..Len(cache) : \E i \in 1..Len(CacheGet(cache, key)) : CacheGet(cache, key)[i] = cache[k]
      <4>1. PICK c \in Seq(Entries), u \in Seq(CacheKeys), q \in CacheKeys :
              c = cache /\ u = used /\ q = key
        BY <1>0, <2>2
      <4>2. RecentOf(c, u) /\ j \in 1..Len(c) /\ c[j].key = q /\ c[j].val # 0
        BY <1>0, <2>5, <3>1, <4>1
      <4>3. LET r == CacheGet(c, q)
                v == Append(RemoveFirst(u, q), q)
            IN  /\ CacheValue(c, q) = c[j].val
                /\ r \in Seq(Entries) /\ v \in Seq(CacheKeys) /\ RecentOf(r, v)
                /\ \A i \in 1..Len(r) : \E k \in 1..Len(c) : r[i] = c[k]
                /\ \A k \in 1..Len(c) : \E i \in 1..Len(r) : r[i] = c[k]
        BY <4>2, GetKeeps
      <4> QED
        BY <4>1, <4>3
    <3>3. /\ res.fromCache /\ agents' = agents
          /\ cache' = CacheGet(cache, key)
      BY <2>1, <2>3, <3>1, <3>2
    <3>4. /\ \A i \in 1..Len(cache') : \E k \in 1..Len(cache) : cache'[i] = cache[k]
          /\ \A k \in 1..Len(cache) : \E i \in 1..Len(cache') : cache'[i] = cache[k]
      BY <3>2, <3>3
    <3>5. AgentInv'
      <4>1. ASSUME NEW i \in 1..Len(cache')
            PROVE  /\ cache'[i].val \in 1..Len(agents')
                   /\ agents'[cache'[i].val].open /\ agents'[cache'[i].val].key = cache'[i].key
        <5>1. PICK k \in 1..Len(cache) : cache'[i] = cache[k]
          BY <3>4
        <5>2. /\ cache[k].val \in 1..Len(agents)
              /\ agents[cache[k].val].open /\ agents[cache[k].val].key = cache[k].key
          BY DEF FactoryInv, AgentInv
        <5> QED
          BY <3>3, <5>1, <5>2
      <4>2. ASSUME kind # "undici", MaxEntries > 0, NEW i \in 1..Len(agents'), agents'[i].open
            PROVE  \E k \in 1..Len(cache') : cache'[k].val = i
        <5>1. PICK k \in 1..Len(cache) : cache[k].val = i
          BY <3>3, <4>2 DEF FactoryInv, AgentInv
        <5>2. PICK m \in 1..Len(cache') : cache'[m] = cache[k]
          BY <3>4
        <5> QED
          BY <5>1, <5>2
      <4> QED
        BY <2>1, <4>1, <4>2 DEF FactoryInv, AgentInv
    <3>6. cache' \in Seq(Entries) /\ used' \in Seq(CacheKeys) /\ RecentOf(cache', used')
      BY <2>1, <3>2, <3>3
    <3>7. RecentOf(cache, used)'
      BY <3>6 DEF RecentOf, Distinct
    <3>8. res.agent \in Nat
      BY <2>3, <3>1, <3>2, <3>3
    <3> QED
      BY <1>0, <2>1, <3>3, <3>5, <3>6, <3>7, <3>8 DEF FactoryInv
  <2>6. ASSUME \A j \in 1..Len(cache) : cache[j].key # key
        PROVE  FactoryInv' /\ Len(agents') = Len(agents) + 1 /\ ~res.fromCache /\ res.agent \in Nat
    <3> DEFINE entry == [key |-> key, val |-> Len(agents) + 1]
               more == Append(agents, [key |-> key, open |-> TRUE])
    <3>1. CacheValue(cache, key) = 0
      BY <1>0, <2>4, <2>6, LookupFacts
    <3>2. ~res.fromCache /\ res.agent = Len(agents) + 1 /\ res.agent \in Nat
      BY <1>0, <2>3, <3>1
    <3>3. cache' = CacheSet(cache, key, Len(agents) + 1) /\ agents' = Evict(more, cache, cache')
      BY <2>1, <3>2
    <3>4. PICK val \in Nat : val = Len(agents) + 1
      BY <1>0
    <3>5. LET r == CacheSet(cache, key, val)
             v == Append(RemoveFirst(used, key), key)
             e == [key |-> key, val |-> val]
         IN  /\ r \in Seq(Entries) /\ v \in Seq(CacheKeys) /\ RecentOf(r, v)
             /\ \A i \in 1..Len(r) : r[i] = e \/ \E k \in 1..Len(cache) : r[i] = cache[k]
             /\ MaxEntries > 0 => Len(r) \in 1..Len(r) /\ r[Len(r)] = e
             /\ MaxEntries = 0 => r = cache /\ Len(cache) = 0
      BY <1>0, <2>2, <2>6, SetKeeps
    <3>6. /\ cache' \in Seq(Entries) /\ used' \in Seq(CacheKeys) /\ RecentOf(cache', used')
          /\ \A i \in 1..Len(cache') : cache'[i] = entry \/ \E k \in 1..Len(cache) : cache'[i] = cache[k]
          /\ MaxEntries > 0 => Len(cache') \in 1..Len(cache') /\ cache'[Len(cache')] = entry
      BY <2>1, <3>3, <3>4, <3>5
    <3>7. RecentOf(cache, used)'
      BY <3>6 DEF RecentOf, Distinct
    <3>8. [key |-> key, open |-> TRUE] \in Agents
      BY <2>2 DEF Agents
    <3>9. /\ more \in Seq(Agents) /\ Len(more) = Len(agents) + 1
          /\ more[Len(agents) + 1].key = key /\ more[Len(agents) + 1].open
          /\ \A i \in 1..Len(agents) : more[i] = agents[i]
      BY <1>0, <3>8
    <3> HIDE DEF more
    <3>10. PICK gone : gone = Values(cache) \ Values(cache')
      OBVIOUS
    <3>11. agents' = Dispose(more, gone)
      BY <3>3, <3>10 DEF Evict
    <3>12. /\ agents' \in Seq(Agents) /\ Len(agents') = Len(agents) + 1
           /\ \A i \in 1..Len(agents) + 1 :
                /\ agents'[i].key = more[i].key
                /\ i \notin gone => agents'[i] = more[i]
                /\ agents'[i].open => more[i].open
                /\ i \in gone /\ kind # "undici" => ~agents'[i].open
      BY <3>9, <3>11, DisposeFacts
    <3>13. ASSUME NEW i \in 1..Len(cache')
           PROVE  /\ cache'[i].val \in 1..Len(agents')
                  /\ agents'[cache'[i].val].open /\ agents'[cache'[i].val].key = cache'[i].key
      <4>0. cache'[i].val \in Values(cache')
        BY <3>6 DEF Values
      <4>1. cache'[i].val \notin gone
        BY <3>10, <4>0
      <4>2. CASE cache'[i] = entry
        BY <1>0, <3>9, <3>12, <4>1, <4>2, SMTT(60)
      <4>3. ASSUME NEW k \in 1..Len(cache), cache'[i] = cache[k]
            PROVE  /\ cache'[i].val \in 1..Len(agents')
                   /\ agents'[cache'[i].val].open /\ agents'[cache'[i].val].key = cache'[i].key
        <5>1. /\ cache[k].val \in 1..Len(agents)
              /\ agents[cache[k].val].open /\ agents[cache[k].val].key = cache[k].key
          BY DEF FactoryInv, AgentInv
        <5> QED
          BY <1>0, <3>9, <3>12, <4>1, <4>3, <5>1
      <4> QED
        BY <3>6, <4>2, <4>3
    <3>14. ASSUME kind # "undici", MaxEntries > 0, NEW i \in 1..Len(agents'), agents'[i].open
           PROVE  \E k \in 1..Len(cache') : cache'[k].val = i
      <4>1. i \notin gone
        BY <3>12, <3>14
      <4>2. CASE i = Len(agents) + 1
        BY <3>6, <3>14, <4>2
      <4>3. CASE i \in 1..Len(agents)
        <5>1. agents[i].open
          BY <3>9, <3>12, <3>14, <4>3
        <5>2. i \in Values(cache)
          BY <1>0, <3>14, <4>3, <5>1 DEF FactoryInv, AgentInv, Values
        <5>3. i \in Values(cache')
          BY <3>10, <4>1, <5>2
        <5> QED
          BY <3>6, <5>3 DEF Values
      <4> QED
        BY <1>0, <3>12, <4>2, <4>3
    <3>15. AgentInv'
      BY <2>1, <3>13, <3>14 DEF FactoryInv, AgentInv
    <3> QED
      BY <1>0, <2>1, <3>2, <3>6, <3>7, <3>12, <3>15 DEF FactoryInv
  <2> QED
    BY <1>0, <1>4, <2>5, <2>6 DEF res
<1> QED
  BY <1>2, <1>3, <1>4

\* clear, destroy and dispose: nothing cached, nothing used, nothing left open
\* by the agent factory.
LEMMA DestroyKeeps ==
  ASSUME FactoryInv, FactoryDestroy, settings' \in Loaded, kind' = kind
  PROVE  FactoryInv' /\ Len(agents') = Len(agents) /\ cache' = <<>>
<1>1. /\ cache' = <<>> /\ direct' = 0 /\ used' = <<>>
      /\ agents' = Dispose(agents, Values(cache) \cup {direct})
  BY DEF FactoryDestroy
<1>2. PICK ids : ids = Values(cache) \cup {direct}
  OBVIOUS
<1>3. agents \in Seq(Agents) /\ Len(agents) \in Nat
  BY DEF FactoryInv
<1>4. /\ agents' \in Seq(Agents) /\ Len(agents') = Len(agents)
      /\ \A i \in 1..Len(agents) :
           /\ agents'[i].open => agents[i].open
           /\ i \in ids /\ kind # "undici" => ~agents'[i].open
  BY <1>1, <1>2, <1>3, DisposeFacts
<1>5. cache' \in Seq(Entries) /\ used' \in Seq(CacheKeys) /\ Len(cache') = 0 /\ Len(used') = 0
  BY <1>1
<1>6. RecentOf(cache, used)'
  BY <1>5, MaxEntriesAssumption DEF RecentOf, Distinct
<1>7. ASSUME kind # "undici", MaxEntries > 0, NEW i \in 1..Len(agents'), agents'[i].open
      PROVE  FALSE
  <2>1. agents[i].open /\ i \in 1..Len(agents)
    BY <1>4, <1>7
  <2>2. i \in Values(cache)
    BY <1>7, <2>1 DEF FactoryInv, AgentInv, Values
  <2> QED
    BY <1>2, <1>4, <1>7, <2>1, <2>2
<1>8. AgentInv'
  <2>1. 1..Len(cache') = {}
    BY <1>5
  <2> QED
    BY <1>1, <1>7, <2>1 DEF AgentInv
<1> QED
  BY <1>1, <1>4, <1>5, <1>6, <1>8 DEF FactoryInv

-----------------------------------------------------------------------------
(* The controller and the adapters *)

Counters == [resolveCount : Nat, proxiedCount : Nat, directCount : Nat,
             noProxyBypassCount : Nat, cacheHitCount : Nat]

ControllerInv ==
  /\ env \in DOMAIN Environment
  /\ ctl = [settings |-> ctl.settings, disposed |-> ctl.disposed]
  /\ ctl.settings \in Loaded /\ ctl.disposed \in BOOLEAN
  /\ stats \in Counters /\ conf \in [http : Nat, https : Nat]
  /\ ControllerHonest

LEMMA RecordFacts ==
  ASSUME NEW s \in Counters, NEW res, NEW matched, res.viaProxy \in BOOLEAN,
         res.fromCache \in BOOLEAN, matched \in BOOLEAN
  PROVE  LET r == recordDecision(s, res, matched)
         IN  /\ r \in Counters
             /\ r.resolveCount = s.resolveCount + 1
             /\ r.proxiedCount = s.proxiedCount + (IF res.viaProxy THEN 1 ELSE 0)
             /\ r.directCount = s.directCount + (IF res.viaProxy THEN 0 ELSE 1)
             /\ r.noProxyBypassCount = s.noProxyBypassCount + (IF ~res.viaProxy /\ matched THEN 1 ELSE 0)
             /\ r.cacheHitCount = s.cacheHitCount + (IF res.fromCache THEN 1 ELSE 0)
<1> DEFINE a == IF res.viaProxy THEN 1 ELSE 0
           b == IF res.viaProxy THEN 0 ELSE 1
           c == IF ~res.viaProxy /\ matched THEN 1 ELSE 0
           d == IF res.fromCache THEN 1 ELSE 0
           r == recordDecision(s, res, matched)
<1>1. a \in Nat /\ b \in Nat /\ c \in Nat /\ d \in Nat
  OBVIOUS
<1>2. r = [s EXCEPT !.resolveCount = s.resolveCount + 1, !.proxiedCount = s.proxiedCount + a,
                    !.directCount = s.directCount + b,
                    !.noProxyBypassCount = s.noProxyBypassCount + c,
                    !.cacheHitCount = s.cacheHitCount + d]
  BY DEF recordDecision
<1> HIDE DEF a, b, c, d, r
<1>3. /\ r \in Counters /\ r.resolveCount = s.resolveCount + 1
      /\ r.proxiedCount = s.proxiedCount + a /\ r.directCount = s.directCount + b
      /\ r.noProxyBypassCount = s.noProxyBypassCount + c /\ r.cacheHitCount = s.cacheHitCount + d
  <2>1. PICK n1 \in Nat, n2 \in Nat, n3 \in Nat, n4 \in Nat, n5 \in Nat :
          /\ n1 = s.resolveCount + 1 /\ n2 = s.proxiedCount + a /\ n3 = s.directCount + b
          /\ n4 = s.noProxyBypassCount + c /\ n5 = s.cacheHitCount + d
    <3>1. /\ s.resolveCount \in Nat /\ s.proxiedCount \in Nat /\ s.directCount \in Nat
          /\ s.noProxyBypassCount \in Nat /\ s.cacheHitCount \in Nat
      BY DEF Counters
    <3>2. /\ s.resolveCount + 1 \in Nat /\ s.proxiedCount + a \in Nat /\ s.directCount + b \in Nat
          /\ s.noProxyBypassCount + c \in Nat /\ s.cacheHitCount + d \in Nat
      BY <1>1, <3>1
    <3> QED
      BY <3>2, Zenon
  <2>2. r = [s EXCEPT !.resolveCount = n1, !.proxiedCount = n2, !.directCount = n3,
                      !.noProxyBypassCount = n4, !.cacheHitCount = n5]
    BY <1>2, <2>1
  <2>3. /\ r \in Counters /\ r.resolveCount = n1 /\ r.proxiedCount = n2 /\ r.directCount = n3
        /\ r.noProxyBypassCount = n4 /\ r.cacheHitCount = n5
    BY <2>2 DEF Counters
  <2> QED
    BY <2>1, <2>3
<1> QED
  BY <1>3 DEF a, b, c, d, r

\* One decision, of the controller or of a factory alone.
LEMMA DecisionKeeps ==
  ASSUME FactoryInv, ControllerInv, NEW target, Resolve(target), UNCHANGED <<kind, env>>
  PROVE  /\ FactoryInv'
         /\ conf' \in [http : Nat, https : Nat] => ControllerInv'
         /\ kind # "undici" => Resolution(target).agent \in Nat
<1>1. FactoryResolve(target)
  BY DEF Resolve, ControllerResolve
<1>2. /\ FactoryInv'
      /\ kind # "undici" =>
           /\ Len(agents') = Len(agents) + (IF Resolution(target).viaProxy /\ ~Resolution(target).fromCache
                                            THEN 1 ELSE 0)
           /\ Resolution(target).fromCache => Resolution(target).viaProxy
           /\ Resolution(target).agent \in Nat
  BY <1>1, ResolveKeeps
<1>3. CASE kind # "runtime"
  <2>1. UNCHANGED <<ctl, stats, last>>
    BY <1>3 DEF Resolve
  <2> QED
    BY <1>2, <1>3, <2>1 DEF ControllerInv, ControllerHonest
<1>4. CASE kind = "runtime"
  <2> DEFINE res == Resolution(target)
             matched == shouldBypassProxy(target, ctl.settings.noProxy)
  <2>1. /\ ctl' = [ctl EXCEPT !.disposed = FALSE] /\ stats' = recordDecision(stats, res, matched)
        /\ last'.viaProxy = res.viaProxy /\ last'.matchedNoProxy = matched
        /\ UNCHANGED settings
    BY <1>1, <1>4 DEF Resolve, ControllerResolve, FactoryResolve
  <2>2. res.viaProxy \in BOOLEAN /\ res.fromCache \in BOOLEAN
    BY DEF Resolution
  <2>3. matched \in BOOLEAN
    BY DEF shouldBypassProxy
  <2>4. ctl.settings = settings /\ settings \in Loaded
    BY <1>4 DEF ControllerInv, ControllerHonest, FactoryInv
  <2>5. ~(res.viaProxy /\ matched)
    BY <2>4, RouteFacts DEF Resolution
  <2> HIDE DEF res, matched
  <2>6. /\ stats' \in Counters
        /\ stats'.resolveCount = stats.resolveCount + 1
        /\ stats'.proxiedCount = stats.proxiedCount + (IF res.viaProxy THEN 1 ELSE 0)
        /\ stats'.directCount = stats.directCount + (IF res.viaProxy THEN 0 ELSE 1)
        /\ stats'.noProxyBypassCount = stats.noProxyBypassCount + (IF ~res.viaProxy /\ matched THEN 1 ELSE 0)
        /\ stats'.cacheHitCount = stats.cacheHitCount + (IF res.fromCache THEN 1 ELSE 0)
    BY <2>1, <2>2, <2>3, RecordFacts DEF ControllerInv
  <2>7. /\ stats.resolveCount \in Nat /\ stats.proxiedCount \in Nat /\ stats.directCount \in Nat
        /\ stats.noProxyBypassCount \in Nat /\ stats.cacheHitCount \in Nat
        /\ Len(agents) \in Nat
    BY DEF ControllerInv, Counters, FactoryInv
  <2>8. /\ stats.resolveCount = stats.proxiedCount + stats.directCount
        /\ stats.noProxyBypassCount <= stats.directCount
        /\ stats.proxiedCount - stats.cacheHitCount = Len(agents)
    BY <1>4 DEF ControllerInv, ControllerHonest
  <2>9. /\ Len(agents') = Len(agents) + (IF res.viaProxy /\ ~res.fromCache THEN 1 ELSE 0)
        /\ res.fromCache => res.viaProxy
    BY <1>2, <1>4 DEF res
  <2>10. /\ stats'.resolveCount = stats'.proxiedCount + stats'.directCount
         /\ stats'.noProxyBypassCount <= stats'.directCount
         /\ stats'.proxiedCount - stats'.cacheHitCount = Len(agents')
    BY <2>2, <2>3, <2>6, <2>7, <2>8, <2>9, SMTT(60)
  <2>11. ctl' = [settings |-> settings, disposed |-> FALSE]
    BY <2>1, <2>4 DEF ControllerInv
  <2>12. ControllerHonest'
    BY <2>1, <2>5, <2>10, <2>11 DEF ControllerHonest
  <2>13. conf' \in [http : Nat, https : Nat] => ControllerInv'
    BY <2>4, <2>6, <2>11, <2>12 DEF ControllerInv
  <2> QED
    BY <1>2, <2>13
<1> QED
  BY <1>3, <1>4

\* New settings, or the old ones after a clear: the controller's copy follows.
LEMMA SettingsKeeps ==
  ASSUME FactoryInv, ControllerInv, FactoryDestroy, settings' \in Loaded,
         UNCHANGED <<kind, stats, last, conf>>, env' \in DOMAIN Environment,
         ctl' = [settings |-> ctl'.settings, disposed |-> ctl'.disposed],
         ctl'.settings \in Loaded, ctl'.disposed \in BOOLEAN,
         kind = "runtime" => ctl'.settings = settings'
  PROVE  FactoryInv' /\ ControllerInv'
<1>1. FactoryInv' /\ Len(agents') = Len(agents) /\ cache' = <<>>
  BY DestroyKeeps
<1>2. ControllerHonest'
  BY <1>1 DEF ControllerInv, ControllerHonest
<1> QED
  BY <1>1, <1>2 DEF ControllerInv

-----------------------------------------------------------------------------
(* The requests *)

\* A request that was not made yet has nothing running; one that is under way
\* listens to its caller until it is being destroyed, and has read no more than the limit unless it is being destroyed for its size;
\* and only one that is over has succeeded.
Watched(q) ==
  /\ q.phase \in {"idle", "resolved"} =>
       q.outcome = "none" /\ ~q.timer /\ ~q.listen /\ q.doom = "none"
  /\ Json /\ q.phase \in {"sent", "body"} /\ q.outcome = "none" =>
       /\ q.doom # "none" \/ (~q.aborted /\ (q.timed => q.timer))
       /\ kind = "runtime" => q.doom # "none" \/ q.listen
  /\ q.outcome # "none" => ~q.timer /\ ~q.listen
  /\ q.outcome = "ok" => q.bytes <= MaxResponse /\ q.phase = "closed"
  /\ kind = "undici" => q.doom # "size"
  /\ q.phase # "closed" /\ q.doom # "size" => q.bytes <= MaxResponse

WatchInv == req \in [Request -> RequestState] /\ \A r \in Request : Watched(req[r])

Ending == {"ok", "parse", "status", "size", "aborted", "error", "timeout", "invalid"}

LEMMA SetWatched ==
  ASSUME WatchInv, NEW r \in Request, NEW q \in RequestState, Set(r, q), kind' = kind, Watched(q)
  PROVE  WatchInv'
<1>1. req' = [req EXCEPT ![r] = q]
  BY DEF Set
<1>2. req' \in [Request -> RequestState] /\ \A x \in Request : req'[x] = IF x = r THEN q ELSE req[x]
  BY <1>1 DEF WatchInv
<1>3. Json' = Json
  BY DEF Json
<1>4. \A x \in Request : Watched(req[x])'
  <2> TAKE x \in Request
  <2>1. CASE x = r
    BY <1>2, <1>3, <2>1 DEF Watched
  <2>2. CASE x # r
    <3>1. req'[x] = req[x] /\ Watched(req[x])
      BY <1>2, <2>2 DEF WatchInv
    <3> QED
      BY <1>3, <3>1 DEF Watched
  <2> QED
    BY <2>1, <2>2
<1> QED
  BY <1>2, <1>4 DEF WatchInv

LEMMA SettleFacts ==
  ASSUME NEW q \in RequestState, q.outcome # "none" => ~q.timer /\ ~q.listen, NEW how \in Ending
  PROVE  LET r == Settle(q, how)
         IN  /\ r \in RequestState /\ r.outcome \in {q.outcome, how} /\ r.outcome # "none"
             /\ ~r.timer /\ ~r.listen
             /\ r.phase = q.phase /\ r.doom = q.doom /\ r.bytes = q.bytes
<1>1. CASE q.outcome # "none"
  BY <1>1 DEF Settle
<1>2. CASE q.outcome = "none"
  <2>1. Settle(q, how) = [q EXCEPT !.outcome = how, !.timer = FALSE, !.listen = FALSE]
    BY <1>2 DEF Settle
  <2> QED
    BY <1>2, <2>1 DEF RequestState, Ending
<1> QED
  BY <1>1, <1>2

\* A request that is settled and over, however that came.
LEMMA CloseFacts ==
  ASSUME NEW q \in RequestState, NEW how \in Ending, NEW phase \in {"lost", "closed"},
         q.outcome # "none" => ~q.timer /\ ~q.listen,
         q.outcome = "ok" \/ how = "ok" => q.bytes <= MaxResponse,
         kind = "undici" => q.doom # "size",
         phase = "lost" => how # "ok" /\ q.phase = "body" /\ Watched(q)
  PROVE  LET r == [Settle(q, how) EXCEPT !.phase = phase]
         IN  r \in RequestState /\ Watched(r)
<1>1. PICK s \in RequestState :
        /\ s = Settle(q, how) /\ s.outcome \in {q.outcome, how} /\ s.outcome # "none"
        /\ ~s.timer /\ ~s.listen
        /\ s.phase = q.phase /\ s.doom = q.doom /\ s.bytes = q.bytes
  BY SettleFacts
<1>2. PICK t \in RequestState : t = [s EXCEPT !.phase = phase]
  BY DEF RequestState
<1>3. /\ t.phase = phase /\ t.outcome = s.outcome /\ ~t.timer /\ ~t.listen /\ t.doom = s.doom
      /\ t.bytes = s.bytes
  BY <1>1, <1>2 DEF RequestState
<1>4. Watched(t)
  BY <1>1, <1>3 DEF Watched
<1> QED
  BY <1>1, <1>2, <1>4

\* Settled for its size and being destroyed.
LEMMA OversizeFacts ==
  ASSUME NEW q \in RequestState, Json, q.phase \in {"sent", "body"}, q.doom = "none",
         q.outcome # "none" => ~q.timer /\ ~q.listen, q.outcome # "ok"
  PROVE  LET r == DestroyRequest(Settle(q, "size"), "size")
         IN  r \in RequestState /\ Watched(r)
<1>1. CASE q.outcome # "none"
  <2>1. DestroyRequest(Settle(q, "size"), "size") = [q EXCEPT !.doom = "size"]
    BY <1>1 DEF DestroyRequest, Settle
  <2> QED
    BY <1>1, <2>1 DEF RequestState, Watched, Json
<1>2. CASE q.outcome = "none"
  <2>1. DestroyRequest(Settle(q, "size"), "size")
          = [q EXCEPT !.outcome = "size", !.timer = FALSE, !.listen = FALSE, !.doom = "size"]
    BY <1>2 DEF DestroyRequest, Settle, RequestState
  <2> QED
    BY <1>2, <2>1 DEF RequestState, Watched, Json
<1> QED
  BY <1>1, <1>2

LEMMA SignalFacts ==
  ASSUME NEW q \in RequestState, NEW how \in {"timeout", "aborted"}
  PROVE  LET r == DestroyRequest(q, how)
         IN  /\ r \in RequestState /\ r.doom # "none" /\ (q.doom # "none" => r.doom = q.doom)
             /\ (q.doom = "none" => r.doom = how)
             /\ r.phase = q.phase /\ r.outcome = q.outcome /\ r.bytes = q.bytes
             /\ r.timer = q.timer /\ r.listen = q.listen
             /\ r.timed = q.timed /\ r.aborted = q.aborted
<1>1. CASE q.doom # "none"
  BY <1>1 DEF DestroyRequest
<1>2. CASE q.doom = "none"
  <2>1. DestroyRequest(q, how) = [q EXCEPT !.doom = how]
    BY <1>2 DEF DestroyRequest
  <2> QED
    BY <1>2, <2>1 DEF RequestState
<1> QED
  BY <1>1, <1>2

\* Every step a request takes by itself: its answer, its end, its timer, the
\* caller's signal.
RequestStep(r) ==
  \/ ExecuteJsonRequest(r) \/ Headers(r) \/ Data(r) \/ End(r)
  \/ ControlPlanePost(r) \/ FetchAnswers(r) \/ ReadBody(r) \/ FetchJsonDone(r)
  \/ ConnectionFails(r) \/ DestroyedError(r) \/ TimerFires(r) \/ Abort(r)

LEMMA JsonRequestKeeps ==
  ASSUME WatchInv, NEW r \in Request, kind' = kind,
         ExecuteJsonRequest(r) \/ Headers(r) \/ Data(r) \/ End(r) \/ ConnectionFails(r)
  PROVE  WatchInv'
<1>0. PICK q \in RequestState : q = req[r] /\ Watched(q)
  BY DEF WatchInv
<1>1. CASE ExecuteJsonRequest(r)
  <2>0. q.phase = "resolved" /\ q.outcome = "none" /\ q.doom = "none" /\ q.bytes <= MaxResponse
    BY <1>0, <1>1 DEF ExecuteJsonRequest, Watched
  <2>1. CASE q.aborted
    <3>1. PICK n \in RequestState : n = [Settle(q, "aborted") EXCEPT !.phase = "closed"] /\ Watched(n)
      BY <1>0, <2>0, CloseFacts DEF Ending
    <3>2. Set(r, n)
      BY <1>0, <1>1, <2>1, <3>1 DEF ExecuteJsonRequest
    <3> QED
      BY <3>1, <3>2, SetWatched
  <2>2. CASE ~q.aborted
    <3>1. PICK b \in BOOLEAN : b = (kind = "runtime")
      OBVIOUS
    <3>2. PICK n \in RequestState :
            n = [q EXCEPT !.phase = "sent", !.timer = q.timed, !.listen = b]
      BY DEF RequestState
    <3>3. Watched(n)
      <4>1. /\ n.phase = "sent" /\ n.outcome = "none" /\ n.doom = "none" /\ n.bytes = q.bytes
            /\ n.timer = q.timed /\ n.timed = q.timed /\ n.aborted = q.aborted /\ n.listen = b
        BY <2>0, <3>2 DEF RequestState
      <4>2. ~n.aborted /\ (n.timed => n.timer) /\ (kind = "runtime" => n.listen)
        BY <2>2, <3>1, <4>1, Zenon
      <4> QED
        BY <2>0, <4>1, <4>2 DEF Watched
    <3>4. Set(r, n)
      BY <1>0, <1>1, <2>2, <3>1, <3>2 DEF ExecuteJsonRequest
    <3> QED
      BY <3>3, <3>4, SetWatched
  <2> QED
    BY <2>1, <2>2
<1>2. CASE Headers(r)
  <2>0. Json /\ q.phase = "sent" /\ q.doom = "none"
    BY <1>0, <1>2 DEF Headers
  <2>1. CASE Set(r, HeadersSeen(q))
    <3>1. PICK n \in RequestState : n = [q EXCEPT !.phase = "body"]
      BY DEF RequestState
    <3>2. Watched(n)
      BY <1>0, <2>0, <3>1 DEF Watched, RequestState
    <3>3. Set(r, n)
      BY <2>1, <3>1 DEF HeadersSeen
    <3> QED
      BY <3>2, <3>3, SetWatched
  <2>2. CASE Set(r, DestroyRequest(Settle(q, "size"), "size"))
    <3>1. PICK n \in RequestState : n = DestroyRequest(Settle(q, "size"), "size") /\ Watched(n)
      BY <1>0, <2>0, OversizeFacts DEF Watched
    <3> QED
      BY <2>2, <3>1, SetWatched
  <2> QED
    BY <1>0, <1>2, <2>1, <2>2 DEF Headers
<1>3. CASE Data(r)
  <2>1. PICK b \in Nat : b = q.bytes + 1
    BY DEF RequestState
  <2>2. PICK m \in RequestState : m = [q EXCEPT !.bytes = b]
    BY DEF RequestState
  <2>3. m = [req[r] EXCEPT !.bytes = @ + 1]
    BY <1>0, <2>1, <2>2
  <2>4. /\ Json /\ m.phase = "body" /\ m.doom = "none"
        /\ Set(r, IF m.bytes <= MaxResponse THEN m ELSE DestroyRequest(Settle(m, "size"), "size"))
    BY <1>3, <2>3 DEF Data
  <2>5. /\ q.phase = m.phase /\ q.doom = m.doom /\ q.outcome = m.outcome /\ q.timer = m.timer
        /\ q.listen = m.listen /\ q.timed = m.timed /\ q.aborted = m.aborted
    BY <2>2 DEF RequestState
  <2>6. CASE m.bytes <= MaxResponse
    <3>1. Watched(m)
      BY <1>0, <2>4, <2>5, <2>6 DEF Watched
    <3> QED
      BY <2>4, <2>6, <3>1, SetWatched
  <2>7. CASE ~(m.bytes <= MaxResponse)
    <3>1. PICK n \in RequestState : n = DestroyRequest(Settle(m, "size"), "size") /\ Watched(n)
      BY <1>0, <2>4, <2>5, OversizeFacts DEF Watched
    <3> QED
      BY <2>4, <2>7, <3>1, SetWatched
  <2> QED
    BY <2>6, <2>7
<1>4. CASE End(r)
  <2>0. q.phase = "body" /\ q.doom = "none"
    BY <1>0, <1>4 DEF End
  <2>1. PICK how \in {"ok", "parse", "status"} : Set(r, [Settle(q, how) EXCEPT !.phase = "closed"])
    BY <1>0, <1>4 DEF End
  <2>2. PICK n \in RequestState : n = [Settle(q, how) EXCEPT !.phase = "closed"] /\ Watched(n)
    <3>1. /\ q.outcome # "none" => ~q.timer /\ ~q.listen
          /\ q.outcome = "ok" => q.bytes <= MaxResponse
          /\ kind = "undici" => q.doom # "size"
          /\ q.bytes <= MaxResponse
      BY <1>0, <2>0 DEF Watched
    <3>2. how \in Ending
      BY DEF Ending
    <3> QED
      BY <3>1, <3>2, CloseFacts
  <2> QED
    BY <2>1, <2>2, SetWatched
<1>5. CASE ConnectionFails(r)
  <2>0. q.doom = "none"
    BY <1>0, <1>5 DEF ConnectionFails
  <2>1. PICK how \in {"aborted", "error"}, phase \in {"lost", "closed"} :
          /\ Set(r, [Settle(q, how) EXCEPT !.phase = phase])
          /\ phase = "lost" => q.phase = "body"
    BY <1>0, <1>5 DEF ConnectionFails
  <2>2. PICK n \in RequestState : n = [Settle(q, how) EXCEPT !.phase = phase] /\ Watched(n)
    <3>1. /\ q.outcome # "none" => ~q.timer /\ ~q.listen
          /\ q.outcome = "ok" => q.bytes <= MaxResponse
          /\ kind = "undici" => q.doom # "size"
      BY <1>0 DEF Watched
    <3>2. how \in Ending /\ how # "ok"
      BY DEF Ending
    <3> QED
      BY <1>0, <2>1, <3>1, <3>2, CloseFacts
  <2> QED
    BY <2>1, <2>2, SetWatched
<1> QED
  BY <1>1, <1>2, <1>3, <1>4, <1>5

LEMMA FetchKeeps ==
  ASSUME WatchInv, NEW r \in Request, kind' = kind,
         FetchAnswers(r) \/ ReadBody(r) \/ FetchJsonDone(r)
  PROVE  WatchInv'
<1>0. PICK q \in RequestState : q = req[r] /\ Watched(q)
  BY DEF WatchInv
<1>1. kind = "undici" /\ ~Json /\ q.phase \in {"sent", "body"} /\ q.doom # "size" /\ q.bytes <= MaxResponse
  <2>1. kind = "undici" /\ q.phase \in {"sent", "body"}
    BY <1>0 DEF FetchAnswers, ReadBody, FetchJsonDone, RequestState
  <2> QED
    BY <1>0, <2>1 DEF Watched, Json
<1>2. ASSUME NEW how \in Ending, Set(r, [Settle(q, how) EXCEPT !.phase = "closed"])
      PROVE  WatchInv'
  <2>1. PICK n \in RequestState : n = [Settle(q, how) EXCEPT !.phase = "closed"] /\ Watched(n)
    BY <1>0, <1>1, CloseFacts DEF Watched
  <2> QED
    BY <1>2, <2>1, SetWatched
<1>3. CASE FetchAnswers(r)
  <2>1. CASE Set(r, [cleanupAbortControl(q) EXCEPT !.phase = "body"])
    <3>1. PICK n \in RequestState : n = [q EXCEPT !.phase = "body", !.timer = FALSE, !.listen = FALSE]
      BY DEF RequestState
    <3>0. PICK m \in RequestState : m = cleanupAbortControl(q)
      BY DEF RequestState, cleanupAbortControl
    <3>2. [cleanupAbortControl(q) EXCEPT !.phase = "body"] = n
      BY <3>0, <3>1 DEF cleanupAbortControl, RequestState
    <3>3. Watched(n)
      BY <1>0, <1>1, <3>1 DEF Watched, RequestState
    <3> QED
      BY <2>1, <3>2, <3>3, SetWatched
  <2>2. CASE Set(r, [Settle(q, "error") EXCEPT !.phase = "closed"])
    BY <1>2, <2>2 DEF Ending
  <2> QED
    BY <1>0, <1>3, <2>1, <2>2 DEF FetchAnswers
<1>4. CASE ReadBody(r)
  <2>1. PICK b \in Nat : b = q.bytes + 1
    BY DEF RequestState
  <2>2. PICK m \in RequestState : m = [q EXCEPT !.bytes = b]
    BY DEF RequestState
  <2>3. m = [req[r] EXCEPT !.bytes = @ + 1]
    BY <1>0, <2>1, <2>2
  <2>4. /\ q.phase = m.phase /\ q.doom = m.doom /\ q.outcome = m.outcome /\ q.timer = m.timer
        /\ q.listen = m.listen
    BY <2>2 DEF RequestState
  <2>5. CASE m.bytes <= MaxResponse /\ Set(r, m)
    <3>1. Watched(m)
      BY <1>0, <1>1, <2>4, <2>5 DEF Watched
    <3> QED
      BY <2>5, <3>1, SetWatched
  <2>6. CASE Set(r, [Settle(m, "size") EXCEPT !.phase = "closed"])
    <3>1. PICK n \in RequestState : n = [Settle(m, "size") EXCEPT !.phase = "closed"] /\ Watched(n)
      <4>1. m.outcome # "ok" /\ m.doom # "size" /\ (m.outcome # "none" => ~m.timer /\ ~m.listen)
        BY <1>0, <1>1, <2>4 DEF Watched
      <4> QED
        BY <4>1, CloseFacts DEF Ending
    <3> QED
      BY <2>6, <3>1, SetWatched
  <2>7. CASE Set(r, [Settle(q, "size") EXCEPT !.phase = "closed"])
    BY <1>2, <2>7 DEF Ending
  <2>8. CASE Set(r, [Settle(q, "error") EXCEPT !.phase = "closed"])
    BY <1>2, <2>8 DEF Ending
  <2> QED
    BY <1>0, <1>4, <2>3, <2>5, <2>6, <2>7, <2>8 DEF ReadBody
<1>5. CASE FetchJsonDone(r)
  BY <1>0, <1>2, <1>5 DEF FetchJsonDone, Ending
<1> QED
  BY <1>3, <1>4, <1>5

LEMMA SignalsKeep ==
  ASSUME WatchInv, NEW r \in Request, kind' = kind,
         ControlPlanePost(r) \/ DestroyedError(r) \/ TimerFires(r) \/ Abort(r)
  PROVE  WatchInv'
<1>0. PICK q \in RequestState : q = req[r] /\ Watched(q)
  BY DEF WatchInv
<1>1. CASE ControlPlanePost(r)
  <2>1. PICK report \in {"ok", "control_plane_http_error", "request_timeout", "request_aborted", "raw_error"} :
          report = normalizeReport(q.outcome)
    BY DEF normalizeReport, inferTransportErrorCode
  <2>2. PICK n \in RequestState : n = [q EXCEPT !.report = report]
    BY DEF RequestState
  <2>3. Watched(n)
    BY <1>0, <2>2 DEF Watched, RequestState
  <2>4. Set(r, n)
    BY <1>0, <1>1, <2>1, <2>2 DEF ControlPlanePost
  <2> QED
    BY <2>3, <2>4, SetWatched
<1>2. CASE DestroyedError(r)
  <2>1. PICK how \in {"size", "timeout", "aborted"} :
          how = (IF kind = "undici" /\ q.timed /\ ~q.timer THEN "timeout" ELSE q.doom)
    BY <1>0, <1>2 DEF DestroyedError, RequestState
  <2>2. PICK n \in RequestState : n = [Settle(q, how) EXCEPT !.phase = "closed"] /\ Watched(n)
    <3>1. /\ q.outcome # "none" => ~q.timer /\ ~q.listen
          /\ q.outcome = "ok" => q.bytes <= MaxResponse
          /\ kind = "undici" => q.doom # "size"
      BY <1>0 DEF Watched
    <3>2. how \in Ending /\ how # "ok"
      BY DEF Ending
    <3> QED
      BY <3>1, <3>2, CloseFacts
  <2>3. Set(r, n)
    BY <1>0, <1>2, <2>1, <2>2 DEF DestroyedError
  <2> QED
    BY <2>2, <2>3, SetWatched
<1>3. CASE TimerFires(r)
  <2>0. q.timer
    BY <1>0, <1>3 DEF TimerFires
  <2>1. PICK m \in RequestState :
          /\ m = DestroyRequest(q, "timeout")
          /\ m.doom # "none" /\ (q.doom # "none" => m.doom = q.doom) /\ (q.doom = "none" => m.doom = "timeout")
          /\ m.phase = q.phase /\ m.outcome = q.outcome /\ m.bytes = q.bytes
          /\ m.timer = q.timer /\ m.listen = q.listen
    BY <1>0, SignalFacts
  <2>2. PICK n \in RequestState : n = [m EXCEPT !.timer = FALSE]
    BY DEF RequestState
  <2>3. /\ n.doom = m.doom /\ n.phase = m.phase /\ n.outcome = m.outcome /\ n.bytes = m.bytes
        /\ ~n.timer /\ n.listen = m.listen
    BY <2>2 DEF RequestState
  <2>4. Watched(n)
    BY <1>0, <2>0, <2>1, <2>3 DEF Watched
  <2>5. Set(r, n)
    BY <1>0, <1>3, <2>1, <2>2 DEF TimerFires
  <2> QED
    BY <2>4, <2>5, SetWatched
<1>4. CASE Abort(r)
  <2>1. PICK m \in RequestState : m = [q EXCEPT !.aborted = TRUE, !.listen = FALSE]
    BY DEF RequestState
  <2>2. /\ m.doom = q.doom /\ m.phase = q.phase /\ m.outcome = q.outcome /\ m.bytes = q.bytes
        /\ m.timer = q.timer /\ ~m.listen /\ m.timed = q.timed /\ m.aborted
    BY <2>1 DEF RequestState
  <2>3. kind = "runtime" \/ ~Json
    BY <1>4 DEF Abort, Json
  <2>4. CASE q.listen
    <3>1. PICK n \in RequestState :
            /\ n = DestroyRequest(m, "aborted")
            /\ n.doom # "none" /\ (m.doom # "none" => n.doom = m.doom) /\ (m.doom = "none" => n.doom = "aborted")
            /\ n.phase = m.phase /\ n.outcome = m.outcome /\ n.bytes = m.bytes
            /\ n.timer = m.timer /\ n.listen = m.listen
      BY SignalFacts
    <3>2. Watched(n)
      BY <1>0, <2>2, <2>4, <3>1 DEF Watched
    <3>3. Set(r, n)
      BY <1>0, <1>4, <2>1, <2>4, <3>1 DEF Abort
    <3> QED
      BY <3>2, <3>3, SetWatched
  <2>5. CASE ~q.listen
    <3>1. Set(r, m)
      BY <1>0, <1>4, <2>1, <2>5 DEF Abort
    <3>2. Watched(m)
      BY <1>0, <2>2, <2>3, <2>5 DEF Watched
    <3> QED
      BY <3>1, <3>2, SetWatched
  <2> QED
    BY <2>4, <2>5
<1> QED
  BY <1>1, <1>2, <1>3, <1>4

\* requestJson and fetchJson: refused, or routed and under way.
LEMMA RequestStarts ==
  ASSUME FactoryInv, ControllerInv, WatchInv, NEW r \in Request, NEW target,
         RequestJson(r, target) \/ PerformFetch(r, target)
  PROVE  WatchInv' /\ kind' = kind /\ (Transport \/ (Resolve(target) /\ UNCHANGED <<kind, env, conf>>))
<1>0. PICK q \in RequestState : q = req[r] /\ Watched(q)
  BY DEF WatchInv
<1>1. /\ kind' = kind /\ q.phase = "idle"
      /\ Transport \/ (Resolve(target) /\ UNCHANGED <<kind, env, conf>>)
  BY <1>0 DEF RequestJson, PerformFetch, Transport
<1>2. q.outcome = "none" /\ ~q.timer /\ ~q.listen /\ q.doom = "none" /\ q.bytes <= MaxResponse
  BY <1>0, <1>1 DEF Watched
<1>3. CASE RequestJson(r, target)
  <2>1. ASSUME NEW timed \in BOOLEAN, Set(r, [q EXCEPT !.phase = "resolved", !.timed = timed])
        PROVE  WatchInv'
    <3>1. PICK n \in RequestState : n = [q EXCEPT !.phase = "resolved", !.timed = timed]
      BY DEF RequestState
    <3>2. Watched(n)
      BY <1>0, <1>2, <3>1 DEF Watched, RequestState
    <3> QED
      BY <1>1, <2>1, <3>1, <3>2, SetWatched
  <2>2. CASE Set(r, [Settle(q, IF ValidRequest(target) THEN "aborted" ELSE "invalid")
                       EXCEPT !.phase = "closed"])
    <3>1. PICK how \in {"aborted", "invalid"} : how = IF ValidRequest(target) THEN "aborted" ELSE "invalid"
      OBVIOUS
    <3>2. PICK n \in RequestState : n = [Settle(q, how) EXCEPT !.phase = "closed"] /\ Watched(n)
      BY <1>2, CloseFacts DEF Ending
    <3>3. Set(r, n)
      BY <2>2, <3>1, <3>2
    <3> QED
      BY <1>1, <3>2, <3>3, SetWatched
  <2> QED
    BY <1>0, <1>1, <1>3, <2>1, <2>2 DEF RequestJson
<1>4. CASE PerformFetch(r, target)
  <2>1. CASE Set(r, [Settle(q, "invalid") EXCEPT !.phase = "closed"])
    <3>1. PICK n \in RequestState : n = [Settle(q, "invalid") EXCEPT !.phase = "closed"] /\ Watched(n)
      BY <1>2, CloseFacts DEF Ending
    <3> QED
      BY <1>1, <2>1, <3>1, SetWatched
  <2>2. ASSUME NEW timed \in BOOLEAN,
               Set(r, [q EXCEPT !.phase = "sent", !.timed = timed, !.timer = timed,
                                !.listen = ~q.aborted,
                                !.doom = IF q.aborted THEN "aborted" ELSE "none"])
        PROVE  WatchInv'
    <3>1. PICK b \in BOOLEAN, d \in {"none", "aborted"} :
            b = ~q.aborted /\ d = IF q.aborted THEN "aborted" ELSE "none"
      BY DEF RequestState
    <3>2. PICK n \in RequestState :
            n = [q EXCEPT !.phase = "sent", !.timed = timed, !.timer = timed,
                          !.listen = b, !.doom = d]
      BY DEF RequestState
    <3>0. kind = "undici" /\ ~Json
      BY <1>4 DEF PerformFetch, Json
    <3>3. Watched(n)
      BY <1>0, <1>2, <3>0, <3>1, <3>2 DEF Watched, RequestState
    <3>4. Set(r, n)
      BY <2>2, <3>1, <3>2
    <3> QED
      BY <1>1, <3>3, <3>4, SetWatched
  <2> QED
    BY <1>0, <1>1, <1>4, <2>1, <2>2 DEF PerformFetch
<1> QED
  BY <1>1, <1>3, <1>4

LEMMA TransportKeeps ==
  ASSUME FactoryInv, ControllerInv, Transport
  PROVE  FactoryInv' /\ ControllerInv' /\ kind' = kind
<1>1. UNCHANGED <<kind, env, settings, cache, direct, agents, used, ctl, stats, last, conf>>
  BY DEF Transport, factory
<1>2. AgentInv' /\ RecentOf(cache, used)' /\ ControllerHonest'
  BY <1>1 DEF FactoryInv, ControllerInv, AgentInv, RecentOf, Distinct, ControllerHonest
<1> QED
  BY <1>1, <1>2 DEF FactoryInv, ControllerInv

LEMMA WatchUnchanged ==
  ASSUME WatchInv, UNCHANGED <<kind, req>>
  PROVE  WatchInv'
BY DEF WatchInv, Watched, Json

\* Settings, clear, destroy.
LEMMA SettingsStep ==
  ASSUME FactoryInv, ControllerInv, WatchInv,
         UpdateSettings \/ ReloadFromEnvironment \/ Clear \/ DestroyController
  PROVE  FactoryInv' /\ ControllerInv' /\ WatchInv'
<1>1. FactoryDestroy /\ UNCHANGED <<kind, stats, last, conf, req>>
  BY DEF UpdateSettings, ReloadFromEnvironment, Clear, DestroyController, FactorySettings
<1>2. WatchInv'
  BY <1>1, WatchUnchanged
<1>3. settings \in Loaded /\ env \in DOMAIN Environment
  BY DEF FactoryInv, ControllerInv
<1>4. settings' \in Loaded /\ env' \in DOMAIN Environment
  BY <1>3 DEF UpdateSettings, ReloadFromEnvironment, Clear, DestroyController, FactorySettings, Loaded
<1>5. /\ ctl = [settings |-> ctl.settings, disposed |-> ctl.disposed]
      /\ ctl.settings \in Loaded /\ ctl.disposed \in BOOLEAN
      /\ kind = "runtime" => ctl.settings = settings
  BY DEF ControllerInv, ControllerHonest
<1>6. /\ ctl' = [settings |-> ctl'.settings, disposed |-> ctl'.disposed]
      /\ ctl'.settings \in Loaded /\ ctl'.disposed \in BOOLEAN
      /\ kind = "runtime" => ctl'.settings = settings'
  <2>1. CASE UpdateSettings \/ ReloadFromEnvironment
    <3>1. ctl' = IF kind = "runtime" THEN [settings |-> settings', disposed |-> FALSE] ELSE ctl
      BY <2>1 DEF UpdateSettings, ReloadFromEnvironment, ControllerSettings
    <3> QED
      BY <1>4, <1>5, <3>1
  <2>2. CASE Clear
    BY <1>5, <2>2 DEF Clear
  <2>3. CASE DestroyController
    <3>1. ctl' = (IF kind = "runtime" THEN [ctl EXCEPT !.disposed = TRUE] ELSE ctl) /\ settings' = settings
      BY <2>3 DEF DestroyController
    <3>2. CASE kind = "runtime"
      <4>1. ctl' = [settings |-> settings, disposed |-> TRUE]
        BY <1>5, <3>1, <3>2
      <4> QED
        <5>1. settings' = settings
          BY <3>1
        <5> QED
          BY <1>3, <4>1, <5>1
    <3>3. CASE kind # "runtime"
      BY <1>5, <3>1, <3>3
    <3> QED
      BY <3>2, <3>3
  <2> QED
    BY <2>1, <2>2, <2>3
<1> QED
  BY <1>1, <1>2, <1>4, <1>6, SettingsKeeps

\* A route asked for by the application, or put into a config.
LEMMA AdapterStep ==
  ASSUME FactoryInv, ControllerInv, WatchInv, NEW x,
         ResolveRoute(x) \/ applyProxyAgentToAxiosConfig(x) \/ applyProxyGotAgent(x)
  PROVE  FactoryInv' /\ ControllerInv' /\ WatchInv'
<1>1. UNCHANGED <<kind, env, req>>
  BY DEF ResolveRoute, applyProxyAgentToAxiosConfig, applyProxyGotAgent
<1>2. WatchInv'
  BY <1>1, WatchUnchanged
<1>3. conf \in [http : Nat, https : Nat]
  BY DEF ControllerInv
<1>4. CASE ResolveRoute(x) \/ applyProxyGotAgent(x)
  <2>1. PICK target : Resolve(target) /\ UNCHANGED conf
    BY <1>4 DEF ResolveRoute, applyProxyGotAgent
  <2> QED
    BY <1>1, <1>2, <1>3, <2>1, DecisionKeeps
<1>5. CASE applyProxyAgentToAxiosConfig(x)
  <2>1. PICK target : /\ target = resolveAxiosRequestTarget(x) /\ kind = "axios" /\ Resolve(target)
                      /\ conf' \in {conf, IF Resolution(target).viaProxy
                                          THEN applyResolvedAgent(conf, target.proto, Resolution(target).agent)
                                          ELSE conf}
    BY <1>5 DEF applyProxyAgentToAxiosConfig
  <2>2. Resolution(target).agent \in Nat
    BY <1>1, <2>1, DecisionKeeps
  <2>3. PICK agent \in Nat : agent = Resolution(target).agent
    BY <2>2
  <2>4. applyResolvedAgent(conf, target.proto, agent) \in [http : Nat, https : Nat]
    <3>1. PICK a \in Nat, b \in Nat :
            /\ a = IF target.proto = "http" \/ target.proto \notin {"http", "https"} THEN agent ELSE conf["http"]
            /\ b = IF target.proto = "https" \/ target.proto \notin {"http", "https"} THEN agent ELSE conf["https"]
      BY <1>3
    <3>2. applyResolvedAgent(conf, target.proto, agent) = [http |-> a, https |-> b]
      BY <3>1 DEF applyResolvedAgent
    <3> QED
      BY <3>2
  <2>5. conf' \in [http : Nat, https : Nat]
    BY <1>3, <2>1, <2>3, <2>4
  <2> QED
    BY <1>1, <1>2, <2>1, <2>5, DecisionKeeps
<1> QED
  BY <1>4, <1>5

-----------------------------------------------------------------------------
(* The invariant of the proxy packages *)

ProxyInv == kind \in Kind /\ FactoryInv /\ ControllerInv /\ WatchInv

LEMMA ProxyInit ==
  ASSUME Init
  PROVE  ProxyInv
<1>1. /\ kind \in Kind /\ env \in DOMAIN Environment /\ settings \in Loaded
      /\ ctl = [settings |-> settings, disposed |-> FALSE]
      /\ cache = <<>> /\ direct = 0 /\ agents = <<>> /\ used = <<>> /\ last = None
  BY DEF Init, Loaded
<1>2. cache \in Seq(Entries) /\ used \in Seq(CacheKeys) /\ agents \in Seq(Agents)
      /\ Len(cache) = 0 /\ Len(used) = 0 /\ Len(agents) = 0
  BY <1>1
<1>3. RecentOf(cache, used)
  BY <1>2, MaxEntriesAssumption DEF RecentOf, Distinct
<1>4. FactoryInv
  BY <1>1, <1>2, <1>3 DEF FactoryInv, AgentInv
<1>5. stats \in Counters /\ conf \in [http : Nat, https : Nat]
  BY DEF Init, Counters, NoConf
<1>6. ControllerHonest
  BY <1>1, <1>2 DEF ControllerHonest, Init
<1>7. ControllerInv
  BY <1>1, <1>5, <1>6 DEF ControllerInv
<1>8. Idle \in RequestState
  BY DEF Idle, RequestState
<1>9. Watched(Idle)
  BY MaxResponseAssumption DEF Watched, Idle
<1>10. req = [r \in Request |-> Idle]
  BY DEF Init
<1>11. WatchInv
  BY <1>8, <1>9, <1>10 DEF WatchInv
<1> QED
  BY <1>1, <1>4, <1>7, <1>11 DEF ProxyInv

LEMMA ProxyNext ==
  ASSUME ProxyInv, [Next]_vars
  PROVE  ProxyInv'
<1>0. FactoryInv /\ ControllerInv /\ WatchInv /\ kind \in Kind
  BY DEF ProxyInv
<1>1. ASSUME UpdateSettings \/ ReloadFromEnvironment \/ Clear \/ DestroyController
      PROVE  ProxyInv'
  <2>1. kind' = kind
    BY <1>1 DEF UpdateSettings, ReloadFromEnvironment, Clear, DestroyController
  <2> QED
    BY <1>0, <1>1, <2>1, SettingsStep DEF ProxyInv
<1>7. ASSUME NEW x, ControllerThrows(x)
      PROVE  ProxyInv'
  <2>1. /\ UNCHANGED <<kind, env, settings, cache, direct, agents, used, stats, last, conf, req>>
        /\ ctl' = [ctl EXCEPT !.disposed = FALSE]
    BY <1>7 DEF ControllerThrows, factory
  <2>2. ctl' = [ctl EXCEPT !.disposed = FALSE] /\ ctl'.settings = ctl.settings /\ ~ctl'.disposed
    BY <1>0, <2>1 DEF ControllerInv
  <2>3. AgentInv' /\ RecentOf(cache, used)' /\ ControllerHonest'
    BY <1>0, <2>1, <2>2
    DEF FactoryInv, ControllerInv, AgentInv, RecentOf, Distinct, ControllerHonest
  <2>4. FactoryInv' /\ ControllerInv'
    BY <1>0, <2>1, <2>2, <2>3 DEF FactoryInv, ControllerInv
  <2> QED
    BY <1>0, <2>1, <2>4, WatchUnchanged DEF ProxyInv
<1>2. ASSUME NEW x, ResolveRoute(x) \/ applyProxyAgentToAxiosConfig(x) \/ applyProxyGotAgent(x)
      PROVE  ProxyInv'
  <2>1. kind' = kind
    BY <1>2 DEF ResolveRoute, applyProxyAgentToAxiosConfig, applyProxyGotAgent
  <2> QED
    BY <1>0, <1>2, <2>1, AdapterStep DEF ProxyInv
<1>3. ASSUME NEW r \in Request, NEW t, RequestJson(r, t) \/ PerformFetch(r, t)
      PROVE  ProxyInv'
  <2>1. WatchInv' /\ kind' = kind /\ (Transport \/ (Resolve(t) /\ UNCHANGED <<kind, env, conf>>))
    BY <1>0, <1>3, RequestStarts
  <2>2. conf \in [http : Nat, https : Nat]
    BY <1>0 DEF ControllerInv
  <2>3. FactoryInv' /\ ControllerInv'
    BY <1>0, <2>1, <2>2, TransportKeeps, DecisionKeeps
  <2> QED
    BY <1>0, <2>1, <2>3 DEF ProxyInv
<1>4. ASSUME NEW r \in Request, RequestStep(r)
      PROVE  ProxyInv'
  <2>1. Transport
    BY <1>4 DEF RequestStep, ExecuteJsonRequest, Headers, Data, End, ControlPlanePost, FetchAnswers,
                ReadBody, FetchJsonDone, ConnectionFails, DestroyedError, TimerFires, Abort
  <2>2. FactoryInv' /\ ControllerInv' /\ kind' = kind
    BY <1>0, <2>1, TransportKeeps
  <2>3. WatchInv'
    BY <1>0, <1>4, <2>2, JsonRequestKeeps, FetchKeeps, SignalsKeep DEF RequestStep
  <2> QED
    BY <1>0, <2>2, <2>3 DEF ProxyInv
<1>5. CASE UNCHANGED vars
  <2>1. Transport /\ UNCHANGED <<kind, req>>
    BY <1>5 DEF vars, Transport
  <2> QED
    BY <1>0, <2>1, TransportKeeps, WatchUnchanged DEF ProxyInv
<1>6. CASE Next
  BY <1>1, <1>2, <1>3, <1>4, <1>6, <1>7 DEF Next, RequestStep
<1> QED
  BY <1>5, <1>6

\* In every reachable state: the cache and the keys last used agree entry for
\* entry, each entry's agent is open and made for its key, the agent factory
\* has no open agent outside its cache; the controller's copy and counters
\* agree with the factory; and every request is watched as its phase demands.
THEOREM ProxyInvariant == Spec => []ProxyInv
<1>1. Init => ProxyInv
  BY ProxyInit
<1>2. ProxyInv /\ [Next]_vars => ProxyInv'
  BY ProxyNext
<1> QED
  BY <1>1, <1>2, PTL DEF Spec

\* What agents, the cache, the counters and the requests of the proxy packages
\* hold stays within the types the code gives them.
THEOREM ProxyTypeCorrect == Spec => []TypeOK
<1>1. ProxyInv => TypeOK
  BY DEF ProxyInv, FactoryInv, ControllerInv, WatchInv, TypeOK, Entries, Agents, Loaded, Counters
<1> QED
  BY <1>1, ProxyInvariant, PTL

\* The bounded cache of agents and of dispatchers (get, set and the eviction
\* loop) is exactly least-recently-used, hands out only agents that are open
\* and made for the key, and the agent factory loses no agent it did not
\* destroy: for every limit, zero included, and every series of resolutions,
\* updates, clears and destroys.
THEOREM ProxyCacheIsRecent == Spec => []CacheIsRecent
<1>1. ASSUME ProxyInv
      PROVE  CacheIsRecent
  <2>0. /\ cache \in Seq(Entries) /\ agents \in Seq(Agents) /\ used \in Seq(CacheKeys)
        /\ RecentOf(cache, used) /\ AgentInv
        /\ Len(cache) \in Nat /\ Len(used) \in Nat /\ Len(agents) \in Nat
    BY <1>1 DEF ProxyInv, FactoryInv
  <2> DEFINE n == IF Len(used) < MaxEntries THEN Len(used) ELSE MaxEntries
  <2>1. n \in Nat /\ n <= Len(used) /\ Len(cache) = n
    BY <2>0, MaxEntriesAssumption, MinFacts DEF RecentOf
  <2>2. \A i \in 1..Len(cache) : cache[i].key = used[Len(used) - Len(cache) + i]
    BY <2>0, <2>1 DEF RecentOf
  <2> HIDE DEF n
  <2>3. SubSeq(used, Len(used) - n + 1, Len(used)) = [i \in 1..n |-> used[Len(used) - n + i]]
    <3>1. SubSeq(used, Len(used) - n + 1, Len(used))
            = [i \in 1..(1 + Len(used) - (Len(used) - n + 1)) |-> used[i + (Len(used) - n + 1) - 1]]
      BY <2>0, <2>1 DEF SubSeq
    <3>2. 1 + Len(used) - (Len(used) - n + 1) = n
      BY <2>0, <2>1
    <3>3. \A i \in 1..n : i + (Len(used) - n + 1) - 1 = Len(used) - n + i
      BY <2>0, <2>1
    <3> QED
      BY <3>1, <3>2, <3>3
  <2>4. DOMAIN cache = 1..Len(cache) /\ DOMAIN agents = 1..Len(agents)
    BY <2>0
  <2>5. Keys(cache) = SubSeq(used, Len(used) - n + 1, Len(used))
    BY <2>1, <2>2, <2>3, <2>4 DEF Keys
  <2>6. \A i \in DOMAIN cache : agents[cache[i].val].open /\ agents[cache[i].val].key = cache[i].key
    BY <2>0, <2>4 DEF AgentInv
  <2>7. kind # "undici" /\ MaxEntries > 0 =>
          \A i \in DOMAIN agents : agents[i].open => i \in Values(cache)
    BY <2>0, <2>4 DEF AgentInv, Values
  <2> QED
    BY <2>5, <2>6, <2>7 DEF CacheIsRecent, n
<1> QED
  BY <1>1, ProxyInvariant, PTL

\* The runtime controller and its factory decide from the same settings, no
\* bypassed target is proxied, and the counters of recordDecision add up to the
\* decisions made and the agents created, for every series of resolutions,
\* reloads, clears and destroys.
THEOREM ProxyControllerHonest == Spec => []ControllerHonest
<1>1. ProxyInv => ControllerHonest
  BY DEF ProxyInv, ControllerInv
<1> QED
  BY <1>1, ProxyInvariant, PTL

\* A JSON request under way that has a timeout has its timer or is being destroyed,
\* an aborted one is being destroyed whether it has a timeout or not, a settled one
\* has left no timer and no listener behind, and a result is within the limit,
\* in every order of headers, chunks, errors, timer and abort.
THEOREM ProxyRequestsWatched == Spec => []RequestsWatched
<1>1. ProxyInv => RequestsWatched
  BY DEF ProxyInv, WatchInv, Watched, RequestsWatched
<1> QED
  BY <1>1, ProxyInvariant, PTL

-----------------------------------------------------------------------------
(* The explainer *)

\* parseNoProxy's list has only rules in it, whatever the tokens.
LEMMA RulesFacts ==
  ASSUME NEW T, NEW tokens \in Seq(T)
  PROVE  LET Rules == {parseNoProxyToken(tokens[i]) : i \in 1..Len(tokens)} \ {None}
         IN  parseNoProxy(tokens) \in Seq(Rules)
<1> DEFINE Rules == {parseNoProxyToken(tokens[i]) : i \in 1..Len(tokens)} \ {None}
           rule(i) == parseNoProxyToken(tokens[i])
           Step(f, i) == IF i = 0 THEN <<>>
                         ELSE IF rule(i) = None THEN f[i - 1]
                         ELSE Append(f[i - 1], rule(i))
           Rec(f, n) == f = [i \in 0..n |-> Step(f, i)]
           Bad == {n \in 0..Len(tokens) : ~(\E f : Rec(f, n))}
<1>1. Len(tokens) \in Nat /\ \A i \in 1..Len(tokens) : rule(i) # None => rule(i) \in Rules
  OBVIOUS
<1> HIDE DEF Rec, Step, rule, Rules
<1>2. \E f : Rec(f, Len(tokens))
  <2>1. CASE Bad = {}
    <3>1. Len(tokens) \notin Bad /\ Len(tokens) \in 0..Len(tokens)
      BY <2>1, <1>1
    <3> QED
      BY <3>1
  <2>2. CASE Bad # {}
    <3>1. Bad \subseteq Nat
      BY <1>1
    <3>2. PICK n \in Bad : \A y \in Bad : n <= y
      <4> HIDE DEF Bad
      <4> QED
        BY <2>2, <3>1, LeastFacts
    <3>3. n \in 0..Len(tokens) /\ ~(\E f : Rec(f, n))
      BY <3>2
    <3>4. n # 0
      <4>1. Rec([i \in 0..0 |-> <<>>], 0)
        BY DEF Rec, Step
      <4> QED
        BY <4>1, <3>3
    <3>5. n - 1 \in 0..Len(tokens) /\ n - 1 \notin Bad
      <4>1. n - 1 \in 0..Len(tokens) /\ ~(n <= n - 1)
        BY <3>3, <3>4, <1>1
      <4> HIDE DEF Bad
      <4> QED
        BY <3>2, <4>1
    <3>6. PICK f : Rec(f, n - 1)
      BY <3>5
    <3> DEFINE g == [i \in 0..n |-> Step(f, i)]
    <3>7. ASSUME NEW i \in 0..n - 1 PROVE g[i] = f[i]
      <4>1. i \in 0..n
        BY <3>3
      <4>2. f = [j \in 0..n - 1 |-> Step(f, j)]
        BY <3>6, Zenon DEF Rec
      <4>3. f[i] = Step(f, i)
        BY <4>2, Zenon
      <4> QED
        BY <4>1, <4>3, Zenon
    <3>8. Rec(g, n)
      <4>1. \A i \in 0..n : Step(f, i) = Step(g, i)
        <5> HIDE DEF g
        <5>1. \A i \in 0..n : i # 0 => f[i - 1] = g[i - 1]
          BY <3>7, <3>3
        <5> QED
          BY <5>1, Zenon DEF Step
      <4> QED
        BY <4>1, Zenon DEF Rec
    <3> QED
      BY <3>3, <3>8
  <2> QED
    BY <2>1, <2>2
<1>3. PICK f : Rec(f, Len(tokens)) /\ parseNoProxy(tokens) = f[Len(tokens)]
  <2>1. parseNoProxy(tokens) = (CHOOSE f : Rec(f, Len(tokens)))[Len(tokens)]
    BY Zenon DEF parseNoProxy, Rec, Step, rule
  <2>2. Rec(CHOOSE f : Rec(f, Len(tokens)), Len(tokens))
    BY <1>2, Zenon
  <2> QED
    BY <2>1, <2>2
<1> DEFINE Ill == {n \in 0..Len(tokens) : f[n] \notin Seq(Rules)}
<1>4. Ill = {}
  <2> SUFFICES ASSUME Ill # {} PROVE FALSE
    OBVIOUS
  <2>1. Ill \subseteq Nat
    BY <1>1
  <2>2. PICK n \in Ill : \A y \in Ill : n <= y
    <3> HIDE DEF Ill
    <3> QED
      BY <2>1, LeastFacts
  <2>3. n \in 0..Len(tokens) /\ f[n] \notin Seq(Rules)
    BY <2>2
  <2>4. f[n] = Step(f, n)
    BY <1>3, <2>3, Zenon DEF Rec
  <2>5. n # 0
    BY <2>3, <2>4 DEF Step
  <2>6. n \in 1..Len(tokens) /\ n - 1 \in 0..Len(tokens) /\ n - 1 \notin Ill
    BY <2>1, <2>2, <2>3, <2>5, <1>1
  <2>7. f[n - 1] \in Seq(Rules)
    BY <2>6
  <2>8. f[n] = IF rule(n) = None THEN f[n - 1] ELSE Append(f[n - 1], rule(n))
    BY <2>4, <2>5 DEF Step
  <2>9. rule(n) # None => Append(f[n - 1], rule(n)) \in Seq(Rules)
    BY <1>1, <2>6, <2>7, AppendProperties
  <2> QED
    BY <2>3, <2>7, <2>8, <2>9
<1>5. parseNoProxy(tokens) \in Seq(Rules)
  BY <1>1, <1>3, <1>4
<1> QED
  BY <1>5 DEF Rules

\* One list holds a rule that bypasses when the rule does so in any list.
CoreMatches(target, rule) ==
  \/ rule.host = <<"*">>
  \/ /\ matchesRuleHost(normalizeHost(target.host), rule)
     /\ rule.port \in {None, getTargetPort(target)}

LEMMA BypassFacts ==
  ASSUME NEW R, NEW rules \in Seq(R), NEW target
  PROVE  shouldBypassProxy(target, rules) <=>
           /\ normalizeHost(target.host) # None
           /\ \E i \in 1..Len(rules) : CoreMatches(target, rules[i])
BY DEF shouldBypassProxy, CoreMatches

\* The explainer's copy of the host, port and rule matching agrees with the core's.
LEMMA CopiesAgree ==
  ASSUME NEW target, NEW rule
  PROVE  /\ explainerNormalizeHost(target.host) = normalizeHost(target.host)
         /\ ExplainerMatches(target, rule) <=> CoreMatches(target, rule)
<1>1. explainerNormalizeHost(target.host) = normalizeHost(target.host)
  BY Zenon DEF explainerNormalizeHost, normalizeHost
<1>2. getPort(target) = getTargetPort(target)
  <2>1. CASE target.port # None /\ target.port \in Port
    <3>1. parsePort(target.port) = target.port
      BY <2>1, Zenon DEF parsePort
    <3> QED BY <2>1, <3>1, Zenon DEF getPort, getTargetPort
  <2>2. CASE ~(target.port # None /\ target.port \in Port)
    <3>1. parsePort(target.port) = None
      BY <2>2, Zenon DEF parsePort
    <3>2. getTargetPort(target) = defaultPort(target.proto)
      BY <3>1, Zenon DEF getTargetPort
    <3>3. getPort(target) = CASE target.proto \in {"https", "wss"} -> 443 [] OTHER -> 80
      BY <2>2, Zenon DEF getPort
    <3> QED BY <3>2, <3>3 DEF defaultPort
  <2> QED BY <2>1, <2>2
<1>3. ASSUME NEW host
      PROVE  explainerMatchesRuleHost(host, rule) <=> matchesRuleHost(host, rule)
  <2>1. ASSUME IsSuffix(rule.host, host)
        PROVE  Len(host) - Len(rule.host) >= 1 <=> Len(host) > Len(rule.host)
    BY <2>1 DEF IsSuffix
  <2> QED
    BY <2>1 DEF explainerMatchesRuleHost, matchesRuleHost, isSubdomainOf
<1> QED
  BY <1>1, <1>2, <1>3 DEF ExplainerMatches, CoreMatches

\* The two searches agree: where proxy-core bypasses, the explainer finds a rule
\* that bypasses alone.
LEMMA FindFacts ==
  ASSUME NEW R, None \notin R, NEW rules \in Seq(R), NEW target,
         shouldBypassProxy(target, rules)
  PROVE  LET found == findMatchingNoProxyRule(target, rules)
         IN  found # None /\ shouldBypassProxy(target, <<found>>)
<1> DEFINE I == {i \in 1..Len(rules) : ExplainerMatches(target, rules[i])}
           k == SelectInSeq(rules, LAMBDA rule : ExplainerMatches(target, rule))
           found == findMatchingNoProxyRule(target, rules)
<1>1. k = IF I # {} THEN Min(I) ELSE 0
  BY DEF SelectInSeq
<1>2. I # {} /\ normalizeHost(target.host) # None
  BY BypassFacts, CopiesAgree
<1>3. found = IF explainerNormalizeHost(target.host) = None \/ k = 0 THEN None ELSE rules[k]
  BY DEF findMatchingNoProxyRule
<1>4. I \subseteq Nat /\ I \subseteq 1..Len(rules)
  OBVIOUS
<1>5. k \in I
  <2> HIDE DEF I, k
  <2> QED
    BY <1>1, <1>2, <1>4, MinFacts
<1>6. k \in 1..Len(rules) /\ ExplainerMatches(target, rules[k])
  BY <1>5
<1> HIDE DEF k, I, found
<1>7. found = rules[k] /\ found \in R
  BY <1>2, <1>3, <1>6, CopiesAgree
<1>8. <<found>> \in Seq(R) /\ Len(<<found>>) = 1 /\ <<found>>[1] = found
  BY <1>7
<1>9. CoreMatches(target, found)
  BY <1>6, <1>7, CopiesAgree
<1>10. \E i \in 1..Len(<<found>>) : CoreMatches(target, <<found>>[i])
  BY <1>8, <1>9
<1>11. shouldBypassProxy(target, <<found>>)
  <2> DEFINE one == <<found>>
  <2>1. one \in Seq(R) /\ \E i \in 1..Len(one) : CoreMatches(target, one[i])
    BY <1>8, <1>10
  <2> HIDE DEF one
  <2>2. shouldBypassProxy(target, one)
    BY <1>2, <2>1, BypassFacts
  <2> QED
    BY <2>2 DEF one
<1> QED
  BY <1>7, <1>11 DEF found

\* The setting the explainer names is one with the proxy that was resolved.
LEMMA SourceFacts ==
  ASSUME NEW s, NEW target, resolveProxyForUrl(target, s) # None
  PROVE  LET proxyUrl == resolveProxyForUrl(target, s)
         IN  s[resolveProxySource(target.proto, s, proxyUrl)] = proxyUrl
<1> DEFINE proxyUrl == resolveProxyForUrl(target, s)
           order == CASE target.proto \in {"http", "ws"}   -> <<"httpProxy", "allProxy">>
                      [] target.proto \in {"https", "wss"} -> <<"httpsProxy", "httpProxy", "allProxy">>
                      [] OTHER                             -> <<"allProxy">>
           I == {i \in 1..Len(order) : s[order[i]] = proxyUrl}
           k == SelectInSeq(order, LAMBDA name : s[name] = proxyUrl)
<1>1. /\ resolveProxySource(target.proto, s, proxyUrl) = IF proxyUrl = None \/ k = 0 THEN None ELSE order[k]
      /\ k = IF I # {} THEN Min(I) ELSE 0
  BY DEF resolveProxySource, SelectInSeq
<1>2. ~shouldBypassProxy(target, s.noProxy)
  BY DEF resolveProxyForUrl
<1>3. I # {} /\ I \subseteq Nat
  <2>1. CASE target.proto \in {"http", "ws"}
    <3>1. order = <<"httpProxy", "allProxy">>
      BY <2>1
    <3>2. proxyUrl = Coalesce(s.httpProxy, s.allProxy)
      BY <1>2, <2>1 DEF resolveProxyForUrl
    <3>3. proxyUrl \in {s["httpProxy"], s["allProxy"]}
      BY <3>2 DEF Coalesce
    <3> HIDE DEF order, proxyUrl
    <3>4. Len(order) = 2 /\ order[1] = "httpProxy" /\ order[2] = "allProxy"
      BY <3>1
    <3> QED
      BY <3>3, <3>4
  <2>2. CASE target.proto \in {"https", "wss"}
    <3>1. order = <<"httpsProxy", "httpProxy", "allProxy">>
      BY <2>2
    <3>2. proxyUrl = Coalesce(s.httpsProxy, Coalesce(s.httpProxy, s.allProxy))
      BY <1>2, <2>2 DEF resolveProxyForUrl
    <3>3. proxyUrl \in {s["httpsProxy"], s["httpProxy"], s["allProxy"]}
      BY <3>2 DEF Coalesce
    <3> HIDE DEF order, proxyUrl
    <3>4. Len(order) = 3 /\ order[1] = "httpsProxy" /\ order[2] = "httpProxy" /\ order[3] = "allProxy"
      BY <3>1
    <3> QED
      BY <3>3, <3>4
  <2>3. CASE target.proto \notin {"http", "ws", "https", "wss"}
    <3>1. order = <<"allProxy">>
      BY <2>3
    <3>2. proxyUrl = s["allProxy"]
      BY <1>2, <2>3 DEF resolveProxyForUrl
    <3> HIDE DEF order, proxyUrl
    <3>3. Len(order) = 1 /\ order[1] = "allProxy"
      BY <3>1
    <3> QED
      BY <3>2, <3>3
  <2> QED
    BY <2>1, <2>2, <2>3
<1> HIDE DEF I
<1>4. k \in I
  BY <1>1, <1>3, MinFacts
<1>5. k # 0 /\ s[order[k]] = proxyUrl
  BY <1>4 DEF I
<1> HIDE DEF order, k
<1>6. resolveProxySource(target.proto, s, proxyUrl) = order[k]
  BY <1>1, <1>5
<1> QED
  BY <1>5, <1>6

\* The variable the inspector selects is the one the settings come from.
LEMMA InspectFacts ==
  ASSUME NEW e, NEW x \in {"httpProxy", "httpsProxy", "allProxy"}
  PROVE  loadProxySettings(e)[x] = sanitizeProxyUrl(inspectProxyEnvironment(e)[x].selectedValue)
<1>1. CASE x = "httpProxy"
  BY <1>1 DEF loadProxySettings, inspectProxyEnvironment, buildResolution
<1>2. CASE x = "httpsProxy"
  BY <1>2 DEF loadProxySettings, inspectProxyEnvironment, buildResolution
<1>3. CASE x = "allProxy"
  BY <1>3 DEF loadProxySettings, inspectProxyEnvironment, buildResolution
<1> QED
  BY <1>1, <1>2, <1>3

LEMMA ExplanationFacts ==
  ASSUME NEW e \in DOMAIN Environment
  PROVE  TrueExplanation[e]
<1> DEFINE given == Environment[e]
           loaded == loadProxySettings(given)
           seen == inspectProxyEnvironment(given)
           raw == Coalesce(given["NO_PROXY"], given["no_proxy"])
<1>1. loaded.noProxy = IF raw = None THEN <<>> ELSE parseNoProxy(raw)
  BY DEF loadProxySettings
<1>2. \E R : None \notin R /\ loaded.noProxy \in Seq(R)
  <2>1. CASE raw = None
    <3>1. loaded.noProxy = <<>>
      BY <1>1, <2>1
    <3>2. None \notin {} /\ <<>> \in Seq({})
      OBVIOUS
    <3> QED
      BY <3>1, <3>2
  <2>2. CASE raw # None
    <3>1. raw \in Seq(ToSet(raw))
      <4>1. \A name \in {"NO_PROXY", "no_proxy"} :
              given[name] = None \/ given[name] \in Seq(ToSet(given[name]))
        BY EnvironmentAssumption, Zenon
      <4>2. given["NO_PROXY"] = None \/ given["NO_PROXY"] \in Seq(ToSet(given["NO_PROXY"]))
        BY <4>1
      <4>3. given["no_proxy"] = None \/ given["no_proxy"] \in Seq(ToSet(given["no_proxy"]))
        BY <4>1
      <4>4. raw = given["NO_PROXY"] \/ raw = given["no_proxy"]
        BY DEF Coalesce
      <4> DEFINE upper == given["NO_PROXY"]
                 lower == given["no_proxy"]
      <4>5. upper = None \/ upper \in Seq(ToSet(upper))
        BY <4>2
      <4>6. lower = None \/ lower \in Seq(ToSet(lower))
        BY <4>3
      <4>7. raw = upper \/ raw = lower
        BY <4>4
      <4> HIDE DEF raw, upper, lower
      <4>8. CASE raw = upper
        BY <4>5, <4>8, <2>2
      <4>9. CASE raw = lower
        BY <4>6, <4>9, <2>2
      <4> QED
        BY <4>7, <4>8, <4>9
    <3> DEFINE R == {parseNoProxyToken(raw[i]) : i \in 1..Len(raw)} \ {None}
    <3> HIDE DEF raw
    <3>2. parseNoProxy(raw) \in Seq(R)
      BY <3>1, RulesFacts
    <3>3. None \notin R /\ loaded.noProxy = parseNoProxy(raw)
      BY <1>1, <2>2
    <3> QED
      BY <3>2, <3>3, Zenon
  <2> QED
    BY <2>1, <2>2
<1>3. ASSUME NEW t \in Target
      PROVE  LET route == explainOneRoute(t, given)
             IN  /\ route.decision = "proxy" => loaded[route.source] = route.proxyUrl
                 /\ shouldBypassProxy(t, loaded.noProxy)
                      => route.rule # None /\ shouldBypassProxy(t, <<route.rule>>)
                 /\ ~route.agent.error
                      => /\ route.agent.viaProxy <=> route.decision = "proxy"
                         /\ route.agent.proxyUrl = route.proxyUrl
                 /\ route.agent.error
                      => /\ route.decision = "proxy"
                         /\ t.proto \notin {"http", "https", "ws", "wss"}
  <2> DEFINE route == explainOneRoute(t, given)
             bypass == shouldBypassProxy(t, loaded.noProxy)
             found == findMatchingNoProxyRule(t, loaded.noProxy)
             proxyUrl == resolveProxyForUrl(t, loaded)
             error == createProxyAgentThrows(t, proxyUrl)
  <2>1. /\ route.decision = IF ~bypass /\ proxyUrl # None THEN "proxy" ELSE "direct"
        /\ route.source = resolveProxySource(t.proto, loaded, proxyUrl)
        /\ route.rule = IF bypass THEN found ELSE None
        /\ route.proxyUrl = proxyUrl
        /\ route.agent = agentDetail(t, given)
    BY DEF explainOneRoute
  <2>2. bypass => found # None /\ shouldBypassProxy(t, <<found>>)
    <3> HIDE DEF loaded
    <3> QED
      BY <1>2, FindFacts
  <2>3. proxyUrl # None => loaded[resolveProxySource(t.proto, loaded, proxyUrl)] = proxyUrl
    <3> HIDE DEF loaded
    <3> QED
      BY SourceFacts
  <2>4. bypass => proxyUrl = None
    BY DEF resolveProxyForUrl
  <2>5. /\ agentDetail(t, given).error = error
        /\ agentDetail(t, given).viaProxy = (~error /\ proxyUrl # None)
        /\ agentDetail(t, given).proxyUrl = IF error THEN None ELSE proxyUrl
    BY DEF agentDetail
  <2>6. error => proxyUrl # None /\ t.proto \notin {"http", "https", "ws", "wss"}
    BY DEF createProxyAgentThrows
  <2> HIDE DEF route, bypass, found, proxyUrl, loaded, error
  <2>7. route.decision = "proxy" => loaded[route.source] = route.proxyUrl
    BY <2>1, <2>3
  <2>8. bypass => route.rule # None /\ shouldBypassProxy(t, <<route.rule>>)
    BY <2>1, <2>2, Zenon
  <2>9. route.decision = "proxy" <=> proxyUrl # None
    BY <2>1, <2>4
  <2>10. ~route.agent.error => /\ route.agent.viaProxy <=> route.decision = "proxy"
                               /\ route.agent.proxyUrl = route.proxyUrl
    BY <2>1, <2>5, <2>9
  <2>11. route.agent.error => /\ route.decision = "proxy"
                              /\ t.proto \notin {"http", "https", "ws", "wss"}
    BY <2>1, <2>5, <2>6, <2>9
  <2> QED
    BY <2>7, <2>8, <2>10, <2>11 DEF route, bypass
<1>4. \A x \in {"httpProxy", "httpsProxy", "allProxy"} :
        loaded[x] = sanitizeProxyUrl(seen[x].selectedValue)
  BY InspectFacts
<1> QED
  BY <1>3, <1>4, Zenon DEF TrueExplanation

\* cli-proxy's explainOneRoute and inspectProxyEnvironment are right about every
\* environment and every target: the copy of the matching names a rule for each
\* bypass, one that bypasses alone, a proxied target gets the setting that holds its
\* proxy, an agent factory decides the same unless it throws for a proxied target's
\* protocol, and each proxy is read from the variable named.
THEOREM ProxyExplanationTrue == Spec => []ExplanationTrue
<1>1. ProxyInv => ExplanationTrue
  <2> SUFFICES ASSUME ProxyInv PROVE ExplanationTrue
    OBVIOUS
  <2>1. env \in DOMAIN Environment
    BY DEF ProxyInv, FactoryInv, ControllerInv, WatchInv
  <2> QED
    BY <2>1, ExplanationFacts DEF ExplanationTrue
<1> QED
  BY <1>1, ProxyInvariant, PTL

=============================================================================
