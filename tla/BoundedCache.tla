---------------------------- MODULE BoundedCache ----------------------------
(***************************************************************************)
(* The LRU cache of proxy agents (bounded-agent-cache.ts) and, line for    *)
(* line the same, of undici dispatchers (bounded-dispatcher-cache.ts).  A  *)
(* Map in insertion order is a sequence of [key, val], oldest first.       *)
(***************************************************************************)
EXTENDS Naturals, SequencesExt

CONSTANT MaxEntries

ASSUME MaxEntriesAssumption == MaxEntries \in Nat

\* Map.delete: a key has at most one entry.
Without(c, key) == RemoveFirstMatch(c, LAMBDA e : e.key = key)

Keys(c) == [i \in DOMAIN c |-> c[i].key]

Values(c) == {c[i].val : i \in DOMAIN c}

\* The value under key, None (0) when there is none; a hit becomes the newest.
CacheValue(c, key) ==
  LET i == SelectInSeq(c, LAMBDA e : e.key = key) IN IF i = 0 THEN 0 ELSE c[i].val

\* A mutant: a hit does not refresh the entry.
GetKeepsPlace(c, key) == c

CacheGet(c, key) ==
  IF CacheValue(c, key) = 0 THEN c
  ELSE Append(Without(c, key), [key |-> key, val |-> CacheValue(c, key)])

\* With a limit of 0 nothing is kept; otherwise the oldest make room.
CacheSet(c, key, val) ==
  LET all == Append(Without(c, key), [key |-> key, val |-> val])
  IN  IF MaxEntries = 0 THEN c
      ELSE IF Len(all) > MaxEntries
           THEN SubSeq(all, Len(all) - MaxEntries + 1, Len(all)) ELSE all
============================================================================
