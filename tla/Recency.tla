------------------------------ MODULE Recency ------------------------------
(***************************************************************************)
(* The lists that the caches of the API keep in the order of use: the map  *)
(* and the container/list beside it in cache/lru.go, cache/cache.go,       *)
(* realtime/counter.go and ratelimit/limiter.go.  The front comes first.   *)
(***************************************************************************)
EXTENDS Naturals, Sequences

Listed(s) == {s[i] : i \in DOMAIN s}

(* Remove of an element that is there.                                     *)
Without(x, s) ==
  LET i == CHOOSE i \in DOMAIN s : s[i] = x
  IN IF x \in Listed(s) THEN SubSeq(s, 1, i - 1) \o SubSeq(s, i + 1, Len(s)) ELSE s

(* PushFront of a new element, MoveToFront of one that is there.           *)
ToFront(x, s) == <<x>> \o Without(x, s)

(* The loops that remove the last element while the list is longer than    *)
(* "limit" or that element is among "gone".                                *)
Trimmed(s, limit, gone) ==
  LET stops == {n \in 0 .. Len(s) :
                  /\ n <= limit
                  /\ n = 0 \/ s[n] \notin gone}
  IN SubSeq(s, 1, CHOOSE n \in stops : \A m \in stops : m <= n)

(* The loops that only look at the length.                                 *)
Capped(s, limit) == SubSeq(s, 1, IF Len(s) < limit THEN Len(s) ELSE limit)
=============================================================================
