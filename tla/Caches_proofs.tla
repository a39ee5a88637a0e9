--------------------------- MODULE Caches_proofs ---------------------------
(***************************************************************************)
(* Proofs about what the API keeps in memory to answer requests: the rate  *)
(* limiter, the realtime counter, the response cache, the identity caches  *)
(* and the site registry.  They hold for any number of goroutines, keys    *)
(* and calls, any capacity and ttl, and any length of time.                *)
(***************************************************************************)
EXTENDS Limiter, RealtimeCounter, ResponseCache, Identity, SiteRegistry,
        FiniteSetTheorems, Lists_proofs

(* The list of sites, front first, keeps the site that is put there.       *)
LEMMA WithoutSeq ==
  ASSUME NEW S, NEW x, NEW s \in Seq(S)
  PROVE  Without(x, s) \in Seq(S)
<1>1. CASE x \in Listed(s)
  <2> DEFINE i == CHOOSE i \in DOMAIN s : s[i] = x
  <2>1. i \in 1 .. Len(s)
    BY <1>1 DEF Listed
  <2>2. Without(x, s) = SubSeq(s, 1, i - 1) \o SubSeq(s, i + 1, Len(s))
    BY <1>1 DEF Without
  <2> HIDE DEF i
  <2>3. SubSeq(s, 1, i - 1) \in Seq(S) /\ SubSeq(s, i + 1, Len(s)) \in Seq(S)
    <3>1. \A k \in 1 .. Len(s) : s[k] \in S
      OBVIOUS
    <3>2. SubSeq(s, 1, i - 1) \in Seq(S)
      BY <2>1, <3>1, SubSeqProperties
    <3>3. SubSeq(s, i + 1, Len(s)) \in Seq(S)
      BY <2>1, <3>1, SubSeqProperties
    <3> QED BY <3>2, <3>3
  <2> QED BY <2>2, <2>3, ConcatProperties
<1>2. CASE x \notin Listed(s)
  BY <1>2 DEF Without
<1> QED BY <1>1, <1>2

LEMMA FrontFacts ==
  ASSUME NEW S, NEW x \in S, NEW s \in Seq(S), NEW limit \in Nat \ {0}
  PROVE  /\ Capped(ToFront(x, s), limit) \in Seq(S)
         /\ x \in Listed(Capped(ToFront(x, s), limit))
<1> DEFINE t == ToFront(x, s)
           n == IF Len(t) < limit THEN Len(t) ELSE limit
<1>1. t \in Seq(S) /\ Len(t) \in Nat /\ Len(t) >= 1 /\ t[1] = x
  BY WithoutSeq DEF ToFront
<1> HIDE DEF t
<1>2. n \in 1 .. Len(t)
  BY <1>1
<1>3. Capped(t, limit) = SubSeq(t, 1, n)
  BY DEF Capped
<1> HIDE DEF n
<1>4. /\ SubSeq(t, 1, n) \in Seq(S) /\ Len(SubSeq(t, 1, n)) = n
      /\ SubSeq(t, 1, n)[1] = x
  BY <1>1, <1>2
<1>5. x \in Listed(SubSeq(t, 1, n))
  <2>1. 1 \in DOMAIN SubSeq(t, 1, n)
    BY <1>2, <1>4, LenProperties
  <2> QED BY <1>4, <2>1 DEF Listed
<1> QED BY <1>3, <1>4, <1>5 DEF t

(* A set of numbers with a bound has a largest.                            *)
(* What is left is the longest prefix that ends at an element to keep.     *)
LEMMA TrimmedFacts ==
  ASSUME NEW S, NEW s \in Seq(S), NEW limit \in Nat, NEW gone
  PROVE  \E n \in 0 .. Len(s) :
           /\ Trimmed(s, limit, gone) = SubSeq(s, 1, n)
           /\ n <= limit
           /\ n = 0 \/ s[n] \notin gone
           /\ \A m \in 1 .. Len(s) : m > n /\ m <= limit => s[m] \in gone
<1> DEFINE stops == {n \in 0 .. Len(s) : n <= limit /\ (n = 0 \/ s[n] \notin gone)}
           n == CHOOSE n \in stops : \A m \in stops : m <= n
<1>1. Len(s) \in Nat
  OBVIOUS
<1>2. 0 \in stops
  BY <1>1
<1>3. \E k \in stops : \A m \in stops : m <= k
  <2>1. stops \in SUBSET (0 .. Len(s)) /\ stops # {}
    BY <1>2
  <2> HIDE DEF stops
  <2> QED BY <1>1, <2>1, Latest
<1>4. n \in stops /\ \A m \in stops : m <= n
  <2> HIDE DEF stops
  <2> QED BY <1>3
<1>5. Trimmed(s, limit, gone) = SubSeq(s, 1, n)
  BY DEF Trimmed
<1> HIDE DEF n
<1>6. \A m \in 1 .. Len(s) : m > n /\ m <= limit => s[m] \in gone
  BY <1>1, <1>4
<1> QED BY <1>4, <1>5, <1>6

(* Where the element was, "k", or that it was not there, and the rest.     *)
LEMMA WithoutFacts ==
  ASSUME NEW S, NEW s \in Seq(S), NEW x,
         \A i, j \in 1 .. Len(s) : i # j => s[i] # s[j]
  PROVE  \E k \in 1 .. Len(s) + 1 :
           /\ Without(x, s) \in Seq(S)
           /\ Len(Without(x, s)) = IF k = Len(s) + 1 THEN Len(s) ELSE Len(s) - 1
           /\ k # Len(s) + 1 => s[k] = x
           /\ \A i \in 1 .. Len(Without(x, s)) :
                LET j == IF i < k THEN i ELSE i + 1
                IN j \in 1 .. Len(s) /\ Without(x, s)[i] = s[j] /\ s[j] # x
<1> DEFINE w == Without(x, s)
<1> SUFFICES \E k \in 1 .. Len(s) + 1 :
               /\ w \in Seq(S)
               /\ Len(w) = IF k = Len(s) + 1 THEN Len(s) ELSE Len(s) - 1
               /\ k # Len(s) + 1 => s[k] = x
               /\ \A i \in 1 .. Len(w) :
                    LET j == IF i < k THEN i ELSE i + 1
                    IN j \in 1 .. Len(s) /\ w[i] = s[j] /\ s[j] # x
  OBVIOUS
<1> HIDE DEF w
<1>0. Len(s) \in Nat
  OBVIOUS
<1>1. CASE x \notin Listed(s)
  <2>1. w = s /\ \A i \in 1 .. Len(s) : s[i] # x
    BY <1>1, LenProperties DEF Without, Listed, w
  <2> QED BY <1>0, <2>1
<1>2. CASE x \in Listed(s)
  <2> DEFINE k == CHOOSE k \in DOMAIN s : s[k] = x
  <2>1. k \in 1 .. Len(s) /\ s[k] = x
    BY <1>2, LenProperties DEF Listed
  <2>2. w = SubSeq(s, 1, k - 1) \o SubSeq(s, k + 1, Len(s))
    BY <1>2 DEF Without, w
  <2> HIDE DEF k
  <2>3. /\ SubSeq(s, 1, k - 1) \in Seq(S) /\ Len(SubSeq(s, 1, k - 1)) = k - 1
        /\ \A i \in 1 .. k - 1 : SubSeq(s, 1, k - 1)[i] = s[i]
    BY <2>1, PrefixFacts
  <2>4. /\ SubSeq(s, k + 1, Len(s)) \in Seq(S)
        /\ Len(SubSeq(s, k + 1, Len(s))) = Len(s) - k
        /\ \A i \in 1 .. Len(s) - k : SubSeq(s, k + 1, Len(s))[i] = s[k + i]
    BY <2>1, SuffixFacts
  <2>5. /\ w \in Seq(S) /\ Len(w) = Len(s) - 1
        /\ \A i \in 1 .. Len(s) - 1 :
             w[i] = IF i <= k - 1 THEN SubSeq(s, 1, k - 1)[i]
                    ELSE SubSeq(s, k + 1, Len(s))[i - (k - 1)]
    <3> DEFINE p == SubSeq(s, 1, k - 1)
               q == SubSeq(s, k + 1, Len(s))
    <3>1. /\ p \in Seq(S) /\ Len(p) = k - 1 /\ q \in Seq(S) /\ Len(q) = Len(s) - k
          /\ w = p \o q
      BY <2>2, <2>3, <2>4
    <3> HIDE DEF p, q
    <3>2. w \in Seq(S) /\ Len(w) = Len(p) + Len(q)
          /\ \A i \in 1 .. Len(p) + Len(q) :
               w[i] = IF i <= Len(p) THEN p[i] ELSE q[i - Len(p)]
      BY ONLY <3>1, ConcatProperties
    <3>3. Len(p) + Len(q) = Len(s) - 1
      BY <1>0, <2>1, <3>1
    <3> QED BY ONLY <3>1, <3>2, <3>3 DEF p, q
  <2>6. \A i \in 1 .. Len(w) :
            LET j == IF i < k THEN i ELSE i + 1
            IN j \in 1 .. Len(s) /\ w[i] = s[j] /\ s[j] # x
    <3> SUFFICES ASSUME NEW i \in 1 .. Len(w)
                 PROVE  LET j == IF i < k THEN i ELSE i + 1
                        IN j \in 1 .. Len(s) /\ w[i] = s[j] /\ s[j] # x
      OBVIOUS
    <3>1. CASE i < k
      BY <1>0, <2>1, <2>3, <2>5, <3>1
    <3>2. CASE ~ (i < k)
      <4>1. i + 1 \in 1 .. Len(s) /\ i + 1 # k /\ i - (k - 1) \in 1 .. Len(s) - k
            /\ k + (i - (k - 1)) = i + 1 /\ ~ (i <= k - 1)
        BY <1>0, <2>1, <2>5, <3>2
      <4>2. w[i] = s[i + 1]
        BY <2>4, <2>5, <4>1
      <4> QED BY <2>1, <3>2, <4>1, <4>2
    <3> QED BY <3>1, <3>2
  <2> QED BY <1>0, <2>1, <2>5, <2>6
<1> QED BY <1>1, <1>2

LEMMA PushedFacts ==
  ASSUME NEW S, NEW s \in Seq(S), NEW x \in S
  PROVE  /\ <<x>> \o s \in Seq(S) /\ Len(<<x>> \o s) = Len(s) + 1
         /\ (<<x>> \o s)[1] = x
         /\ \A i \in 2 .. Len(s) + 1 : (<<x>> \o s)[i] = s[i - 1] /\ i - 1 \in 1 .. Len(s)
<1> DEFINE f == <<x>>
<1>1. f \in Seq(S) /\ Len(f) = 1 /\ f[1] = x /\ Len(s) \in Nat
  OBVIOUS
<1> HIDE DEF f
<1>2. /\ f \o s \in Seq(S) /\ Len(f \o s) = Len(f) + Len(s)
      /\ \A i \in 1 .. Len(f) + Len(s) : (f \o s)[i] = IF i <= Len(f) THEN f[i] ELSE s[i - Len(f)]
  BY ONLY <1>1, ConcatProperties
<1>3. \A i \in 2 .. Len(s) + 1 : (f \o s)[i] = s[i - 1] /\ i - 1 \in 1 .. Len(s)
  BY <1>1, <1>2
<1>4. (f \o s)[1] = x /\ Len(f \o s) = Len(s) + 1
  BY <1>1, <1>2
<1> QED BY <1>2, <1>3, <1>4 DEF f

LEMMA FrontedFacts ==
  ASSUME NEW S, NEW s \in Seq(S), NEW x \in S,
         \A i, j \in 1 .. Len(s) : i # j => s[i] # s[j]
  PROVE  /\ ToFront(x, s) \in Seq(S)
         /\ Len(ToFront(x, s)) \in Nat \ {0}
         /\ ToFront(x, s)[1] = x
         /\ \E k \in 1 .. Len(s) + 1 :
              /\ Len(ToFront(x, s)) = IF k = Len(s) + 1 THEN Len(s) + 1 ELSE Len(s)
              /\ k # Len(s) + 1 => s[k] = x
              /\ \A i \in 2 .. Len(ToFront(x, s)) :
                   LET j == IF i - 1 < k THEN i - 1 ELSE i
                   IN j \in 1 .. Len(s) /\ ToFront(x, s)[i] = s[j] /\ s[j] # x
<1> DEFINE w == Without(x, s)
<1>1. PICK k \in 1 .. Len(s) + 1 :
         /\ w \in Seq(S)
         /\ Len(w) = IF k = Len(s) + 1 THEN Len(s) ELSE Len(s) - 1
         /\ k # Len(s) + 1 => s[k] = x
         /\ \A i \in 1 .. Len(w) :
              LET j == IF i < k THEN i ELSE i + 1
              IN j \in 1 .. Len(s) /\ w[i] = s[j] /\ s[j] # x
  BY WithoutFacts
<1> DEFINE t == <<x>> \o w
<1>2. ToFront(x, s) = t
  BY DEF ToFront
<1> HIDE DEF w
<1>3. /\ t \in Seq(S) /\ Len(t) = Len(w) + 1 /\ t[1] = x
      /\ \A i \in 2 .. Len(w) + 1 : t[i] = w[i - 1] /\ i - 1 \in 1 .. Len(w)
  BY <1>1, PushedFacts
<1> HIDE DEF t
<1>4. \A i \in 2 .. Len(t) :
         LET j == IF i - 1 < k THEN i - 1 ELSE i
         IN j \in 1 .. Len(s) /\ t[i] = s[j] /\ s[j] # x
  <2> TAKE i \in 2 .. Len(t)
  <2>1. i - 1 \in 1 .. Len(w) /\ i - 1 + 1 = i /\ t[i] = w[i - 1]
    BY <1>3
  <2>2. LET j == IF i - 1 < k THEN i - 1 ELSE i - 1 + 1
        IN j \in 1 .. Len(s) /\ w[i - 1] = s[j] /\ s[j] # x
    BY <1>1, <2>1
  <2> QED BY <2>1, <2>2
<1>5. Len(t) = IF k = Len(s) + 1 THEN Len(s) + 1 ELSE Len(s)
  BY <1>1, <1>3
<1>6. Len(t) \in Nat \ {0}
  BY <1>1, <1>3
<1>7. k # Len(s) + 1 => s[k] = x
  BY <1>1
<1> HIDE DEF t
<1> QED BY ONLY <1>2, <1>3, <1>4, <1>5, <1>6, <1>7
-----------------------------------------------------------------------------
LimiterTypes ==
  /\ now \in Nat
  /\ opened \in Nat /\ opened <= now
  /\ siteOrder \in Seq(LimitedSites)
  /\ DOMAIN buckets \subseteq LimitedSites
  /\ \A s \in DOMAIN buckets : buckets[s] \in Buckets /\ buckets[s].lastRefill <= now
  /\ checks \in [Checkers -> Checks \union {NoCheck}]
  /\ \A c \in Checkers : checks[c].at <= now
  /\ granted \in [LimitedSites -> Nat]
  /\ evictions \in [LimitedSites -> Nat]

(* What a site may be granted in the period if it has a full bucket at the *)
(* start, and what it may still be granted now.                            *)
Room == Capacity + Limit * (now - opened)

Worth(s) ==
  IF s \in DOMAIN buckets /\ buckets[s].lastRefill >= opened
  THEN buckets[s].tokens + Limit * (now - buckets[s].lastRefill)
  ELSE Room

Bounded ==
  \A s \in LimitedSites :
    granted[s] * Interval + Worth(s) <= (1 + evictions[s]) * Room

LimiterInv == LimiterTypes /\ Bounded

LEMMA CapacityNat == Capacity \in Nat
BY LimiterAssumption DEF Capacity

LEMMA NoCheckFacts == NoCheck.at = 0 /\ \A k \in Checks : k.at \in Nat
BY DEF NoCheck, Checks

LEMMA Products ==
  /\ \A a, b \in Nat : a * b \in Nat
  /\ \A a, b, c \in Nat : (a + b) * c = a * c + b * c
  /\ \A a, b, c \in Nat : a * (b + c) = a * b + a * c
  /\ \A a, b, c \in Nat : b <= c => a * b <= a * c
OBVIOUS

LEMMA OneMore ==
  ASSUME NEW a \in Nat, NEW c \in Nat
  PROVE  /\ a * c \in Nat /\ (1 + a) * c \in Nat
         /\ (a + 1) * c = a * c + 1 * c
         /\ (1 + (a + 1)) * c = (1 + a) * c + 1 * c
OBVIOUS

LEMMA WorthNat ==
  ASSUME LimiterTypes
  PROVE  /\ Room \in Nat
         /\ \A s \in LimitedSites : Worth(s) \in Nat
<1>1. /\ Limit \in Nat /\ Capacity \in Nat /\ now - opened \in Nat
  BY LimiterAssumption, CapacityNat DEF LimiterTypes
<1>2. Room \in Nat
  BY <1>1, Products DEF Room
<1>3. ASSUME NEW s \in DOMAIN buckets
      PROVE  buckets[s].tokens + Limit * (now - buckets[s].lastRefill) \in Nat
  <2>1. buckets[s].tokens \in Nat /\ now - buckets[s].lastRefill \in Nat
    BY <1>1 DEF LimiterTypes, Buckets
  <2> QED BY <1>1, <2>1, Products
<1> QED BY <1>2, <1>3 DEF Worth

LEMMA WorthNat_Next == (LimiterTypes => \A s \in LimitedSites : Worth(s) \in Nat)'
<1>1. LimiterTypes => \A s \in LimitedSites : Worth(s) \in Nat
  BY WorthNat
<1> QED BY <1>1, PTL

(* A refill turns time into tokens, and never into more than the rate.     *)
LEMMA RefillFacts ==
  ASSUME NEW b \in Buckets, NEW at \in Nat, now \in Nat, b.lastRefill <= now, at <= now
  PROVE  /\ Refilled(b, at) \in Buckets
         /\ Refilled(b, at).lastRefill <= now
         /\ Refilled(b, at).lastRefill >= b.lastRefill
         /\ Refilled(b, at).lastRefill >= at
         /\ at <= b.lastRefill \/ Refilled(b, at).lastRefill = at
         /\ Refilled(b, at).tokens + Limit * (now - Refilled(b, at).lastRefill)
              <= b.tokens + Limit * (now - b.lastRefill)
<1>1. CASE at <= b.lastRefill
  <2>1. Refilled(b, at) = b
    BY <1>1 DEF Refilled
  <2>2. b.lastRefill \in Nat /\ now - b.lastRefill \in Nat /\ Limit \in Nat /\ b.tokens \in Nat
    BY LimiterAssumption, CapacityNat DEF Buckets
  <2>3. Limit * (now - b.lastRefill) \in Nat
    BY <2>2, Products
  <2> QED BY <1>1, <2>1, <2>2, <2>3
<1>2. CASE ~ (at <= b.lastRefill)
  <2> DEFINE d == at - b.lastRefill
             e == now - at
             g == d * Limit
  <2>1. d \in Nat /\ e \in Nat /\ now - b.lastRefill = d + e /\ Limit \in Nat
    BY <1>2, LimiterAssumption DEF Buckets
  <2>2. g \in Nat /\ Limit * (d + e) = g + Limit * e /\ Limit * e \in Nat
    <3>1. d * Limit = Limit * d
      BY <2>1
    <3> QED BY <2>1, <3>1, Products
  <2>3. Refilled(b, at) = [tokens |-> AtMost(b.tokens + g, Capacity), lastRefill |-> at]
    BY <1>2 DEF Refilled
  <2> HIDE DEF d, e, g
  <2>4. AtMost(b.tokens + g, Capacity) \in 0 .. Capacity
        /\ AtMost(b.tokens + g, Capacity) <= b.tokens + g
    BY <2>2, CapacityNat DEF AtMost, Buckets
  <2>5. now - at = e
    BY DEF e
  <2>6. b.tokens \in Nat
    BY CapacityNat DEF Buckets
  <2> QED BY <1>2, <2>1, <2>2, <2>3, <2>4, <2>5, <2>6, CapacityNat DEF Buckets
<1> QED BY <1>1, <1>2
-----------------------------------------------------------------------------
LEMMA LimiterInit_Inv == ClockInit /\ LimiterInit => LimiterInv
<1> SUFFICES ASSUME ClockInit, LimiterInit PROVE LimiterInv
  OBVIOUS
<1> USE DEF ClockInit, LimiterInit
<1>1. LimiterTypes
  <2>1. checks \in [Checkers -> Checks \union {NoCheck}] /\ \A c \in Checkers : checks[c].at <= now
    BY NoCheckFacts
  <2>2. siteOrder \in Seq(LimitedSites) /\ DOMAIN buckets = {}
    OBVIOUS
  <2>3. granted \in [LimitedSites -> Nat] /\ evictions \in [LimitedSites -> Nat]
    OBVIOUS
  <2> QED BY <2>1, <2>2, <2>3 DEF LimiterTypes
<1>2. \A s \in LimitedSites : Worth(s) = Room
  BY DEF Worth
<1>3. Room \in Nat
  BY <1>1, WorthNat
<1>4. Interval \in Nat
  BY LimiterAssumption
<1> QED BY <1>1, <1>2, <1>3, <1>4 DEF LimiterInv, Bounded

(* A site that goes from the map to a full bucket at its next request is   *)
(* counted as evicted.                                                     *)
LEMMA CheckEnd_Inv ==
  ASSUME LimiterInv, NEW c \in Checkers, CheckEnd(c)
  PROVE  LimiterInv'
<1> DEFINE s == checks[c].site
           at == checks[c].at
           b == Refilled(BucketOf(s, at), at)
           allowed == b.tokens >= Interval
           order == Capped(ToFront(s, siteOrder), MaxSites)
           kept == (DOMAIN buckets \union {s}) \intersect Listed(order)
           taken == IF allowed THEN [b EXCEPT !.tokens = @ - Interval] ELSE b
<1> USE DEF LimiterInv
<1>1. s \in LimitedSites /\ at \in Nat /\ at <= now
  BY DEF CheckEnd, LimiterTypes, Checks
<1>2. order \in Seq(LimitedSites) /\ s \in Listed(order)
  BY <1>1, FrontFacts, LimiterAssumption DEF LimiterTypes
<1>3. BucketOf(s, at) \in Buckets /\ BucketOf(s, at).lastRefill <= now
  BY <1>1, CapacityNat DEF BucketOf, FullBucket, LimiterTypes, Buckets
<1>4. /\ b \in Buckets /\ b.lastRefill <= now /\ b.lastRefill >= at
      /\ b.lastRefill >= BucketOf(s, at).lastRefill
      /\ at <= BucketOf(s, at).lastRefill \/ b.lastRefill = at
      /\ b.tokens + Limit * (now - b.lastRefill)
           <= BucketOf(s, at).tokens + Limit * (now - BucketOf(s, at).lastRefill)
  BY <1>1, <1>3, RefillFacts DEF LimiterTypes
<1>5. /\ taken \in Buckets /\ taken.lastRefill = b.lastRefill
      /\ taken.tokens = IF allowed THEN b.tokens - Interval ELSE b.tokens
  BY <1>4, LimiterAssumption, CapacityNat DEF Buckets
<1>6. /\ siteOrder' = order
      /\ buckets' = [x \in kept |-> IF x # s THEN buckets[x] ELSE taken]
      /\ granted' = IF allowed /\ at >= opened
                    THEN [granted EXCEPT ![s] = @ + 1] ELSE granted
      /\ evictions' = [x \in LimitedSites |->
                         IF x \in DOMAIN buckets \ kept
                         THEN evictions[x] + 1 ELSE evictions[x]]
      /\ checks' = [checks EXCEPT ![c] = NoCheck]
      /\ UNCHANGED <<opened, now>>
  BY DEF CheckEnd
<1>7. s \in kept /\ kept \subseteq DOMAIN buckets \union {s}
  BY <1>2
<1> HIDE DEF s, at, b, allowed, order, kept, taken
<1>8. LimiterTypes'
  <2>1. DOMAIN buckets' \subseteq LimitedSites
    BY <1>1, <1>6, <1>7 DEF LimiterTypes
  <2>2. \A x \in DOMAIN buckets' : buckets'[x] \in Buckets /\ buckets'[x].lastRefill <= now
    BY <1>4, <1>5, <1>6, <1>7 DEF LimiterTypes
  <2>3. granted' \in [LimitedSites -> Nat] /\ evictions' \in [LimitedSites -> Nat]
    BY <1>1, <1>6 DEF LimiterTypes
  <2>4. /\ checks' \in [Checkers -> Checks \union {NoCheck}]
        /\ \A k \in Checkers : checks'[k].at <= now
    BY <1>6, NoCheckFacts DEF LimiterTypes
  <2> QED BY <1>2, <1>6, <2>1, <2>2, <2>3, <2>4 DEF LimiterTypes
<1>9. Room' = Room /\ Room \in Nat
  BY <1>6, WorthNat DEF Room
<1>10. ASSUME NEW x \in LimitedSites
       PROVE  (granted[x] * Interval + Worth(x) <= (1 + evictions[x]) * Room)'
  <2>0. /\ granted[x] * Interval + Worth(x) <= (1 + evictions[x]) * Room
        /\ Worth(x) \in Nat /\ granted[x] \in Nat /\ evictions[x] \in Nat /\ Interval \in Nat
        /\ granted[x] * Interval \in Nat
    BY WorthNat, LimiterAssumption, Products DEF Bounded, LimiterTypes
  <2>1. CASE x # s /\ x \in DOMAIN buckets \ kept
    <3>1. granted'[x] = granted[x] /\ evictions'[x] = evictions[x] + 1 /\ Worth(x)' = Room
      BY <1>1, <1>6, <1>9, <2>1 DEF Worth, LimiterTypes
    <3>2. (1 + (evictions[x] + 1)) * Room = (1 + evictions[x]) * Room + 1 * Room
      BY <1>9, <2>0, OneMore
    <3> QED BY <1>9, <2>0, <3>1, <3>2
  <2>2. CASE x # s /\ x \notin DOMAIN buckets \ kept
    <3>1. granted'[x] = granted[x] /\ evictions'[x] = evictions[x]
      BY <1>1, <1>6, <2>2 DEF LimiterTypes
    <3>2. Worth(x)' = Worth(x)
      BY <1>6, <1>7, <1>9, <2>2 DEF Worth
    <3> QED BY <1>9, <2>0, <3>1, <3>2
  <2>3. CASE x = s
    <3>1. /\ evictions'[x] = evictions[x]
          /\ granted'[x] = IF allowed /\ at >= opened THEN granted[x] + 1 ELSE granted[x]
      BY <1>1, <1>6, <1>7, <2>3 DEF LimiterTypes
    <3>2. (granted[x] + 1) * Interval = granted[x] * Interval + 1 * Interval
      BY <2>0, OneMore
    <3>3. Worth(x)' = IF b.lastRefill >= opened
                      THEN taken.tokens + Limit * (now - b.lastRefill) ELSE Room
      BY <1>5, <1>6, <1>7, <1>9, <2>3 DEF Worth
    <3>4. Worth(x)' + (IF allowed /\ at >= opened THEN Interval ELSE 0) <= Worth(x)
      <4> DEFINE left == Limit * (now - b.lastRefill)
                 most == Limit * (now - opened)
      <4>1. /\ b.tokens \in Nat /\ b.tokens <= Capacity /\ b.lastRefill \in Nat
            /\ taken.tokens \in Nat
            /\ taken.tokens + (IF allowed /\ at >= opened THEN Interval ELSE 0) <= b.tokens
        BY <1>4, <1>5, <2>0, CapacityNat DEF Buckets, allowed
      <4>2. /\ now \in Nat /\ opened \in Nat /\ opened <= now /\ Limit \in Nat
            /\ left \in Nat /\ most \in Nat /\ Room = Capacity + most
        <5>1. /\ now - b.lastRefill \in Nat /\ now - opened \in Nat /\ Limit \in Nat
              /\ now \in Nat /\ opened \in Nat /\ opened <= now
          <6>1. now \in Nat /\ opened \in Nat /\ opened <= now
            BY DEF LimiterTypes
          <6> QED BY <1>4, <4>1, <6>1, LimiterAssumption
        <5> QED BY <5>1, Products DEF Room
      <4>3. CASE b.lastRefill < opened
        <5>1. Worth(x) = Room
          BY <1>3, <1>4, <2>3, <4>1, <4>2, <4>3 DEF Worth, BucketOf, Buckets
        <5> QED BY <1>1, <1>4, <3>3, <4>1, <4>2, <4>3, <5>1, <1>9
      <4>4. CASE b.lastRefill >= opened
        <5>1. Worth(x)' = taken.tokens + left
          BY <3>3, <4>4
        <5>2. CASE s \in DOMAIN buckets /\ buckets[s].lastRefill >= opened
          <6>1. Worth(x) >= b.tokens + left
            BY <1>4, <2>3, <5>2 DEF Worth, BucketOf
          <6> HIDE DEF left
          <6> QED BY <2>0, <4>1, <4>2, <5>1, <6>1
        <5>3. CASE ~ (s \in DOMAIN buckets /\ buckets[s].lastRefill >= opened)
          <6>1. Worth(x) = Capacity + most
            BY <2>3, <4>2, <5>3 DEF Worth
          <6>2. left <= most
            <7>1. now - b.lastRefill \in Nat /\ now - opened \in Nat
                  /\ now - b.lastRefill <= now - opened
              BY <1>4, <4>1, <4>2, <4>4
            <7> QED BY <4>2, <7>1, Products
          <6> HIDE DEF left, most
          <6> QED BY <2>0, <4>1, <4>2, <5>1, <6>1, <6>2, CapacityNat
        <5> QED BY <5>2, <5>3
      <4> QED BY <1>4, <4>1, <4>2, <4>3, <4>4
    <3> DEFINE g == granted[x] * Interval
               r == (1 + evictions[x]) * Room
               h == (granted[x] + 1) * Interval
    <3>5. g \in Nat /\ r \in Nat /\ h = g + Interval /\ g + Worth(x) <= r
      BY <1>9, <2>0, <3>2, Products
    <3>6. Worth(x)' \in Nat
      BY <1>8, WorthNat_Next
    <3>7. CASE allowed /\ at >= opened
      <4>1. (granted[x] * Interval)' = h /\ ((1 + evictions[x]) * Room)' = r
        BY <1>9, <3>1, <3>7
      <4> HIDE DEF g, h, r
      <4> QED BY <2>0, <3>4, <3>5, <3>6, <3>7, <4>1
    <3>8. CASE ~ (allowed /\ at >= opened)
      <4>1. (granted[x] * Interval)' = g /\ ((1 + evictions[x]) * Room)' = r
        BY <1>9, <3>1, <3>8
      <4> HIDE DEF g, h, r
      <4> QED BY <2>0, <3>4, <3>5, <3>6, <3>8, <4>1
    <3> QED BY <3>7, <3>8
  <2> QED BY <2>1, <2>2, <2>3
<1> QED BY <1>8, <1>10 DEF Bounded

LEMMA Elapse_Inv ==
  ASSUME LimiterInv, Elapse, UNCHANGED limiterVars
  PROVE  LimiterInv'
<1> USE DEF LimiterInv
<1>1. /\ UNCHANGED <<buckets, siteOrder, checks, opened, granted, evictions>>
      /\ now' = now + 1 /\ now \in Nat /\ opened \in Nat /\ opened <= now /\ Limit \in Nat
  BY LimiterAssumption DEF limiterVars, Elapse, LimiterTypes
<1>2. LimiterTypes'
  <2>1. \A k \in Checkers : checks[k].at \in Nat
    BY NoCheckFacts DEF LimiterTypes
  <2> QED BY <1>1, <2>1 DEF LimiterTypes, Buckets
<1>3. Room' = Room + Limit /\ Room \in Nat
  <2>1. now - opened \in Nat /\ now' - opened = (now - opened) + 1
    BY <1>1
  <2>2. Limit * (now' - opened) = Limit * (now - opened) + Limit
    BY <1>1, <2>1, Products
  <2>3. Limit * (now - opened) \in Nat
    BY <1>1, <2>1, Products
  <2> QED BY <1>1, <2>2, <2>3, CapacityNat DEF Room
<1>4. ASSUME NEW s \in LimitedSites
      PROVE  Worth(s)' = Worth(s) + Limit /\ Worth(s) \in Nat
  <2>1. CASE s \in DOMAIN buckets /\ buckets[s].lastRefill >= opened
    <3>1. /\ buckets[s].lastRefill \in Nat /\ buckets[s].lastRefill <= now
          /\ buckets[s].tokens \in Nat
      BY <2>1, CapacityNat DEF LimiterTypes, Buckets
    <3>2. now - buckets[s].lastRefill \in Nat
          /\ now' - buckets[s].lastRefill = (now - buckets[s].lastRefill) + 1
      BY <1>1, <3>1
    <3>3. Limit * (now' - buckets[s].lastRefill)
            = Limit * (now - buckets[s].lastRefill) + Limit
      BY <1>1, <3>2, Products
    <3>4. Limit * (now - buckets[s].lastRefill) \in Nat
      BY <1>1, <3>2, Products
    <3> QED BY <1>1, <2>1, <3>1, <3>3, <3>4 DEF Worth
  <2>2. CASE ~ (s \in DOMAIN buckets /\ buckets[s].lastRefill >= opened)
    BY <1>1, <1>3, <2>2 DEF Worth
  <2> QED BY <2>1, <2>2
<1>5. ASSUME NEW s \in LimitedSites
      PROVE  (granted[s] * Interval + Worth(s) <= (1 + evictions[s]) * Room)'
  <2>1. /\ granted[s] * Interval + Worth(s) <= (1 + evictions[s]) * Room
        /\ granted[s] * Interval \in Nat /\ 1 + evictions[s] \in Nat /\ 1 + evictions[s] >= 1
    <3>1. /\ granted[s] \in Nat /\ evictions[s] \in Nat /\ Interval \in Nat
          /\ granted[s] * Interval + Worth(s) <= (1 + evictions[s]) * Room
      BY LimiterAssumption DEF Bounded, LimiterTypes
    <3> QED BY <3>1, OneMore
  <2>2. /\ (1 + evictions[s]) * (Room + Limit)
             = (1 + evictions[s]) * Room + (1 + evictions[s]) * Limit
        /\ (1 + evictions[s]) * Room \in Nat
    BY <1>1, <1>3, <2>1, Products
  <2>3. (1 + evictions[s]) * Limit >= Limit /\ (1 + evictions[s]) * Limit \in Nat
    <3>1. (1 + evictions[s]) * Limit = Limit + evictions[s] * Limit
          /\ evictions[s] * Limit \in Nat
      BY <1>1, Products DEF LimiterTypes
    <3> QED BY <1>1, <3>1
  <2> DEFINE g == granted[s] * Interval
             r == (1 + evictions[s]) * Room
             l == (1 + evictions[s]) * Limit
  <2>4. g + (Worth(s) + Limit) <= r + l
    <3> HIDE DEF g, r, l, LimiterInv
    <3>1. g \in Nat /\ r \in Nat /\ l \in Nat /\ g + Worth(s) <= r /\ l >= Limit
      BY <2>1, <2>2, <2>3 DEF g, r, l
    <3> QED BY <1>1, <1>4, <3>1
  <2> QED BY <1>1, <1>3, <1>4, <2>2, <2>4
<1> QED BY <1>2, <1>5 DEF Bounded

LEMMA OpenPeriod_Inv ==
  ASSUME LimiterInv, OpenPeriod
  PROVE  LimiterInv'
<1> USE DEF LimiterInv
<1>1. /\ UNCHANGED <<buckets, siteOrder, checks, now>> /\ opened' = now /\ now \in Nat
      /\ granted' = [s \in LimitedSites |-> 0] /\ evictions' = [s \in LimitedSites |-> 0]
  BY DEF OpenPeriod, LimiterTypes
<1>2. LimiterTypes'
  BY <1>1 DEF LimiterTypes
<1>3. Limit * 0 = 0 /\ 0 * Interval = 0
  BY LimiterAssumption
<1>4. Room' = Capacity
  BY <1>1, <1>3, CapacityNat DEF Room
<1>5. \A s \in LimitedSites : Worth(s)' <= Capacity /\ Worth(s)' \in Nat
  <2> TAKE s \in LimitedSites
  <2>1. CASE s \in DOMAIN buckets /\ buckets[s].lastRefill >= now
    <3>1. /\ now - buckets[s].lastRefill = 0
          /\ buckets[s].tokens \in Nat /\ buckets[s].tokens <= Capacity
      BY <1>1, <2>1, CapacityNat DEF LimiterTypes, Buckets
    <3>2. Worth(s)' = buckets[s].tokens + Limit * (now - buckets[s].lastRefill)
      BY <1>1, <2>1 DEF Worth
    <3> QED BY <1>3, <3>1, <3>2
  <2>2. CASE ~ (s \in DOMAIN buckets /\ buckets[s].lastRefill >= now)
    BY <1>1, <1>4, <2>2, CapacityNat DEF Worth
  <2> QED BY <2>1, <2>2
<1>6. (1 + 0) * Capacity = Capacity
  BY CapacityNat
<1> QED BY <1>1, <1>2, <1>3, <1>4, <1>5, <1>6, CapacityNat DEF Bounded

LEMMA LimiterNext_Inv == LimiterInv /\ [LimiterNext]_<<limiterVars, now>> => LimiterInv'
<1> SUFFICES ASSUME LimiterInv, [LimiterNext]_<<limiterVars, now>> PROVE LimiterInv'
  OBVIOUS
<1>1. CASE \E c \in Checkers, s \in LimitedSites : CheckBegin(c, s)
  <2>1. UNCHANGED <<buckets, siteOrder, opened, granted, evictions, now>>
    BY <1>1 DEF CheckBegin
  <2>2. checks' \in [Checkers -> Checks \union {NoCheck}]
        /\ \A k \in Checkers : checks'[k].at <= now
    BY <1>1 DEF CheckBegin, LimiterInv, LimiterTypes, Checks
  <2> QED BY <2>1, <2>2 DEF LimiterInv, LimiterTypes, Bounded, Room, Worth
<1>2. CASE UNCHANGED <<limiterVars, now>>
  BY <1>2 DEF limiterVars, LimiterInv, LimiterTypes, Bounded, Room, Worth
<1> QED BY <1>1, <1>2, CheckEnd_Inv, OpenPeriod_Inv, Elapse_Inv DEF LimiterNext

(* In any period a site is granted at most a full bucket and what the rate *)
(* refills, and as much again for each time it was evicted                 *)
(* (limiter.go:114).                                                       *)
THEOREM RateBoundedHolds == LimiterSpec => []RateBounded
<1>1. LimiterInv => RateBounded
  <2> SUFFICES ASSUME LimiterInv, NEW s \in LimitedSites
               PROVE  granted[s] * Interval <= (1 + evictions[s]) * Room
    BY DEF RateBounded, Room
  <2>1. /\ granted[s] * Interval + Worth(s) <= (1 + evictions[s]) * Room
        /\ Worth(s) \in Nat /\ Room \in Nat
    BY WorthNat DEF LimiterInv, Bounded
  <2>2. granted[s] * Interval \in Nat /\ (1 + evictions[s]) * Room \in Nat
    <3>1. granted[s] \in Nat /\ evictions[s] \in Nat /\ Interval \in Nat
      BY LimiterAssumption DEF LimiterInv, LimiterTypes
    <3> QED BY <2>1, <3>1, OneMore
  <2> QED BY <2>1, <2>2
<1> QED BY LimiterInit_Inv, LimiterNext_Inv, <1>1, PTL DEF LimiterSpec
-----------------------------------------------------------------------------
RegistryTypes ==
  /\ controlPlane \in [RegistrySites -> Nat]
  /\ sites \in [RegistrySites -> Nat]
  /\ work \in [Refreshers -> [stage : {"idle", "load", "store", "lookup"},
                              site : RegistrySites \union {NoSite},
                              loaded : [RegistrySites -> Nat]]]
  /\ edits \in Nat
  /\ wasAbsent \in [Readers -> BOOLEAN]
  /\ overtaken \in [Readers -> BOOLEAN]

(* FoundWhenActive, strengthened to every stage of a GetSite that missed:  *)
(* what it goes on with has the site, or the site was not active.          *)
Founded(r) ==
  LET s == work[r].site
  IN /\ work[r].stage = "lookup" => s # NoSite
     /\ s # NoSite =>
          /\ work[r].stage = "load" => controlPlane[s] # 0 \/ wasAbsent[r]
          /\ work[r].stage = "store" => work[r].loaded[s] # 0 \/ wasAbsent[r]
          /\ work[r].stage = "lookup" => sites[s] # 0 \/ wasAbsent[r] \/ overtaken[r]

RegistryInv == RegistryTypes /\ \A r \in Readers : Founded(r)

LEMMA RegistryInit_Inv == RegistryInit => RegistryInv
<1> SUFFICES ASSUME RegistryInit PROVE RegistryInv
  OBVIOUS
<1>1. /\ Idling \in [stage : {"idle", "load", "store", "lookup"},
                     site : RegistrySites \union {NoSite}, loaded : [RegistrySites -> Nat]]
      /\ Idling.stage = "idle" /\ Idling.site = NoSite
  BY DEF Idling, Empty
<1>2. \A r \in Readers : work[r] = Idling
  BY DEF RegistryInit, Refreshers
<1>3. RegistryTypes
  BY <1>1 DEF RegistryInit, RegistryTypes
<1> QED BY <1>1, <1>2, <1>3 DEF RegistryInv, Founded

LEMMA WorkFacts ==
  ASSUME RegistryTypes, NEW r \in Refreshers,
         NEW w \in [stage : {"idle", "load", "store", "lookup"},
                    site : RegistrySites \union {NoSite}, loaded : [RegistrySites -> Nat]],
         work' = [work EXCEPT ![r] = w], UNCHANGED <<controlPlane, sites>>,
         edits' \in Nat, wasAbsent' \in [Readers -> BOOLEAN],
         overtaken' \in [Readers -> BOOLEAN]
  PROVE  RegistryTypes' /\ work'[r] = w /\ \A x \in Refreshers \ {r} : work'[x] = work[x]
BY DEF RegistryTypes

LEMMA RegistryNext_Inv ==
  ASSUME RegistryInv, [RegistryNext]_registryVars
  PROVE  RegistryInv'
<1>0. /\ RegistryTypes /\ \A r \in Readers : Founded(r) /\ r \in Refreshers /\ r # Ticker
      /\ Ticker \in Refreshers
  BY RegistryAssumption DEF RegistryInv, Refreshers
<1>1. ASSUME NEW s \in RegistrySites, Edit(s)
      PROVE  RegistryInv'
  <2>1. PICK v \in {0, edits + 2} : controlPlane' = [controlPlane EXCEPT ![s] = v]
    BY <1>1 DEF Edit
  <2>2. RegistryTypes'
    BY <1>0, <1>1, <2>1 DEF Edit, RegistryTypes
  <2>3. ASSUME NEW r \in Readers PROVE Founded(r)'
    <3>1. /\ UNCHANGED <<work, sites, overtaken>>
          /\ wasAbsent'[r] = (wasAbsent[r] \/ (work[r].site = s /\ controlPlane'[s] = 0))
      BY <1>1 DEF Edit
    <3>2. work[r].site # s => controlPlane'[work[r].site] = controlPlane[work[r].site]
      BY <1>0, <2>1 DEF RegistryTypes
    <3> QED BY <1>0, <3>1, <3>2 DEF Founded
  <2> QED BY <2>2, <2>3 DEF RegistryInv
<1>2. ASSUME NEW r \in Refreshers, work' = [work EXCEPT ![r] = Loading(NoSite)],
             UNCHANGED <<controlPlane, sites, edits, wasAbsent, overtaken>>
      PROVE  RegistryInv'
  <2>1. /\ Loading(NoSite) \in [stage : {"idle", "load", "store", "lookup"},
                    site : RegistrySites \union {NoSite}, loaded : [RegistrySites -> Nat]]
        /\ Loading(NoSite).stage = "load" /\ Loading(NoSite).site = NoSite
    BY DEF Loading, Idling, Empty
  <2>2. /\ RegistryTypes' /\ work'[r] = Loading(NoSite)
        /\ \A x \in Refreshers \ {r} : work'[x] = work[x]
    BY <1>0, <1>2, <2>1, WorkFacts DEF RegistryTypes
  <2> QED BY <1>0, <1>2, <2>1, <2>2 DEF RegistryInv, Founded
<1>3. ASSUME NEW r \in Readers, NEW s \in RegistrySites, GetSiteMisses(r, s)
      PROVE  RegistryInv'
  <2>1. /\ Loading(s) \in [stage : {"idle", "load", "store", "lookup"},
                    site : RegistrySites \union {NoSite}, loaded : [RegistrySites -> Nat]]
        /\ Loading(s).stage = "load" /\ Loading(s).site = s
    BY DEF Loading, Idling, Empty
  <2>2. /\ UNCHANGED <<controlPlane, sites, edits>>
        /\ work' = [work EXCEPT ![r] = Loading(s)]
        /\ wasAbsent' = [wasAbsent EXCEPT ![r] = controlPlane[s] = 0]
        /\ overtaken' = [overtaken EXCEPT ![r] = FALSE]
    BY <1>3 DEF GetSiteMisses
  <2>3. wasAbsent' \in [Readers -> BOOLEAN] /\ overtaken' \in [Readers -> BOOLEAN]
    BY <1>0, <2>2 DEF RegistryTypes
  <2>4. /\ RegistryTypes' /\ work'[r] = Loading(s)
        /\ \A x \in Refreshers \ {r} : work'[x] = work[x]
    BY <1>0, <2>1, <2>2, <2>3, WorkFacts DEF RegistryTypes
  <2>5. ASSUME NEW x \in Readers PROVE Founded(x)'
    <3>1. CASE x = r
      <4>1. wasAbsent'[r] = (controlPlane[s] = 0)
        BY <1>0, <2>2 DEF RegistryTypes
      <4> QED BY <2>1, <2>2, <2>4, <3>1, <4>1 DEF Founded
    <3>2. CASE x # r
      <4>1. work'[x] = work[x] /\ wasAbsent'[x] = wasAbsent[x] /\ overtaken'[x] = overtaken[x]
        BY <1>0, <2>2, <2>4, <3>2 DEF RegistryTypes
      <4> QED BY <1>0, <2>2, <4>1 DEF Founded
    <3> QED BY <3>1, <3>2
  <2> QED BY <2>4, <2>5 DEF RegistryInv
<1>4. ASSUME NEW r \in Refreshers, LoadSites(r)
      PROVE  RegistryInv'
  <2> DEFINE w == [work[r] EXCEPT !.stage = "store", !.loaded = controlPlane]
  <2>1. /\ w \in [stage : {"idle", "load", "store", "lookup"},
                  site : RegistrySites \union {NoSite}, loaded : [RegistrySites -> Nat]]
        /\ w.stage = "store" /\ w.site = work[r].site /\ w.loaded = controlPlane
    BY <1>0 DEF RegistryTypes
  <2>2. /\ work' = [work EXCEPT ![r] = w] /\ work[r].stage = "load"
        /\ UNCHANGED <<controlPlane, sites, edits, wasAbsent, overtaken>>
    BY <1>0, <1>4 DEF LoadSites, RegistryTypes
  <2> HIDE DEF w
  <2>3. /\ RegistryTypes' /\ work'[r] = w
        /\ \A x \in Refreshers \ {r} : work'[x] = work[x]
    BY <1>0, <2>1, <2>2, WorkFacts DEF RegistryTypes
  <2> QED BY <1>0, <2>1, <2>2, <2>3 DEF RegistryInv, Founded
<1>5. ASSUME NEW r \in Refreshers, work' = [work EXCEPT ![r] = Idling],
             UNCHANGED <<controlPlane, sites, edits, wasAbsent, overtaken>>
      PROVE  RegistryInv'
  <2>1. /\ Idling \in [stage : {"idle", "load", "store", "lookup"},
                    site : RegistrySites \union {NoSite}, loaded : [RegistrySites -> Nat]]
        /\ Idling.stage = "idle" /\ Idling.site = NoSite
    BY DEF Idling, Empty
  <2>2. /\ RegistryTypes' /\ work'[r] = Idling
        /\ \A x \in Refreshers \ {r} : work'[x] = work[x]
    BY <1>0, <1>5, <2>1, WorkFacts DEF RegistryTypes
  <2> QED BY <1>0, <1>5, <2>1, <2>2 DEF RegistryInv, Founded
<1>6. ASSUME NEW r \in Refreshers, StoreSites(r)
      PROVE  RegistryInv'
  <2> DEFINE w == IF work[r].site = NoSite THEN Idling
                  ELSE [Loading(work[r].site) EXCEPT !.stage = "lookup"]
  <2>1. /\ w \in [stage : {"idle", "load", "store", "lookup"},
                  site : RegistrySites \union {NoSite}, loaded : [RegistrySites -> Nat]]
        /\ w.site = work[r].site
        /\ w.stage = IF work[r].site = NoSite THEN "idle" ELSE "lookup"
    BY <1>0 DEF RegistryTypes, Idling, Loading, Empty
  <2>2. /\ work' = [work EXCEPT ![r] = w] /\ work[r].stage = "store"
        /\ sites' = work[r].loaded /\ UNCHANGED <<controlPlane, edits, wasAbsent>>
        /\ overtaken' = [x \in Readers |->
                           overtaken[x] \/ (x # r /\ work[x].stage = "lookup")]
    BY <1>6 DEF StoreSites, StoredSites
  <2> HIDE DEF w
  <2>3. RegistryTypes' /\ work'[r] = w /\ \A x \in Refreshers \ {r} : work'[x] = work[x]
    BY <1>0, <2>1, <2>2 DEF RegistryTypes
  <2>4. ASSUME NEW x \in Readers PROVE Founded(x)'
    <3>1. CASE x = r
      BY <1>0, <2>1, <2>2, <2>3, <3>1 DEF Founded
    <3>2. CASE x # r
      BY <1>0, <2>2, <2>3, <3>2 DEF Founded
    <3> QED BY <3>1, <3>2
  <2> QED BY <2>3, <2>4 DEF RegistryInv
<1>7. CASE UNCHANGED registryVars
  BY <1>0, <1>7 DEF registryVars, RegistryInv, RegistryTypes, Founded
<1>8. CASE RegistryNext
  <2>1. CASE Tick
    BY <1>0, <1>2, <2>1 DEF Tick
  <2>2. ASSUME NEW r \in Readers, ListSitesRefreshes(r) \/ LookupAgain(r)
        PROVE  RegistryInv'
    BY <1>0, <1>2, <1>5, <2>2 DEF ListSitesRefreshes, LookupAgain
  <2>3. ASSUME NEW r \in Refreshers, LoadFails(r)
        PROVE  RegistryInv'
    BY <1>5, <2>3 DEF LoadFails
  <2> QED BY <1>1, <1>3, <1>4, <1>6, <1>8, <2>1, <2>2, <2>3 DEF RegistryNext, Refresh
<1> QED BY <1>7, <1>8

(* A site that was active throughout a GetSite that missed is found by its *)
(* second lookup, for any number of refreshes at the same time and edits   *)
(* of the control plane, unless another refresh stored in between          *)
(* (site_registry.go:174).                                                 *)
THEOREM FoundWhenActiveHolds == RegistrySpec => []FoundWhenActive
<1>1. RegistryInv => FoundWhenActive
  BY DEF RegistryInv, Founded, FoundWhenActive
<1> QED BY RegistryInit_Inv, RegistryNext_Inv, <1>1, PTL DEF RegistrySpec
-----------------------------------------------------------------------------
CacheCalls ==
  [step : {"none", "set", "get", "found", "delete", "serve"}, key : Keys \union {0},
   at : Nat, object : Nat, value : Nat]

CacheTypes ==
  /\ now \in Nat
  /\ objects \in Seq([value : Nat, expiresAt : Nat])
  /\ \A k \in DOMAIN cached : cached[k] \in 1 .. Len(objects)
  /\ setEnded \in Seq(Nat) /\ sets = Len(setEnded)
  /\ \A v \in 1 .. Len(setEnded) : setEnded[v] <= now
  /\ calls \in [Callers -> CacheCalls]
  /\ \A c \in Callers : calls[c].at <= now
  /\ served.began \in Nat

(* The Set of value v stored it no longer than ttl before t.               *)
Lasts(ends, v, t) == v \in 1 .. Len(ends) /\ t <= ends[v] + CacheTTL

(* NeverServesStale, strengthened: so did that of every object's value     *)
(* before its expiry, and that of the object a Get is about to serve       *)
(* before that Get began.  A Set that replaces the value meanwhile stores  *)
(* after the Get began, however old the clock of its own.                  *)
Lasting ==
  /\ \A o \in 1 .. Len(objects) : Lasts(setEnded, objects[o].value, objects[o].expiresAt)
  /\ \A c \in Callers :
       /\ calls[c].step = "set" => calls[c].value \in 1 .. Len(setEnded)
       /\ calls[c].step \in {"found", "serve"} => calls[c].object \in 1 .. Len(objects)
       /\ calls[c].step = "serve" => Lasts(setEnded, objects[calls[c].object].value, calls[c].at)
  /\ served # NothingServed => Lasts(setEnded, served.value, served.began)

CacheInv == CacheTypes /\ Lasting

LEMMA NoCallFacts == NoCall \in CacheCalls /\ NoCall.at = 0 /\ NoCall.step = "none"
BY DEF NoCall, CacheCalls

LEMMA CacheInit_Inv == ClockInit /\ CacheInit => CacheInv
<1> SUFFICES ASSUME ClockInit, CacheInit PROVE CacheInv
  OBVIOUS
<1>1. \A c \in Callers : calls[c] = NoCall
  BY DEF CacheInit
<1>2. CacheTypes
  BY <1>1, NoCallFacts DEF ClockInit, CacheInit, CacheTypes, NothingServed
<1> QED BY <1>1, <1>2, NoCallFacts DEF CacheInit, CacheInv, Lasting

LEMMA CacheNumbers ==
  ASSUME CacheTypes
  PROVE  /\ now \in Nat /\ sets \in Nat /\ Len(objects) \in Nat /\ Len(setEnded) \in Nat
         /\ \A v \in 1 .. Len(setEnded) : setEnded[v] \in Nat
         /\ \A o \in 1 .. Len(objects) : objects[o].value \in Nat /\ objects[o].expiresAt \in Nat
<1>1. now \in Nat /\ sets \in Nat /\ Len(objects) \in Nat /\ Len(setEnded) \in Nat
  BY DEF CacheTypes
<1>2. \A v \in 1 .. Len(setEnded) : setEnded[v] \in Nat
  BY ElementOfSeq DEF CacheTypes
<1>3. \A o \in 1 .. Len(objects) : objects[o] \in [value : Nat, expiresAt : Nat]
  BY ElementOfSeq DEF CacheTypes
<1> QED BY <1>1, <1>2, <1>3

(* Values last: Set only moves the end of a Set to a later time.           *)
LEMMA LastsKept ==
  ASSUME NEW ends \in Seq(Nat), NEW later \in Seq(Nat), NEW v, NEW t \in Nat,
         Lasts(ends, v, t), Len(ends) <= Len(later),
         \A x \in 1 .. Len(ends) : ends[x] <= later[x]
  PROVE  Lasts(later, v, t)
<1>1. Len(ends) \in Nat /\ Len(later) \in Nat /\ CacheTTL \in Nat
  BY CacheAssumption
<1>2. v \in 1 .. Len(later) /\ ends[v] \in Nat /\ later[v] \in Nat
  BY SMTT(30), <1>1, ElementOfSeq DEF Lasts
<1> QED BY SMTT(30), <1>1, <1>2 DEF Lasts

(* A step of caller c that leaves the objects alone.                       *)
LEMMA CallKept ==
  ASSUME CacheInv, NEW c \in Callers, NEW call \in CacheCalls, call.at <= now,
         calls' = [calls EXCEPT ![c] = call],
         UNCHANGED <<objects, setEnded, sets, now>>,
         \A k \in DOMAIN cached' : cached'[k] \in 1 .. Len(objects),
         call.step = "set" => call.value \in 1 .. Len(setEnded),
         call.step \in {"found", "serve"} => call.object \in 1 .. Len(objects),
         call.step = "serve" => Lasts(setEnded, objects[call.object].value, call.at),
         served'.began \in Nat,
         served' # NothingServed => Lasts(setEnded', served'.value, served'.began)
  PROVE  CacheInv'
<1>1. calls'[c] = call /\ \A x \in Callers \ {c} : calls'[x] = calls[x]
  BY DEF CacheInv, CacheTypes
<1>2. CacheTypes'
  BY <1>1 DEF CacheInv, CacheTypes
<1>3. ASSUME NEW x \in Callers
      PROVE  (/\ calls[x].step = "set" => calls[x].value \in 1 .. Len(setEnded)
              /\ calls[x].step \in {"found", "serve"} => calls[x].object \in 1 .. Len(objects)
              /\ calls[x].step = "serve" =>
                   Lasts(setEnded, objects[calls[x].object].value, calls[x].at))'
  <2>1. CASE x = c
    BY <1>1, <2>1 DEF Lasts
  <2>2. CASE x # c
    BY <1>1, <2>2 DEF CacheInv, Lasting, Lasts
  <2> QED BY <2>1, <2>2
<1>4. (\A o \in 1 .. Len(objects) : Lasts(setEnded, objects[o].value, objects[o].expiresAt))'
  BY DEF CacheInv, Lasting
<1>5. (served # NothingServed => Lasts(setEnded, served.value, served.began))'
  BY DEF NothingServed
<1> QED BY <1>2, <1>3, <1>4, <1>5 DEF CacheInv, Lasting

LEMMA SetBegin_Inv ==
  ASSUME CacheInv, NEW c \in Callers, NEW k \in Keys, SetBegin(c, k)
  PROVE  CacheInv'
<1> USE DEF CacheInv, CacheTypes
<1> DEFINE call == [NoCall EXCEPT !.step = "set", !.key = k, !.at = now, !.value = sets + 1]
<1>1. /\ call \in CacheCalls /\ call.at = now /\ call.step = "set" /\ call.value = sets + 1
  <2>1. sets + 1 \in Nat /\ now \in Nat
    BY CacheNumbers
  <2> QED BY <2>1 DEF NoCall, CacheCalls
<1>2. /\ setEnded' = Append(setEnded, now) /\ sets' = sets + 1
      /\ calls' = [calls EXCEPT ![c] = call]
      /\ UNCHANGED <<cached, objects, served, now>>
  BY DEF SetBegin
<1> HIDE DEF call
<1>3. /\ setEnded' \in Seq(Nat) /\ Len(setEnded') = Len(setEnded) + 1
      /\ setEnded'[Len(setEnded) + 1] = now
      /\ \A v \in 1 .. Len(setEnded) : setEnded'[v] = setEnded[v] /\ setEnded[v] \in Nat
      /\ Len(setEnded) \in Nat
  <2>1. setEnded \in Seq(Nat) /\ Len(setEnded) \in Nat /\ now \in Nat
    BY CacheNumbers
  <2>2. \A v \in 1 .. Len(setEnded) : setEnded[v] \in Nat
    BY <2>1, ElementOfSeq
  <2>3. setEnded' = Append(setEnded, now)
    BY <1>2
  <2>4. setEnded' \in Seq(Nat) /\ Len(setEnded') = Len(setEnded) + 1
    BY ONLY <2>1, <2>3, AppendProperties
  <2>5. /\ setEnded'[Len(setEnded) + 1] = now
        /\ \A v \in 1 .. Len(setEnded) : setEnded'[v] = setEnded[v]
    BY ONLY <2>1, <2>3, AppendProperties
  <2> QED BY ONLY <2>1, <2>2, <2>4, <2>5
<1>4. calls'[c] = call /\ \A x \in Callers \ {c} : calls'[x] = calls[x]
  BY <1>2
<1>5. CacheTypes'
  <2>1. ASSUME NEW v \in 1 .. Len(setEnded') PROVE setEnded'[v] <= now
    <3>1. CASE v = Len(setEnded) + 1
      BY <1>3, <3>1, CacheNumbers
    <3>2. CASE v # Len(setEnded) + 1
      <4>1. v \in 1 .. Len(setEnded)
        BY <1>3, <3>2
      <4> QED BY <1>3, <4>1
    <3> QED BY <3>1, <3>2
  <2>2. calls' \in [Callers -> CacheCalls] /\ \A x \in Callers : calls'[x].at <= now
    BY <1>1, <1>2, <1>4
  <2> QED BY <1>2, <1>3, <2>1, <2>2
<1>6. \A v, t : Lasts(setEnded, v, t) => Lasts(setEnded', v, t)
  BY <1>3 DEF Lasts
<1>7. ASSUME NEW x \in Callers
      PROVE  (/\ calls[x].step = "set" => calls[x].value \in 1 .. Len(setEnded)
              /\ calls[x].step \in {"found", "serve"} => calls[x].object \in 1 .. Len(objects)
              /\ calls[x].step = "serve" =>
                   Lasts(setEnded, objects[calls[x].object].value, calls[x].at))'
  <2>1. CASE x = c
    BY <1>1, <1>2, <1>3, <1>4, <2>1
  <2>2. CASE x # c
    BY <1>2, <1>3, <1>4, <1>6, <2>2 DEF Lasting
  <2> QED BY <2>1, <2>2
<1>8. (\A o \in 1 .. Len(objects) : Lasts(setEnded, objects[o].value, objects[o].expiresAt))'
  BY <1>2, <1>6 DEF Lasting
<1>9. (served # NothingServed => Lasts(setEnded, served.value, served.began))'
  BY <1>2, <1>6 DEF Lasting, NothingServed
<1> QED BY <1>5, <1>7, <1>8, <1>9 DEF Lasting

(* The objects after a Set: one of them, old or new, has what it stored.   *)
LEMMA ObjectsSet ==
  ASSUME CacheTypes, NEW stored \in [value : Nat, expiresAt : Nat], NEW k, NEW order,
         IF k \in DOMAIN cached
         THEN objects' = [objects EXCEPT ![cached[k]] = stored] /\ cached' = cached
         ELSE /\ objects' = Append(objects, stored)
              /\ cached' = InMap(order, [x \in DOMAIN cached \union {k} |->
                             IF x = k THEN Len(objects) + 1 ELSE cached[x]])
  PROVE  /\ objects' \in Seq([value : Nat, expiresAt : Nat])
         /\ Len(objects) <= Len(objects') /\ Len(objects') \in Nat
         /\ \A x \in 1 .. Len(objects') :
              \/ objects'[x] = stored
              \/ x \in 1 .. Len(objects) /\ objects'[x] = objects[x]
         /\ \A x \in DOMAIN cached' : cached'[x] \in 1 .. Len(objects')
<1> USE DEF CacheTypes
<1>0. Len(objects) \in Nat
  OBVIOUS
<1>1. CASE k \in DOMAIN cached
  <2> DEFINE o == cached[k]
  <2>1. o \in 1 .. Len(objects) /\ objects' = [objects EXCEPT ![o] = stored] /\ cached' = cached
    BY <1>1
  <2>2. \A x \in DOMAIN cached' : cached'[x] \in 1 .. Len(objects)
    BY <2>1
  <2> HIDE DEF o
  <2>3. /\ objects' \in Seq([value : Nat, expiresAt : Nat]) /\ Len(objects') = Len(objects)
        /\ \A x \in 1 .. Len(objects) : objects'[x] = IF x = o THEN stored ELSE objects[x]
    BY SMTT(30), <2>1, ExceptSeq
  <2>4. /\ 1 .. Len(objects') = 1 .. Len(objects) /\ o \in 1 .. Len(objects')
        /\ objects'[o] = stored
    BY <2>1, <2>3
  <2>5. \A x \in 1 .. Len(objects') : x = o \/ objects'[x] = objects[x]
    BY <2>3, <2>4
  <2>6. \A x \in 1 .. Len(objects') :
          objects'[x] = stored \/ (x \in 1 .. Len(objects) /\ objects'[x] = objects[x])
    BY ONLY <2>4, <2>5
  <2>7. \A x \in DOMAIN cached' : cached'[x] \in 1 .. Len(objects')
    BY ONLY <2>2, <2>4
  <2>8. Len(objects) <= Len(objects') /\ Len(objects') \in Nat
    BY ONLY <1>0, <2>3
  <2> QED BY ONLY <2>3, <2>6, <2>7, <2>8
<1>2. CASE k \notin DOMAIN cached
  <2> DEFINE made == Len(objects) + 1
             map == [x \in DOMAIN cached \union {k} |-> IF x = k THEN made ELSE cached[x]]
  <2>1. objects' = Append(objects, stored) /\ cached' = InMap(order, map)
    BY <1>2
  <2>2. /\ objects' \in Seq([value : Nat, expiresAt : Nat]) /\ Len(objects') = made
        /\ objects'[made] = stored
        /\ \A x \in 1 .. Len(objects) : objects'[x] = objects[x]
    BY <2>1, AppendProperties
  <2>3. \A x \in DOMAIN map : map[x] \in 1 .. made
    BY SMTT(30), <1>0
  <2>4. \A x \in DOMAIN cached' : cached'[x] \in 1 .. made
    <3> HIDE DEF map, made
    <3> QED BY <2>1, <2>3 DEF InMap
  <2>5. ASSUME NEW x \in 1 .. made
        PROVE  objects'[x] = stored \/ (x \in 1 .. Len(objects) /\ objects'[x] = objects[x])
    <3>1. x = made \/ x \in 1 .. Len(objects)
      BY <1>0
    <3> QED BY <2>2, <3>1
  <2> QED BY <1>0, <2>2, <2>4, <2>5
<1> QED BY <1>1, <1>2

LEMMA SetEnd_Inv ==
  ASSUME CacheInv, NEW c \in Callers, SetEnd(c)
  PROVE  CacheInv'
<1> USE DEF CacheInv, CacheTypes
<1> DEFINE v == calls[c].value
           stored == [value |-> v, expiresAt |-> calls[c].at + CacheTTL]
<1>1. /\ calls[c] \in CacheCalls /\ calls[c].at \in Nat /\ calls[c].at <= now
      /\ v \in 1 .. Len(setEnded) /\ v \in Nat /\ now \in Nat /\ CacheTTL \in Nat
      /\ Len(objects) \in Nat /\ Len(setEnded) \in Nat
  BY CacheAssumption DEF SetEnd, Lasting, CacheCalls
<1>2. /\ calls' = [calls EXCEPT ![c] = NoCall]
      /\ setEnded' = [setEnded EXCEPT ![v] = now]
      /\ UNCHANGED <<sets, served, now>>
  BY DEF SetEnd
<1>3. stored \in [value : Nat, expiresAt : Nat]
      /\ stored.value = v /\ stored.expiresAt <= now + CacheTTL
  BY <1>1
<1>4. /\ objects' \in Seq([value : Nat, expiresAt : Nat])
      /\ Len(objects) <= Len(objects') /\ Len(objects') \in Nat
      /\ \A x \in 1 .. Len(objects') :
           \/ objects'[x] = stored
           \/ x \in 1 .. Len(objects) /\ objects'[x] = objects[x]
      /\ \A x \in DOMAIN cached' : cached'[x] \in 1 .. Len(objects')
  <2>1. IF calls[c].key \in DOMAIN cached
        THEN objects' = [objects EXCEPT ![cached[calls[c].key]] = stored] /\ cached' = cached
        ELSE /\ objects' = Append(objects, stored)
             /\ cached' = InMap(Capped(ToFront(calls[c].key, cacheOrder), MaxSize),
                  [x \in DOMAIN cached \union {calls[c].key} |->
                     IF x = calls[c].key THEN Len(objects) + 1 ELSE cached[x]])
    BY DEF SetEnd
  <2> HIDE DEF stored
  <2> QED BY <1>3, <2>1, ObjectsSet
<1> HIDE DEF v, stored
<1>5. /\ setEnded' \in Seq(Nat) /\ Len(setEnded') = Len(setEnded) /\ setEnded'[v] = now
      /\ \A x \in 1 .. Len(setEnded) : x # v => setEnded'[x] = setEnded[x]
  BY <1>1, <1>2, ExceptSeq
<1>6. \A x \in 1 .. Len(setEnded) : /\ setEnded[x] \in Nat /\ setEnded'[x] \in Nat
                                    /\ setEnded[x] <= setEnded'[x] /\ setEnded'[x] <= now
  <2>1. \A x \in 1 .. Len(setEnded) : setEnded[x] \in Nat /\ setEnded[x] <= now
    BY CacheNumbers
  <2>2. now \in Nat
    BY CacheNumbers
  <2> TAKE x \in 1 .. Len(setEnded)
  <2>3. setEnded'[x] = now \/ setEnded'[x] = setEnded[x]
    BY <1>5
  <2> QED BY ONLY <2>1, <2>2, <2>3, x \in 1 .. Len(setEnded)
<1>7. calls'[c] = NoCall /\ \A x \in Callers \ {c} : calls'[x] = calls[x]
  BY <1>2
<1>8. CacheTypes'
  <2>1. calls' \in [Callers -> CacheCalls] /\ \A x \in Callers : calls'[x].at <= now
    BY <1>1, <1>2, <1>7, NoCallFacts
  <2> QED BY <1>2, <1>4, <1>5, <1>6, <2>1
<1>9. ASSUME NEW x, NEW t \in Nat, Lasts(setEnded, x, t) PROVE Lasts(setEnded', x, t)
  <2>1. setEnded \in Seq(Nat) /\ Len(setEnded) <= Len(setEnded')
    BY <1>1, <1>5
  <2> QED BY <1>5, <1>6, <1>9, <2>1, LastsKept
<1>10. \A t \in Nat : t <= now + CacheTTL => Lasts(setEnded', v, t)
  BY <1>1, <1>5 DEF Lasts
<1>11. ASSUME NEW x \in 1 .. Len(objects')
       PROVE  /\ Lasts(setEnded', objects'[x].value, objects'[x].expiresAt)
              /\ \A t \in Nat : t <= now /\ x \in 1 .. Len(objects)
                                /\ Lasts(setEnded, objects[x].value, t) =>
                                  Lasts(setEnded', objects'[x].value, t)
  <2>1. CASE objects'[x] = stored
    <3>1. stored.expiresAt \in Nat
      BY <1>3
    <3>2. \A t \in Nat : t <= now => t <= now + CacheTTL
      BY <1>1
    <3> QED BY <1>3, <1>10, <2>1, <3>1, <3>2
  <2>2. CASE x \in 1 .. Len(objects) /\ objects'[x] = objects[x]
    <3>1. objects[x].expiresAt \in Nat /\ Lasts(setEnded, objects[x].value, objects[x].expiresAt)
      BY <2>2, CacheNumbers DEF Lasting
    <3> QED BY <1>9, <2>2, <3>1
  <2> QED BY <1>4, <2>1, <2>2
<1>12. ASSUME NEW x \in Callers
       PROVE  (/\ calls[x].step = "set" => calls[x].value \in 1 .. Len(setEnded)
               /\ calls[x].step \in {"found", "serve"} => calls[x].object \in 1 .. Len(objects)
               /\ calls[x].step = "serve" =>
                    Lasts(setEnded, objects[calls[x].object].value, calls[x].at))'
  <2>1. CASE x = c
    BY <1>7, <2>1, NoCallFacts
  <2>2. CASE x # c
    <3>1. calls'[x] = calls[x] /\ calls[x].at \in Nat /\ calls[x].at <= now
      BY <1>7, <2>2 DEF CacheCalls
    <3>2. calls[x].step \in {"found", "serve"} =>
            calls[x].object \in 1 .. Len(objects) /\ calls[x].object \in 1 .. Len(objects')
      BY <1>1, <1>4 DEF Lasting
    <3>3. calls[x].step = "serve" =>
            Lasts(setEnded', objects'[calls[x].object].value, calls[x].at)
      BY <1>11, <3>1, <3>2 DEF Lasting
    <3>4. calls[x].step = "set" => calls[x].value \in 1 .. Len(setEnded')
      BY <1>5 DEF Lasting
    <3> QED BY <3>1, <3>2, <3>3, <3>4
  <2> QED BY <2>1, <2>2
<1>13. (served # NothingServed => Lasts(setEnded, served.value, served.began))'
  <2>1. ASSUME served # NothingServed PROVE Lasts(setEnded', served.value, served.began)
    <3>1. Lasts(setEnded, served.value, served.began) /\ served.began \in Nat
      BY <2>1 DEF Lasting
    <3> QED BY <1>9, <3>1
  <2> QED BY <1>2, <2>1 DEF NothingServed
<1> QED BY <1>8, <1>11, <1>12, <1>13 DEF Lasting

LEMMA Get_Inv ==
  ASSUME CacheInv, NEW c \in Callers,
         GetLookup(c) \/ GetCheck(c) \/ GetDelete(c) \/ GetServe(c)
         \/ \E k \in Keys : GetBegin(c, k)
  PROVE  CacheInv'
<1>0. /\ CacheTypes /\ Lasting /\ calls[c] \in CacheCalls /\ calls[c].at <= now
      /\ calls[c].at \in Nat /\ calls \in [Callers -> CacheCalls]
      /\ \A k \in DOMAIN cached : cached[k] \in 1 .. Len(objects)
      /\ served.began \in Nat
      /\ served # NothingServed => Lasts(setEnded, served.value, served.began)
  BY DEF CacheInv, CacheTypes, CacheCalls, Lasting
<1>1. CASE \E k \in Keys : GetBegin(c, k)
  <2>1. PICK k \in Keys : GetBegin(c, k)
    BY <1>1
  <2> DEFINE call == [NoCall EXCEPT !.step = "get", !.key = k, !.at = now]
  <2>2. call \in CacheCalls /\ call.at = now /\ call.step = "get" /\ now \in Nat
    BY <1>0, CacheNumbers DEF NoCall, CacheCalls
  <2>3. /\ calls' = [calls EXCEPT ![c] = call]
        /\ UNCHANGED <<cached, objects, setEnded, sets, served, now>>
    BY <2>1 DEF GetBegin
  <2> HIDE DEF call
  <2>4. call.at <= now
    BY <2>2
  <2> QED BY <1>0, <2>2, <2>3, <2>4, CallKept
<1>2. CASE GetLookup(c)
  <2> DEFINE found == [calls[c] EXCEPT !.step = "found", !.object = cached[calls[c].key]]
  <2>1. /\ calls' = [calls EXCEPT ![c] = IF calls[c].key \in DOMAIN cached THEN found ELSE NoCall]
        /\ UNCHANGED <<cached, objects, setEnded, sets, served, now>>
    BY <1>0, <1>2 DEF GetLookup
  <2>2. calls[c].key \in DOMAIN cached =>
          /\ found \in CacheCalls /\ found.at = calls[c].at /\ found.step = "found"
          /\ found.object \in 1 .. Len(objects)
    <3>1. calls[c].key \in DOMAIN cached =>
            cached[calls[c].key] \in 1 .. Len(objects) /\ cached[calls[c].key] \in Nat
      BY <1>0, CacheNumbers
    <3> QED BY <1>0, <3>1 DEF CacheCalls
  <2>3. NoCall.at <= now
    BY <1>0, NoCallFacts, CacheNumbers
  <2> HIDE DEF found
  <2>4. CASE calls[c].key \in DOMAIN cached
    BY <1>0, <2>1, <2>2, <2>4, CallKept
  <2>5. CASE calls[c].key \notin DOMAIN cached
    BY <1>0, <2>1, <2>3, <2>5, CallKept, NoCallFacts
  <2> QED BY <2>4, <2>5
<1>3. CASE GetCheck(c)
  <2> DEFINE o == calls[c].object
             call == [calls[c] EXCEPT !.step = IF Expired(o, calls[c].at) THEN "delete" ELSE "serve"]
  <2>1. /\ calls' = [calls EXCEPT ![c] = call] /\ calls[c].step = "found"
        /\ UNCHANGED <<cached, objects, setEnded, sets, served, now>>
    BY <1>0, <1>3 DEF GetCheck
  <2>2. /\ call \in CacheCalls /\ call.at = calls[c].at /\ call.object = o
        /\ call.step = IF Expired(o, calls[c].at) THEN "delete" ELSE "serve"
    BY <1>0 DEF CacheCalls
  <2>3. o \in 1 .. Len(objects)
    BY <1>0, <2>1 DEF Lasting
  <2> HIDE DEF call
  <2>4. call.step = "serve" => Lasts(setEnded, objects[call.object].value, call.at)
    <3>1. Lasts(setEnded, objects[o].value, objects[o].expiresAt) /\ objects[o].expiresAt \in Nat
      BY <1>0, <2>3, CacheNumbers DEF Lasting
    <3>2. setEnded[objects[o].value] \in Nat /\ CacheTTL \in Nat
      BY <1>0, <3>1, CacheNumbers, CacheAssumption DEF Lasts
    <3> QED BY <1>0, <2>2, <3>1, <3>2 DEF Expired, Lasts
  <2> QED BY <1>0, <2>1, <2>2, <2>3, <2>4, CallKept
<1>4. CASE GetDelete(c)
  <2>1. /\ calls' = [calls EXCEPT ![c] = NoCall] /\ cached' = InMap(cacheOrder', cached)
        /\ UNCHANGED <<objects, setEnded, sets, served, now>>
    BY <1>4 DEF GetDelete
  <2>2. \A k \in DOMAIN cached' : cached'[k] \in 1 .. Len(objects)
    BY <1>0, <2>1 DEF InMap
  <2>3. NoCall.at <= now
    BY <1>0, NoCallFacts, CacheNumbers
  <2> QED BY <1>0, <2>1, <2>2, <2>3, CallKept, NoCallFacts
<1>5. CASE GetServe(c)
  <2>1. /\ calls' = [calls EXCEPT ![c] = NoCall] /\ calls[c].step = "serve"
        /\ served' = [value |-> objects[calls[c].object].value, began |-> calls[c].at]
        /\ UNCHANGED <<cached, objects, setEnded, sets, now>>
    BY <1>5 DEF GetServe
  <2>2. Lasts(setEnded, served'.value, served'.began) /\ served'.began \in Nat
    BY <1>0, <2>1 DEF Lasting
  <2>3. NoCall.at <= now
    BY <1>0, NoCallFacts, CacheNumbers
  <2>4. Lasts(setEnded', served'.value, served'.began)
    BY <2>1, <2>2
  <2> QED BY <1>0, <2>1, <2>2, <2>3, <2>4, CallKept, NoCallFacts
<1> QED BY <1>1, <1>2, <1>3, <1>4, <1>5

LEMMA CacheNext_Inv ==
  ASSUME CacheInv, [CacheNext]_<<cacheVars, now>>
  PROVE  CacheInv'
<1>1. CASE UNCHANGED <<cacheVars, now>>
  BY <1>1 DEF cacheVars, CacheInv, CacheTypes, Lasting
<1>2. CASE Elapse /\ UNCHANGED cacheVars
  <2>1. /\ UNCHANGED <<cached, objects, calls, sets, setEnded, served>>
        /\ now' = now + 1 /\ now \in Nat /\ CacheTypes
    BY <1>2 DEF cacheVars, Elapse, CacheInv, CacheTypes
  <2>2. \A v \in 1 .. Len(setEnded) : setEnded[v] <= now'
    BY <2>1, CacheNumbers DEF CacheTypes
  <2>3. \A c \in Callers : calls[c].at <= now'
    BY <2>1 DEF CacheTypes, CacheCalls
  <2> QED BY <2>1, <2>2, <2>3 DEF CacheInv, CacheTypes, Lasting
<1> QED BY <1>1, <1>2, SetBegin_Inv, SetEnd_Inv, Get_Inv DEF CacheNext

(* A value Get returns was stored no longer than ttl before the call       *)
(* began, however the steps of Gets and Sets interleave (cache.go:50-61).  *)
THEOREM NeverServesStaleHolds == CacheSpec => []NeverServesStale
<1>1. CacheInv => NeverServesStale
  <2> SUFFICES ASSUME CacheInv, served # NothingServed
               PROVE  setEnded[served.value] + CacheTTL >= served.began
    BY DEF NeverServesStale
  <2>1. served.began <= setEnded[served.value] + CacheTTL /\ served.began \in Nat
        /\ setEnded[served.value] \in Nat /\ CacheTTL \in Nat
    BY CacheNumbers, CacheAssumption DEF CacheInv, CacheTypes, Lasting, Lasts
  <2> QED BY <2>1
<1> QED BY CacheInit_Inv, CacheNext_Inv, <1>1, PTL DEF CacheSpec
-----------------------------------------------------------------------------
(* The list holds a visitor once, and nobody heard of later than those     *)
(* ahead of it: not so for lastSeen, which a delayed Touch sets back.      *)
Recent(s, h) ==
  \A i, j \in 1 .. Len(s) : i < j => s[i] # s[j] /\ h[s[j]] <= h[s[i]]

CounterTypes ==
  /\ now \in Nat
  /\ visitOrder \in Seq(SeenVisitors)
  /\ lastSeen \in [SeenVisitors -> Int]
  /\ heard \in [SeenVisitors -> Int]
  /\ touches = [t \in Touchers |-> touches[t]]
  /\ \A t \in Touchers :
       /\ touches[t].at \in Nat /\ touches[t].at <= now
       /\ touches[t].call = "touch" => touches[t].visitor \in SeenVisitors
  /\ \A v \in SeenVisitors : lastSeen[v] <= heard[v] /\ heard[v] <= now

(* A visitor who is not in the list went for the size or has expired.      *)
Gone(s, out, seen, at) ==
  \A v \in SeenVisitors : v \in Listed(s) \/ v \in out \/ seen[v] + WindowTTL < at

CounterInv ==
  /\ CounterTypes
  /\ Recent(visitOrder, heard)
  /\ Gone(visitOrder, outgrown, lastSeen, now)

LEMMA CounterNumbers == WindowTTL \in Nat \ {0} /\ MaxWindow \in Nat \ {0}
BY CounterAssumption

(* What pruneExpired leaves, for a clock "at".                             *)
LEMMA RemainingFacts ==
  ASSUME CounterInv, NEW at \in Nat, at <= now
  PROVE  \E n \in 0 .. Len(visitOrder) :
           /\ Remaining(at) = SubSeq(visitOrder, 1, n)
           /\ n # 0 => lastSeen[visitOrder[n]] + WindowTTL >= at
           /\ \A m \in 1 .. Len(visitOrder) :
                m > n => lastSeen[visitOrder[m]] + WindowTTL < now
<1> DEFINE late == {v \in SeenVisitors : at - lastSeen[v] > WindowTTL}
<1>1. /\ visitOrder \in Seq(SeenVisitors) /\ Len(visitOrder) \in Nat
      /\ lastSeen \in [SeenVisitors -> Int] /\ now \in Nat
  BY DEF CounterInv, CounterTypes
<1>2. PICK n \in 0 .. Len(visitOrder) :
         /\ Trimmed(visitOrder, Len(visitOrder), late) = SubSeq(visitOrder, 1, n)
         /\ n = 0 \/ visitOrder[n] \notin late
         /\ \A m \in 1 .. Len(visitOrder) :
              m > n /\ m <= Len(visitOrder) => visitOrder[m] \in late
  <2> HIDE DEF late
  <2> QED BY <1>1, TrimmedFacts
<1>3. Remaining(at) = SubSeq(visitOrder, 1, n)
  BY <1>2 DEF Remaining
<1>4. n # 0 => lastSeen[visitOrder[n]] + WindowTTL >= at
  <2> SUFFICES ASSUME n # 0 PROVE lastSeen[visitOrder[n]] + WindowTTL >= at
    OBVIOUS
  <2>1. visitOrder[n] \in SeenVisitors /\ visitOrder[n] \notin late
    BY <1>1, <1>2, ElementOfSeq
  <2>2. lastSeen[visitOrder[n]] \in Int
    BY <1>1, <2>1
  <2> QED BY <2>1, <2>2, CounterNumbers
<1>5. \A m \in 1 .. Len(visitOrder) : m > n => lastSeen[visitOrder[m]] + WindowTTL < now
  <2> SUFFICES ASSUME NEW m \in 1 .. Len(visitOrder), m > n
               PROVE  lastSeen[visitOrder[m]] + WindowTTL < now
    OBVIOUS
  <2>1. visitOrder[m] \in late
    BY <1>1, <1>2
  <2>2. lastSeen[visitOrder[m]] \in Int
    BY <1>1, <2>1
  <2> QED BY <1>1, <2>1, <2>2, CounterNumbers
<1> QED BY <1>3, <1>4, <1>5

LEMMA CounterInit_Inv == ClockInit /\ CounterInit => CounterInv
<1> SUFFICES ASSUME ClockInit, CounterInit PROVE CounterInv
  OBVIOUS
<1>1. /\ now = 0 /\ visitOrder = << >> /\ outgrown = {}
      /\ lastSeen = [v \in SeenVisitors |-> Never]
      /\ heard = [v \in SeenVisitors |-> Never]
      /\ touches = [t \in Touchers |-> NoTouch]
  BY DEF ClockInit, CounterInit
<1>2. Never \in Int /\ Never <= 0 /\ Never + WindowTTL < 0
  BY CounterNumbers DEF Never
<1>3. NoTouch.at = 0 /\ NoTouch.call # "touch"
  BY DEF NoTouch
<1>4. Len(visitOrder) = 0
  BY <1>1
<1> QED BY <1>1, <1>2, <1>3, <1>4 DEF CounterInv, CounterTypes, Recent, Gone

LEMMA CounterBegin_Inv ==
  ASSUME CounterInv, NEW t \in Touchers, NEW call, CounterBegin(t, call),
         call.at = now, call.call = "touch" => call.visitor \in SeenVisitors
  PROVE  CounterInv'
<1>1. /\ touches' = [touches EXCEPT ![t] = call]
      /\ UNCHANGED <<visitOrder, lastSeen, heard, outgrown, now>>
  BY DEF CounterBegin
<1>2. \A u \in Touchers : touches'[u] = IF u = t THEN call ELSE touches[u]
  BY <1>1 DEF CounterInv, CounterTypes
<1>3. touches' = [u \in Touchers |-> touches'[u]]
  BY <1>1 DEF CounterInv, CounterTypes
<1> QED BY <1>1, <1>2, <1>3 DEF CounterInv, CounterTypes, Recent, Gone

(* A prefix of a list in order is in order.                                *)
LEMMA RecentPrefix ==
  ASSUME NEW S, NEW s \in Seq(S), NEW n \in 0 .. Len(s), NEW h, Recent(s, h)
  PROVE  Recent(SubSeq(s, 1, n), h)
<1> DEFINE p == SubSeq(s, 1, n)
<1>1. Len(p) = n /\ \A i \in 1 .. n : p[i] = s[i] /\ i \in 1 .. Len(s)
  BY PrefixFacts
<1> HIDE DEF p
<1>2. Recent(p, h)
  BY <1>1 DEF Recent
<1> QED BY <1>2 DEF p

(* So is one whose front is heard of now.                                  *)
LEMMA RecentFront ==
  ASSUME NEW s \in Seq(SeenVisitors), NEW v \in SeenVisitors, NEW at \in Int,
         NEW h \in [SeenVisitors -> Int], \A u \in SeenVisitors : h[u] <= at,
         Recent(s, h)
  PROVE  /\ Recent(ToFront(v, s), [h EXCEPT ![v] = at])
         /\ ToFront(v, s) \in Seq(SeenVisitors)
         /\ Len(ToFront(v, s)) \in Nat \ {0}
         /\ ToFront(v, s)[1] = v
         /\ Listed(s) \subseteq Listed(ToFront(v, s))
<1> DEFINE t == ToFront(v, s)
           g == [h EXCEPT ![v] = at]
<1>1. \A i, j \in 1 .. Len(s) : i # j => s[i] # s[j]
  <2> TAKE i, j \in 1 .. Len(s)
  <2>1. i < j \/ j < i \/ i = j
    OBVIOUS
  <2> QED BY <2>1 DEF Recent
<1>2. /\ t \in Seq(SeenVisitors) /\ Len(t) \in Nat \ {0} /\ t[1] = v
      /\ \E k \in 1 .. Len(s) + 1 :
              /\ Len(t) = IF k = Len(s) + 1 THEN Len(s) + 1 ELSE Len(s)
              /\ k # Len(s) + 1 => s[k] = v
              /\ \A i \in 2 .. Len(t) :
                   LET j == IF i - 1 < k THEN i - 1 ELSE i
                   IN j \in 1 .. Len(s) /\ t[i] = s[j] /\ s[j] # v
  <2>1. s \in Seq(SeenVisitors) /\ v \in SeenVisitors
    OBVIOUS
  <2> QED BY ONLY <1>1, <2>1, FrontedFacts
<1> HIDE DEF t
<1>3. PICK k \in 1 .. Len(s) + 1 :
              /\ Len(t) = IF k = Len(s) + 1 THEN Len(s) + 1 ELSE Len(s)
              /\ k # Len(s) + 1 => s[k] = v
              /\ \A i \in 2 .. Len(t) :
                   LET j == IF i - 1 < k THEN i - 1 ELSE i
                   IN j \in 1 .. Len(s) /\ t[i] = s[j] /\ s[j] # v
  BY <1>2
<1>4. \A u \in SeenVisitors : g[u] = IF u = v THEN at ELSE h[u]
  OBVIOUS
<1> HIDE DEF g
<1>5. Recent(t, g)
  <2> SUFFICES ASSUME NEW i \in 1 .. Len(t), NEW j \in 1 .. Len(t), i < j
               PROVE  t[i] # t[j] /\ g[t[j]] <= g[t[i]]
    BY DEF Recent
  <2> DEFINE b == IF j - 1 < k THEN j - 1 ELSE j
  <2>1. j \in 2 .. Len(t)
    OBVIOUS
  <2>2. b \in 1 .. Len(s) /\ t[j] = s[b] /\ s[b] # v
    BY <1>3, <2>1
  <2>3. s[b] \in SeenVisitors
    BY <2>2, ElementOfSeq
  <2>4. CASE i = 1
    BY <1>2, <1>4, <2>2, <2>3, <2>4
  <2>5. CASE i # 1
    <3> DEFINE a == IF i - 1 < k THEN i - 1 ELSE i
    <3>1. a \in 1 .. Len(s) /\ t[i] = s[a] /\ s[a] # v
      BY <1>3, <2>5
    <3>2. a < b
      OBVIOUS
    <3> HIDE DEF a, b
    <3>3. s[a] \in SeenVisitors /\ s[a] # s[b] /\ h[s[b]] <= h[s[a]]
      BY <2>2, <3>1, <3>2, ElementOfSeq DEF Recent
    <3> QED BY <1>4, <2>2, <2>3, <3>1, <3>3
  <2> QED BY <2>4, <2>5
<1>6. Listed(s) \subseteq Listed(t)
  <2> SUFFICES ASSUME NEW i \in 1 .. Len(s) PROVE s[i] \in Listed(t)
    BY LenProperties DEF Listed
  <2>1. DOMAIN t = 1 .. Len(t)
    BY <1>2, LenProperties
  <2>2. CASE i = k
    <3>1. s[i] = t[1] /\ 1 \in DOMAIN t
      BY <1>2, <1>3, <2>1, <2>2
    <3> QED BY <3>1 DEF Listed
  <2>3. CASE i < k
    <3>1. i + 1 \in 2 .. Len(t) /\ i + 1 - 1 = i /\ i + 1 - 1 < k
      BY <1>3, <2>3
    <3>2. t[i + 1] = s[i] /\ i + 1 \in DOMAIN t
      BY <1>3, <2>1, <3>1
    <3> QED BY <3>2 DEF Listed
  <2>4. CASE i > k
    <3>1. i \in 2 .. Len(t) /\ ~ (i - 1 < k)
      BY <1>3, <2>4
    <3>2. t[i] = s[i] /\ i \in DOMAIN t
      BY <1>3, <2>1, <3>1
    <3> QED BY <3>2 DEF Listed
  <2> QED BY <2>2, <2>3, <2>4
<1> QED BY <1>2, <1>5, <1>6 DEF t, g

(* The list that pruneExpired leaves.                                      *)
LEMMA RemainingKept ==
  ASSUME CounterInv, NEW at \in Nat, at <= now
  PROVE  /\ Remaining(at) \in Seq(SeenVisitors)
         /\ Recent(Remaining(at), heard)
         /\ Gone(Remaining(at), outgrown, lastSeen, now)
<1>1. visitOrder \in Seq(SeenVisitors) /\ Recent(visitOrder, heard)
      /\ Gone(visitOrder, outgrown, lastSeen, now)
  BY DEF CounterInv, CounterTypes
<1>2. PICK n \in 0 .. Len(visitOrder) :
           /\ Remaining(at) = SubSeq(visitOrder, 1, n)
           /\ \A m \in 1 .. Len(visitOrder) :
                m > n => lastSeen[visitOrder[m]] + WindowTTL < now
  BY RemainingFacts
<1>3. /\ SubSeq(visitOrder, 1, n) \in Seq(SeenVisitors)
      /\ DOMAIN SubSeq(visitOrder, 1, n) = 1 .. n
      /\ \A i \in 1 .. n : SubSeq(visitOrder, 1, n)[i] = visitOrder[i]
  BY <1>1, PrefixFacts
<1>4. Recent(SubSeq(visitOrder, 1, n), heard)
  BY <1>1, RecentPrefix
<1>5. Gone(Remaining(at), outgrown, lastSeen, now)
  <2> SUFFICES ASSUME NEW v \in SeenVisitors, v \in Listed(visitOrder)
               PROVE  v \in Listed(Remaining(at)) \/ lastSeen[v] + WindowTTL < now
    BY <1>1 DEF Gone
  <2>1. PICK i \in 1 .. Len(visitOrder) : v = visitOrder[i]
    BY <1>1, LenProperties DEF Listed
  <2>2. CASE i > n
    BY <1>2, <2>1, <2>2
  <2>3. CASE i <= n
    <3>1. i \in 1 .. n
      BY <2>3
    <3>2. i \in DOMAIN Remaining(at) /\ Remaining(at)[i] = v
      BY <1>2, <1>3, <2>1, <3>1
    <3> QED BY <3>2 DEF Listed
  <2> QED BY <2>2, <2>3
<1> QED BY <1>2, <1>3, <1>4, <1>5

LEMMA TouchEnd_Inv ==
  ASSUME CounterInv, NEW t \in Touchers, TouchEnd(t)
  PROVE  CounterInv'
<1> DEFINE v == touches[t].visitor
           at == touches[t].at
           left == Remaining(at)
           order == ToFront(v, left)
           most == IF Len(order) < MaxWindow THEN Len(order) ELSE MaxWindow
           kept == SubSeq(order, 1, most)
<1>1. /\ visitOrder' = kept
      /\ lastSeen' = [lastSeen EXCEPT ![v] = at]
      /\ heard' = [heard EXCEPT ![v] = now]
      /\ outgrown' = (outgrown \ {v}) \union (Listed(order) \ Listed(kept))
      /\ touches' = [touches EXCEPT ![t] = NoTouch]
      /\ touches[t].call = "touch" /\ UNCHANGED now
  BY DEF TouchEnd, Fronted, Capped
<1>2. /\ v \in SeenVisitors /\ at \in Nat /\ at <= now /\ now \in Nat
      /\ lastSeen \in [SeenVisitors -> Int] /\ heard \in [SeenVisitors -> Int]
      /\ touches = [u \in Touchers |-> touches[u]]
      /\ \A u \in SeenVisitors : lastSeen[u] <= heard[u] /\ heard[u] <= now
  BY <1>1 DEF CounterInv, CounterTypes
<1>3. left \in Seq(SeenVisitors) /\ Recent(left, heard)
      /\ Gone(left, outgrown, lastSeen, now)
  BY <1>2, RemainingKept
<1> HIDE DEF left, v, at
<1>4. /\ Recent(order, [heard EXCEPT ![v] = now])
      /\ order \in Seq(SeenVisitors) /\ Len(order) \in Nat \ {0} /\ order[1] = v
      /\ Listed(left) \subseteq Listed(order)
  <2>1. now \in Int /\ \A u \in SeenVisitors : heard[u] <= now
    BY <1>2
  <2> QED BY ONLY <1>2, <1>3, <2>1, RecentFront
<1> HIDE DEF order
<1>5. most \in 0 .. Len(order) /\ most >= 1
  BY <1>4, CounterNumbers
<1> HIDE DEF most
<1>6. /\ kept \in Seq(SeenVisitors) /\ DOMAIN kept = 1 .. most
      /\ \A i \in 1 .. most : kept[i] = order[i]
      /\ Recent(kept, [heard EXCEPT ![v] = now])
  BY <1>4, <1>5, PrefixFacts, RecentPrefix
<1>7. v \in Listed(kept)
  <2>1. 1 \in DOMAIN kept /\ kept[1] = v
    BY <1>4, <1>5, <1>6
  <2> QED BY <2>1 DEF Listed
<1> HIDE DEF kept
<1>8. Gone(visitOrder', outgrown', lastSeen', now')
  <2> SUFFICES ASSUME NEW u \in SeenVisitors, u # v
               PROVE  u \in Listed(kept) \/ u \in outgrown' \/ lastSeen'[u] + WindowTTL < now
    BY <1>1, <1>7 DEF Gone
  <2>1. lastSeen'[u] = lastSeen[u]
    BY <1>1, <1>2
  <2>2. u \in Listed(left) \/ u \in outgrown \/ lastSeen[u] + WindowTTL < now
    BY <1>3 DEF Gone
  <2> QED BY <1>1, <1>4, <2>1, <2>2
<1>9. CounterTypes'
  <2>1. \A u \in SeenVisitors : /\ lastSeen'[u] = IF u = v THEN at ELSE lastSeen[u]
                                /\ heard'[u] = IF u = v THEN now ELSE heard[u]
    BY <1>1, <1>2
  <2>2. \A u \in SeenVisitors : lastSeen'[u] <= heard'[u] /\ heard'[u] <= now
    BY <1>2, <2>1
  <2>3. lastSeen' \in [SeenVisitors -> Int] /\ heard' \in [SeenVisitors -> Int]
    BY <1>1, <1>2
  <2>4. NoTouch.at = 0 /\ NoTouch.call # "touch"
    BY DEF NoTouch
  <2>5. touches' = [u \in Touchers |-> touches'[u]]
        /\ \A u \in Touchers : touches'[u] = IF u = t THEN NoTouch ELSE touches[u]
    BY <1>1, <1>2
  <2> QED BY <1>1, <1>2, <1>6, <2>2, <2>3, <2>4, <2>5 DEF CounterInv, CounterTypes
<1> QED BY <1>1, <1>6, <1>8, <1>9 DEF CounterInv

LEMMA CountEnd_Inv ==
  ASSUME CounterInv, NEW t \in Touchers, CountEnd(t)
  PROVE  CounterInv'
<1>1. /\ visitOrder' = Remaining(touches[t].at)
      /\ touches' = [touches EXCEPT ![t] = NoTouch]
      /\ UNCHANGED <<lastSeen, heard, outgrown, now>>
  BY DEF CountEnd
<1>2. touches[t].at \in Nat /\ touches[t].at <= now
      /\ touches = [u \in Touchers |-> touches[u]]
  BY DEF CounterInv, CounterTypes
<1>3. visitOrder' \in Seq(SeenVisitors) /\ Recent(visitOrder', heard)
      /\ Gone(visitOrder', outgrown, lastSeen, now)
  BY <1>1, <1>2, RemainingKept
<1>4. NoTouch.at = 0 /\ NoTouch.call # "touch"
  BY DEF NoTouch
<1>5. touches' = [u \in Touchers |-> touches'[u]]
      /\ \A u \in Touchers : touches'[u] = IF u = t THEN NoTouch ELSE touches[u]
  BY <1>1, <1>2
<1> QED BY <1>1, <1>3, <1>4, <1>5 DEF CounterInv, CounterTypes

LEMMA CounterNext_Inv ==
  ASSUME CounterInv, [CounterNext]_<<counterVars, now>>
  PROVE  CounterInv'
<1>1. CASE UNCHANGED <<counterVars, now>>
  BY <1>1 DEF counterVars, CounterInv, CounterTypes, Recent, Gone
<1>2. CASE Elapse /\ UNCHANGED counterVars
  <2>1. /\ UNCHANGED <<visitOrder, lastSeen, touches, heard, outgrown>>
        /\ now' = now + 1 /\ now \in Nat /\ CounterTypes
    BY <1>2 DEF counterVars, Elapse, CounterInv, CounterTypes
  <2>2. CounterTypes'
    BY <2>1 DEF CounterTypes
  <2>3. Gone(visitOrder', outgrown', lastSeen', now')
    <3>1. \A v \in SeenVisitors : lastSeen[v] \in Int
      BY <2>1 DEF CounterTypes
    <3> QED BY <2>1, <3>1, CounterNumbers DEF CounterInv, Gone
  <2> QED BY <2>1, <2>2, <2>3 DEF CounterInv, Recent
<1>3. ASSUME NEW t \in Touchers, NEW v \in SeenVisitors,
             CounterBegin(t, [call |-> "touch", visitor |-> v, at |-> now])
      PROVE  CounterInv'
  <2> DEFINE call == [call |-> "touch", visitor |-> v, at |-> now]
  <2>1. call.at = now /\ call.visitor \in SeenVisitors /\ CounterBegin(t, call)
    BY <1>3
  <2> HIDE DEF call
  <2> QED BY <2>1, CounterBegin_Inv
<1>4. ASSUME NEW t \in Touchers,
             CounterBegin(t, [NoTouch EXCEPT !.call = "count", !.at = now])
      PROVE  CounterInv'
  <2> DEFINE call == [NoTouch EXCEPT !.call = "count", !.at = now]
  <2>1. call.at = now /\ call.call # "touch" /\ CounterBegin(t, call)
    BY <1>4 DEF NoTouch
  <2> HIDE DEF call
  <2> QED BY <2>1, CounterBegin_Inv
<1> QED BY <1>1, <1>2, <1>3, <1>4, TouchEnd_Inv, CountEnd_Inv DEF CounterNext

(* A Count counts nobody whose last Touch had ended more than ttl before,  *)
(* and misses nobody whose last Touch began within ttl but for those the   *)
(* size pushed out, though delayed Touches put old clocks at the front     *)
(* (counter.go:121).                                                       *)
THEOREM CountIsExactHolds == CounterSpec => []CountIsExact
<1>1. CounterInv => CountIsExact
  <2> SUFFICES ASSUME CounterInv, NEW at \in 0 .. now
               PROVE  /\ \A v \in Listed(Remaining(at)) : heard[v] + WindowTTL >= at
                      /\ \A v \in SeenVisitors \ (Listed(Remaining(at)) \union outgrown) :
                           lastSeen[v] + WindowTTL < now
    BY DEF CountIsExact
  <2>1. /\ at \in Nat /\ at <= now /\ now \in Nat
        /\ visitOrder \in Seq(SeenVisitors) /\ Recent(visitOrder, heard)
        /\ \A u \in SeenVisitors : lastSeen[u] <= heard[u] /\ lastSeen[u] \in Int /\ heard[u] \in Int
    BY DEF CounterInv, CounterTypes
  <2>2. \A v \in SeenVisitors \ (Listed(Remaining(at)) \union outgrown) :
          lastSeen[v] + WindowTTL < now
    BY <2>1, RemainingKept DEF Gone
  <2>3. PICK n \in 0 .. Len(visitOrder) :
           /\ Remaining(at) = SubSeq(visitOrder, 1, n)
           /\ n # 0 => lastSeen[visitOrder[n]] + WindowTTL >= at
    BY <2>1, RemainingFacts
  <2>4. /\ DOMAIN SubSeq(visitOrder, 1, n) = 1 .. n
        /\ \A i \in 1 .. n : SubSeq(visitOrder, 1, n)[i] = visitOrder[i]
    BY <2>1, PrefixFacts
  <2>5. \A v \in Listed(Remaining(at)) : heard[v] + WindowTTL >= at
    <3> SUFFICES ASSUME NEW i \in 1 .. n PROVE heard[visitOrder[i]] + WindowTTL >= at
      BY <2>3, <2>4 DEF Listed
    <3> DEFINE u == visitOrder[i]
               w == visitOrder[n]
    <3>1. i \in 1 .. Len(visitOrder) /\ n \in 1 .. Len(visitOrder) /\ (i < n \/ i = n)
      BY <2>1
    <3>2. u \in SeenVisitors /\ w \in SeenVisitors
      BY <2>1, <3>1, ElementOfSeq
    <3>3. heard[w] <= heard[u]
      <4>1. CASE i = n
        BY <2>1, <3>2, <4>1
      <4>2. CASE i < n
        BY <2>1, <3>1, <4>2 DEF Recent
      <4> QED BY <3>1, <4>1, <4>2
    <3>4. lastSeen[w] + WindowTTL >= at
      BY <2>3, <3>1
    <3> HIDE DEF u, w
    <3>5. heard[u] + WindowTTL >= at
      BY <2>1, <3>2, <3>3, <3>4, CounterNumbers
    <3> QED BY <3>5 DEF u
  <2> QED BY <2>2, <2>5
<1> QED BY CounterInit_Inv, CounterNext_Inv, <1>1, PTL DEF CounterSpec
-----------------------------------------------------------------------------
(* The entries and the histories of the cache of the ids "same".           *)
Entries(same) == [key : same, value : Nat \union StorageIDs, updatedAt : Nat]
Histories(same) == [visitor : Nat \union StorageIDs, at : Nat, since : SUBSET same]

WellFormed(lru, same) ==
  /\ lru \in Seq(Entries(same))
  /\ \A i, j \in 1 .. Len(lru) : i # j => lru[i].key # lru[j].key

Recorded(b, same) ==
  \A x \in same : b[x] \in Histories(same) /\ IsFiniteSet(b[x].since)

(* What the cache owes to an id whose history is "b", at time "t".         *)
Owed(b, t) ==
  b.visitor # None /\ t - b.at <= IdentityTTL /\ Cardinality(b.since) < MaxEntries

(* It has the entry, and only keys of "ahead" come before it.              *)
Holds(lru, x, b, ahead) ==
  \E i \in 1 .. Len(lru) :
    /\ lru[i].key = x /\ lru[i].value = b.visitor /\ lru[i].updatedAt >= b.at
    /\ \A j \in 1 .. i - 1 : lru[j].key \in ahead

Kept(lru, b, same, t) ==
  /\ WellFormed(lru, same)
  /\ \A x \in same : Owed(b[x], t) => Holds(lru, x, b[x], b[x].since)

(* The same while the call for the id "k" is on its way.                   *)
KeptBut(lru, b, same, t, k) ==
  /\ WellFormed(lru, same)
  /\ \A x \in same \ {k} : Owed(b[x], t) => Holds(lru, x, b[x], b[x].since \union {k})

IdentityInv ==
  /\ now \in Nat /\ minted \in Nat \ {0}
  /\ Recorded(bound, StorageIDs) /\ Recorded(bound, DailyHashes)
  /\ Kept(storage, bound, StorageIDs, now)
  /\ Kept(dailyHashes, bound, DailyHashes, now)

LEMMA IdentityNumbers == MaxEntries \in Nat \ {0} /\ IdentityTTL \in Nat \ {0}
BY IdentityAssumption

(* An entry lies behind no more entries than there are keys ahead of it.   *)
LEMMA PlaceBounded ==
  ASSUME NEW same, NEW lru, WellFormed(lru, same), NEW i \in 1 .. Len(lru),
         NEW A, IsFiniteSet(A), \A j \in 1 .. i - 1 : lru[j].key \in A
  PROVE  i - 1 <= Cardinality(A)
<1> DEFINE f == [j \in 1 .. i - 1 |-> lru[j].key]
<1>1. i - 1 \in Nat /\ \A j \in 1 .. i - 1 : j \in 1 .. Len(lru)
  BY DEF WellFormed
<1>2. f \in [1 .. i - 1 -> A]
  OBVIOUS
<1>3. \A a, b \in 1 .. i - 1 : f[a] = f[b] => a = b
  <2> SUFFICES ASSUME NEW a \in 1 .. i - 1, NEW b \in 1 .. i - 1, a # b
               PROVE  lru[a].key # lru[b].key
    OBVIOUS
  <2> QED BY <1>1 DEF WellFormed
<1> HIDE DEF f
<1>4. 1 \in Int /\ i - 1 \in Int /\ (1 > i - 1 <=> i - 1 = 0) /\ i - 1 - 1 + 1 = i - 1
  BY <1>1
<1>5. IsFiniteSet(1 .. i - 1) /\ Cardinality(1 .. i - 1) = i - 1
  <2>1. /\ IsFiniteSet(1 .. i - 1)
        /\ Cardinality(1 .. i - 1) = IF 1 > i - 1 THEN 0 ELSE i - 1 - 1 + 1
    BY ONLY <1>4, FS_Interval
  <2> QED BY <1>4, <2>1
<1>6. ~ (Cardinality(A) < Cardinality(1 .. i - 1))
  BY <1>2, <1>3, <1>5, FS_PigeonHole
<1> QED BY <1>1, <1>5, <1>6, FS_CardinalityType

LEMMA EntryFacts ==
  ASSUME NEW same, NEW lru, WellFormed(lru, same), NEW k
  PROVE  /\ \A i \in 1 .. Len(lru) : lru[i] \in Entries(same)
         /\ EntryOf(lru, k) = {} <=> \A i \in 1 .. Len(lru) : lru[i].key # k
         /\ EntryOf(lru, k) # {} => \E i \in 1 .. Len(lru) :
              lru[i] = Hit(lru, k) /\ Hit(lru, k).key = k
         /\ \A i \in 1 .. Len(lru) : lru[i].key = k =>
              lru[i] = Hit(lru, k) /\ Found(lru, k)
                = IF Outdated(lru[i]) THEN {} ELSE {lru[i].value}
<1>1. DOMAIN lru = 1 .. Len(lru) /\ \A i \in 1 .. Len(lru) : lru[i] \in Entries(same)
  BY LenProperties, ElementOfSeq DEF WellFormed
<1>2. Listed(lru) = {lru[i] : i \in 1 .. Len(lru)}
  BY <1>1 DEF Listed
<1>3. EntryOf(lru, k) = {} <=> \A i \in 1 .. Len(lru) : lru[i].key # k
  BY <1>2 DEF EntryOf
<1>4. (\E e \in Listed(lru) : e.key = k) => Hit(lru, k) \in Listed(lru) /\ Hit(lru, k).key = k
  BY DEF Hit
<1>5. EntryOf(lru, k) # {} => \E i \in 1 .. Len(lru) :
              lru[i] = Hit(lru, k) /\ Hit(lru, k).key = k
  BY <1>2, <1>4 DEF EntryOf
<1>6. ASSUME NEW i \in 1 .. Len(lru), lru[i].key = k
      PROVE  lru[i] = Hit(lru, k) /\ Found(lru, k)
                = IF Outdated(lru[i]) THEN {} ELSE {lru[i].value}
  <2>1. lru[i] \in Listed(lru)
    BY <1>2
  <2>2. \A e \in Listed(lru) : e.key = k => e = lru[i]
    BY <1>2, <1>6 DEF WellFormed
  <2>3. Hit(lru, k) = lru[i]
    BY <1>4, <1>6, <2>1, <2>2
  <2>4. EntryOf(lru, k) = {lru[i]}
    BY <1>6, <2>1, <2>2 DEF EntryOf
  <2> QED BY <2>3, <2>4 DEF Found
<1> QED BY <1>1, <1>3, <1>5, <1>6

(* Without the entry of "k" the others are as they were.                   *)
LEMMA RemovedKept ==
  ASSUME NEW same, NEW lru, NEW b, NEW t, NEW k \in same, KeptBut(lru, b, same, t, k)
  PROVE  /\ KeptBut(Removed(lru, k), b, same, t, k)
         /\ \A i \in 1 .. Len(Removed(lru, k)) : Removed(lru, k)[i].key # k
<1> DEFINE r == Removed(lru, k)
<1>1. WellFormed(lru, same) /\ lru \in Seq(Entries(same)) /\ Len(lru) \in Nat
  BY DEF KeptBut, WellFormed
<1>2. CASE EntryOf(lru, k) = {}
  BY <1>1, <1>2, EntryFacts DEF Removed
<1>3. CASE EntryOf(lru, k) # {}
  <2> DEFINE e == Hit(lru, k)
  <2>1. r = Without(e, lru)
    BY <1>3 DEF Removed
  <2>2. PICK h \in 1 .. Len(lru) : lru[h] = e /\ e.key = k
    BY <1>1, <1>3, EntryFacts
  <2>3. \A i, j \in 1 .. Len(lru) : i # j => lru[i] # lru[j]
    BY <1>1 DEF WellFormed
  <2> HIDE DEF r, e
  <2>4. PICK p \in 1 .. Len(lru) + 1 :
           /\ r \in Seq(Entries(same))
           /\ Len(r) = IF p = Len(lru) + 1 THEN Len(lru) ELSE Len(lru) - 1
           /\ p # Len(lru) + 1 => lru[p] = e
           /\ \A i \in 1 .. Len(r) :
                LET j == IF i < p THEN i ELSE i + 1
                IN j \in 1 .. Len(lru) /\ r[i] = lru[j] /\ lru[j] # e
    BY SMTT(30), <1>1, <2>1, <2>3, WithoutFacts
  <2>5. Len(r) \in Nat
    BY <2>4
  <2>6. p = h
    <3>1. CASE p = Len(lru) + 1
      <4>1. h \in 1 .. Len(r) /\ h < p
        BY <1>1, <2>4, <3>1
      <4> QED BY <2>2, <2>4, <4>1
    <3>2. CASE p # Len(lru) + 1
      <4>1. p \in 1 .. Len(lru) /\ lru[p] = lru[h]
        BY <1>1, <2>2, <2>4, <3>2
      <4> QED BY <2>3, <4>1
    <3> QED BY <3>1, <3>2
  <2>7. /\ Len(r) = Len(lru) - 1
        /\ \A i \in 1 .. Len(r) : i < h => r[i] = lru[i] /\ i \in 1 .. Len(lru) /\ i # h
        /\ \A i \in 1 .. Len(r) :
             i >= h => r[i] = lru[i + 1] /\ i + 1 \in 1 .. Len(lru) /\ i + 1 # h
    BY <1>1, <2>4, <2>6
  <2>8. \A i \in 1 .. Len(r) : r[i].key # k
    <3> TAKE i \in 1 .. Len(r)
    <3>1. \E j \in 1 .. Len(lru) : r[i] = lru[j] /\ j # h
      <4>1. i < h \/ i >= h
        OBVIOUS
      <4> QED BY <2>7, <4>1
    <3> QED BY <1>1, <2>2, <3>1 DEF WellFormed
  <2>9. WellFormed(r, same)
    <3>1. \A i, j \in 1 .. Len(r) : i # j => r[i].key # r[j].key
      <4> SUFFICES ASSUME NEW i \in 1 .. Len(r), NEW j \in 1 .. Len(r), i # j
                   PROVE  r[i].key # r[j].key
        OBVIOUS
      <4> DEFINE c == IF i < h THEN i ELSE i + 1
                 d == IF j < h THEN j ELSE j + 1
      <4>1. c \in 1 .. Len(lru) /\ d \in 1 .. Len(lru) /\ c # d
            /\ r[i] = lru[c] /\ r[j] = lru[d]
        BY <2>7
      <4> HIDE DEF c, d
      <4> QED BY <1>1, <4>1 DEF WellFormed
    <3> QED BY <2>4, <3>1 DEF WellFormed
  <2>10. ASSUME NEW x \in same \ {k}, Owed(b[x], t)
         PROVE  Holds(r, x, b[x], b[x].since \union {k})
    <3>1. PICK i \in 1 .. Len(lru) :
            /\ lru[i].key = x /\ lru[i].value = b[x].visitor /\ lru[i].updatedAt >= b[x].at
            /\ \A j \in 1 .. i - 1 : lru[j].key \in b[x].since \union {k}
      BY <2>10 DEF KeptBut, Holds
    <3>2. i # h
      BY <2>2, <2>10, <3>1
    <3> DEFINE c == IF i < h THEN i ELSE i - 1
    <3>3. c \in 1 .. Len(r) /\ r[c] = lru[i]
      <4>1. CASE i < h
        BY <1>1, <2>7, <4>1
      <4>2. CASE i > h
        <5>1. i - 1 \in 1 .. Len(r) /\ i - 1 >= h /\ i - 1 + 1 = i
          BY <1>1, <2>7, <4>2
        <5> QED BY <2>7, <4>2, <5>1
      <4> QED BY <3>2, <4>1, <4>2
    <3>4. \A j \in 1 .. c - 1 : r[j].key \in b[x].since \union {k}
      <4> TAKE j \in 1 .. c - 1
      <4>1. j \in 1 .. Len(r) /\ j \in 1 .. i - 1 /\ (j >= h => j + 1 \in 1 .. i - 1)
        BY <3>3
      <4> QED BY SMTT(30), <2>7, <3>1, <4>1
    <3> HIDE DEF c
    <3> QED BY <3>1, <3>3, <3>4 DEF Holds
  <2> QED BY <2>8, <2>9, <2>10 DEF KeptBut, r
<1> QED BY <1>2, <1>3

(* Nor does the entry of "k" at the front change them.                     *)
LEMMA PushedKept ==
  ASSUME NEW same, NEW r, NEW b, NEW t, NEW k \in same, KeptBut(r, b, same, t, k),
         \A i \in 1 .. Len(r) : r[i].key # k, NEW e \in Entries(same), e.key = k
  PROVE  /\ KeptBut(<<e>> \o r, b, same, t, k)
         /\ Len(<<e>> \o r) \in Nat \ {0} /\ (<<e>> \o r)[1] = e
<1> DEFINE s == <<e>> \o r
<1>1. r \in Seq(Entries(same)) /\ Len(r) \in Nat
  BY DEF KeptBut, WellFormed
<1>2. /\ s \in Seq(Entries(same)) /\ Len(s) = Len(r) + 1 /\ s[1] = e
      /\ \A i \in 2 .. Len(r) + 1 : s[i] = r[i - 1] /\ i - 1 \in 1 .. Len(r)
  BY <1>1, PushedFacts
<1> HIDE DEF s
<1>3. WellFormed(s, same)
  <2> SUFFICES ASSUME NEW i \in 1 .. Len(s), NEW j \in 1 .. Len(s), i # j
               PROVE  s[i].key # s[j].key
    BY <1>2 DEF WellFormed
  <2>1. CASE i = 1
    BY <1>1, <1>2, <2>1
  <2>2. CASE j = 1
    BY <1>1, <1>2, <2>2
  <2>3. CASE i # 1 /\ j # 1
    <3>1. i \in 2 .. Len(r) + 1 /\ j \in 2 .. Len(r) + 1 /\ i - 1 # j - 1
      BY <1>1, <1>2, <2>3
    <3> QED BY <1>2, <3>1 DEF KeptBut, WellFormed
  <2> QED BY <2>1, <2>2, <2>3
<1>4. ASSUME NEW x \in same \ {k}, Owed(b[x], t)
      PROVE  Holds(s, x, b[x], b[x].since \union {k})
  <2>1. PICK i \in 1 .. Len(r) :
          /\ r[i].key = x /\ r[i].value = b[x].visitor /\ r[i].updatedAt >= b[x].at
          /\ \A j \in 1 .. i - 1 : r[j].key \in b[x].since \union {k}
    BY <1>4 DEF KeptBut, Holds
  <2>2. i + 1 \in 1 .. Len(s) /\ i + 1 \in 2 .. Len(r) + 1 /\ i + 1 - 1 = i
    BY <1>1, <1>2
  <2>3. s[i + 1] = r[i]
    BY <1>2, <2>2
  <2>4. \A j \in 1 .. i + 1 - 1 : s[j].key \in b[x].since \union {k}
    <3> TAKE j \in 1 .. i + 1 - 1
    <3>1. CASE j = 1
      BY <1>2, <3>1
    <3>2. CASE j # 1
      <4>1. j \in 2 .. Len(r) + 1 /\ j - 1 \in 1 .. i - 1
        BY <1>1, <3>2
      <4> QED BY <1>2, <2>1, <4>1
    <3> QED BY <3>1, <3>2
  <2> QED BY <2>1, <2>2, <2>3, <2>4 DEF Holds
<1>5. Len(s) \in Nat \ {0}
  BY <1>1, <1>2
<1> QED BY <1>2, <1>3, <1>4, <1>5 DEF KeptBut, s

(* What the histories become when "k" is used for "v".                     *)
Follows(b, k, v, same) == \A x \in same : b[x] = Use(k, v, same)[x]

LEMMA FollowsFacts ==
  ASSUME NEW same, NEW k \in same, NEW v \in Nat \union StorageIDs, NEW b,
         Recorded(bound, same), now \in Nat, 0 \notin same, Follows(b, k, v, same)
  PROVE  /\ Recorded(b, same)
         /\ b[k] = [visitor |-> v, at |-> now, since |-> {}]
         /\ \A x \in same \ {k} :
              /\ b[x].visitor = bound[x].visitor /\ b[x].at = bound[x].at
              /\ b[x].visitor # None => b[x].since = bound[x].since \union {k}
              /\ IsFiniteSet(bound[x].since) /\ IsFiniteSet(b[x].since)
<1>1. b[k] = [visitor |-> v, at |-> now, since |-> {}]
  BY DEF Follows, Use
<1>2. ASSUME NEW x \in same \ {k}
      PROVE  /\ b[x] \in Histories(same)
             /\ b[x].visitor = bound[x].visitor /\ b[x].at = bound[x].at
             /\ b[x].visitor # None => b[x].since = bound[x].since \union {k}
             /\ IsFiniteSet(bound[x].since) /\ IsFiniteSet(b[x].since)
  <2>1. k # None
    BY DEF None
  <2>2. b[x] = IF bound[x].visitor = None THEN bound[x]
               ELSE [bound[x] EXCEPT !.since = bound[x].since \union {k}]
    BY <2>1 DEF Follows, Use
  <2>3. bound[x] \in Histories(same) /\ IsFiniteSet(bound[x].since)
    BY DEF Recorded
  <2>4. IsFiniteSet(bound[x].since \union {k})
    BY <2>3, FS_AddElement
  <2>5. CASE bound[x].visitor = None
    BY <2>2, <2>3, <2>5
  <2>6. CASE bound[x].visitor # None
    <3>1. b[x] = [bound[x] EXCEPT !.since = bound[x].since \union {k}]
      BY <2>2, <2>6
    <3> QED BY <2>3, <2>4, <3>1 DEF Histories
  <2> QED BY <2>5, <2>6
<1>3. b[k] \in Histories(same) /\ IsFiniteSet(b[k].since)
  BY <1>1, FS_EmptySet DEF Histories
<1> QED BY <1>1, <1>2, <1>3 DEF Recorded

(* The call is done when the entry of "k" is at the front, for "v".        *)
LEMMA Settled ==
  ASSUME NEW same, NEW s, NEW k \in same, NEW v \in Nat \union StorageIDs, NEW b,
         Recorded(bound, same), now \in Nat, 0 \notin same, Follows(b, k, v, same),
         KeptBut(s, bound, same, now, k), Len(s) \in Nat \ {0},
         s[1] = [key |-> k, value |-> v, updatedAt |-> now]
  PROVE  Kept(s, b, same, now)
<1>1. /\ Recorded(b, same)
      /\ b[k] = [visitor |-> v, at |-> now, since |-> {}]
      /\ \A x \in same \ {k} :
           /\ b[x].visitor = bound[x].visitor /\ b[x].at = bound[x].at
           /\ b[x].visitor # None => b[x].since = bound[x].since \union {k}
           /\ IsFiniteSet(bound[x].since) /\ IsFiniteSet(b[x].since)
  BY FollowsFacts
<1>2. Holds(s, k, b[k], b[k].since)
  <2>1. 1 \in 1 .. Len(s) /\ \A j \in 1 .. 1 - 1 : FALSE
    OBVIOUS
  <2> QED BY <1>1, <2>1 DEF Holds
<1>3. ASSUME NEW x \in same \ {k}, Owed(b[x], now)
      PROVE  Holds(s, x, b[x], b[x].since)
  <2>1. b[x].since = bound[x].since \union {k}
    BY <1>1, <1>3 DEF Owed
  <2>2. Cardinality(bound[x].since) <= Cardinality(b[x].since)
        /\ Cardinality(bound[x].since) \in Nat /\ Cardinality(b[x].since) \in Nat
    <3>1. bound[x].since \in SUBSET b[x].since /\ IsFiniteSet(b[x].since)
          /\ IsFiniteSet(bound[x].since)
      BY <1>1, <2>1
    <3> QED BY <3>1, FS_Subset, FS_CardinalityType
  <2>3. Owed(bound[x], now)
    BY <1>1, <1>3, <2>2, IdentityNumbers DEF Owed
  <2>4. Holds(s, x, bound[x], bound[x].since \union {k})
    BY <2>3 DEF KeptBut
  <2> QED BY <1>1, <2>1, <2>4 DEF Holds
<1> QED BY <1>2, <1>3 DEF Kept, KeptBut

(* Evicting takes nothing that is owed.                                    *)
LEMMA TrimmedKept ==
  ASSUME NEW same, NEW s, NEW b, Recorded(b, same), now \in Nat, Kept(s, b, same, now)
  PROVE  Kept(Trimmed(s, MaxEntries, {e \in Listed(s) : Outdated(e)}), b, same, now)
<1> DEFINE gone == {e \in Listed(s) : Outdated(e)}
<1>1. WellFormed(s, same) /\ s \in Seq(Entries(same)) /\ Len(s) \in Nat
  BY DEF Kept, WellFormed
<1>2. PICK n \in 0 .. Len(s) :
           /\ Trimmed(s, MaxEntries, gone) = SubSeq(s, 1, n)
           /\ \A m \in 1 .. Len(s) : m > n /\ m <= MaxEntries => s[m] \in gone
  <2> HIDE DEF gone
  <2> QED BY <1>1, IdentityNumbers, TrimmedFacts
<1> DEFINE p == SubSeq(s, 1, n)
<1>3. p \in Seq(Entries(same)) /\ Len(p) = n /\ \A i \in 1 .. n : p[i] = s[i]
  BY <1>1, PrefixFacts
<1> HIDE DEF p
<1>4. WellFormed(p, same)
  <2>1. \A i \in 1 .. Len(p) : i \in 1 .. Len(s) /\ p[i] = s[i]
    BY <1>1, <1>3
  <2> QED BY <1>1, <1>3, <2>1 DEF WellFormed
<1>5. ASSUME NEW x \in same, Owed(b[x], now)
      PROVE  Holds(p, x, b[x], b[x].since)
  <2>1. PICK i \in 1 .. Len(s) :
          /\ s[i].key = x /\ s[i].value = b[x].visitor /\ s[i].updatedAt >= b[x].at
          /\ \A j \in 1 .. i - 1 : s[j].key \in b[x].since
    BY <1>5 DEF Kept, Holds
  <2>2. b[x] \in Histories(same) /\ IsFiniteSet(b[x].since) /\ s[i] \in Entries(same)
    BY <1>1, ElementOfSeq DEF Recorded
  <2>3. i - 1 <= Cardinality(b[x].since)
    BY <1>1, <2>1, <2>2, PlaceBounded
  <2>4. i <= MaxEntries
    <3>1. Cardinality(b[x].since) < MaxEntries /\ Cardinality(b[x].since) \in Nat
      BY <1>5, <2>2, FS_CardinalityType DEF Owed
    <3> QED BY <2>3, <3>1, IdentityNumbers
  <2>5. ~ Outdated(s[i])
    <3>1. s[i].updatedAt \in Nat /\ b[x].at \in Nat /\ now - b[x].at <= IdentityTTL
      BY <1>5, <2>2 DEF Owed, Entries, Histories
    <3> QED BY <2>1, <3>1, IdentityNumbers DEF Outdated
  <2>6. i <= n
    BY <1>1, <1>2, <2>4, <2>5
  <2>7. i \in 1 .. Len(p) /\ p[i] = s[i] /\ \A j \in 1 .. i - 1 : p[j] = s[j]
    BY <1>1, <1>3, <2>6
  <2> QED BY <2>1, <2>7 DEF Holds
<1> QED BY <1>2, <1>4, <1>5 DEF Kept, p

LEMMA PutKept ==
  ASSUME NEW same, NEW lru, NEW k \in same, NEW v \in Nat \union StorageIDs, NEW b,
         Recorded(bound, same), now \in Nat, 0 \notin same, Follows(b, k, v, same),
         KeptBut(lru, bound, same, now, k)
  PROVE  Kept(Put(lru, k, v), b, same, now)
<1> DEFINE e == [key |-> k, value |-> v, updatedAt |-> now]
           put == <<e>> \o Removed(lru, k)
<1>1. e \in Entries(same) /\ e.key = k
  BY DEF Entries
<1>2. /\ KeptBut(Removed(lru, k), bound, same, now, k)
      /\ \A i \in 1 .. Len(Removed(lru, k)) : Removed(lru, k)[i].key # k
  BY RemovedKept
<1>3. KeptBut(put, bound, same, now, k) /\ Len(put) \in Nat \ {0} /\ put[1] = e
  <2> HIDE DEF e
  <2> QED BY <1>1, <1>2, PushedKept
<1>4. Put(lru, k, v) = IF EntryOf(lru, k) # {} THEN put
                       ELSE Trimmed(put, MaxEntries, {x \in Listed(put) : Outdated(x)})
  BY DEF Put
<1> HIDE DEF put
<1>5. Kept(put, b, same, now)
  BY <1>3, Settled
<1>6. Recorded(b, same)
  BY FollowsFacts
<1> QED BY <1>4, <1>5, <1>6, TrimmedKept

LEMMA KeptWeakens ==
  ASSUME NEW same, NEW lru, NEW b, NEW t, NEW k, Kept(lru, b, same, t)
  PROVE  KeptBut(lru, b, same, t, k)
<1>1. \A x, a : Holds(lru, x, b[x], a) => Holds(lru, x, b[x], a \union {k})
  BY DEF Holds
<1> QED BY <1>1 DEF Kept, KeptBut

(* Get, and what it leaves at the front when it finds the entry.           *)
LEMMA LookedKept ==
  ASSUME NEW same, NEW lru, NEW k \in same, now \in Nat,
         KeptBut(lru, bound, same, now, k)
  PROVE  /\ KeptBut(Looked(lru, k), bound, same, now, k)
         /\ \A v \in Found(lru, k) :
              /\ v \in Nat \union StorageIDs
              /\ Len(Looked(lru, k)) \in Nat \ {0}
              /\ Looked(lru, k)[1] = [key |-> k, value |-> v, updatedAt |-> now]
<1>1. WellFormed(lru, same)
  BY DEF KeptBut
<1>2. /\ KeptBut(Removed(lru, k), bound, same, now, k)
      /\ \A i \in 1 .. Len(Removed(lru, k)) : Removed(lru, k)[i].key # k
  BY RemovedKept
<1>3. CASE EntryOf(lru, k) = {}
  <2>1. Looked(lru, k) = lru /\ Found(lru, k) = {}
    BY <1>3 DEF Looked, Found
  <2> QED BY <2>1
<1>4. CASE EntryOf(lru, k) # {}
  <2> DEFINE e == Hit(lru, k)
             f == [e EXCEPT !.updatedAt = now]
  <2>1. PICK h \in 1 .. Len(lru) : lru[h] = e /\ e.key = k
    BY <1>1, <1>4, EntryFacts
  <2>2. e \in Entries(same) /\ Found(lru, k) = IF Outdated(e) THEN {} ELSE {e.value}
    BY <1>1, <2>1, EntryFacts
  <2>3. CASE Outdated(e)
    <3>1. Looked(lru, k) = Removed(lru, k) /\ Found(lru, k) = {}
      BY <1>4, <2>2, <2>3 DEF Looked
    <3> QED BY <1>2, <3>1
  <2>4. CASE ~ Outdated(e)
    <3>1. Looked(lru, k) = <<f>> \o Removed(lru, k) /\ Found(lru, k) = {e.value}
      BY <1>4, <2>2, <2>4 DEF Looked
    <3>2. /\ f \in Entries(same) /\ f.key = k
          /\ f = [key |-> k, value |-> e.value, updatedAt |-> now]
          /\ e.value \in Nat \union StorageIDs
      BY <2>1, <2>2 DEF Entries
    <3> HIDE DEF f, e
    <3>3. /\ KeptBut(<<f>> \o Removed(lru, k), bound, same, now, k)
          /\ Len(<<f>> \o Removed(lru, k)) \in Nat \ {0}
          /\ (<<f>> \o Removed(lru, k))[1] = f
      BY <1>2, <3>2, PushedKept
    <3> QED BY <3>1, <3>2, <3>3
  <2> QED BY <2>3, <2>4
<1> QED BY <1>3, <1>4

LEMMA IdentityInit_Inv == ClockInit /\ IdentityInit => IdentityInv
<1> SUFFICES ASSUME ClockInit, IdentityInit PROVE IdentityInv
  OBVIOUS
<1>1. /\ now = 0 /\ minted = 1 /\ storage = << >> /\ dailyHashes = << >>
      /\ bound = [k \in StorageIDs \union DailyHashes |-> Unbound]
  BY DEF ClockInit, IdentityInit
<1>2. /\ Unbound.visitor = None /\ Unbound.at = 0 /\ IsFiniteSet(Unbound.since)
      /\ \A same : Unbound \in Histories(same)
  BY FS_EmptySet DEF Unbound, Histories, None
<1>3. \A same : WellFormed(<< >>, same)
  BY DEF WellFormed
<1>4. ASSUME NEW same, same \subseteq StorageIDs \union DailyHashes
      PROVE  Recorded(bound, same) /\ Kept(<< >>, bound, same, now)
  <2>1. \A x \in same : bound[x] = Unbound
    BY <1>1, <1>4
  <2> QED BY <1>2, <1>3, <2>1 DEF Recorded, Kept, Owed
<1> QED BY <1>1, <1>4 DEF IdentityInv

(* The ids of a kind that a request does not carry see nothing of it.      *)
LEMMA UsedFacts ==
  ASSUME NEW q, NEW h, NEW v
  PROVE  /\ Follows(Used(q, h, v), q, v, StorageIDs)
         /\ Follows(Used(q, h, v), h, v, DailyHashes)
<1>1. StorageIDs \intersect DailyHashes = {}
  BY IdentityAssumption
<1>2. \A x \in StorageIDs : Used(q, h, v)[x] = Use(q, v, StorageIDs)[x]
  BY DEF Used
<1>3. \A x \in DailyHashes : Used(q, h, v)[x] = Use(h, v, DailyHashes)[x]
  BY <1>1 DEF Used
<1> QED BY <1>2, <1>3 DEF Follows

LEMMA NotUsed ==
  ASSUME NEW same, NEW lru, NEW b, NEW v, 0 \notin same, Follows(b, None, v, same),
         Recorded(bound, same), Kept(lru, bound, same, now)
  PROVE  Recorded(b, same) /\ Kept(lru, b, same, now)
<1>1. \A x \in same : b[x] = bound[x]
  BY DEF Follows, Use, None
<1> QED BY <1>1 DEF Recorded, Kept

LEMMA PutIfKept ==
  ASSUME NEW same, NEW lru, NEW k \in same \union {None}, NEW v \in Nat \union StorageIDs,
         NEW b, Recorded(bound, same), now \in Nat, 0 \notin same, Follows(b, k, v, same),
         Kept(lru, bound, same, now)
  PROVE  Recorded(b, same) /\ Kept(PutIf(lru, k, v), b, same, now)
<1>1. CASE k = None
  <2>1. Follows(b, None, v, same)
    BY <1>1
  <2> QED BY <1>1, <2>1, NotUsed DEF PutIf
<1>2. CASE k # None
  <2>1. k \in same /\ PutIf(lru, k, v) = Put(lru, k, v) /\ KeptBut(lru, bound, same, now, k)
    BY <1>2, KeptWeakens DEF PutIf
  <2>2. Recorded(b, same)
    BY <2>1, FollowsFacts
  <2>3. Kept(Put(lru, k, v), b, same, now)
    BY <2>1, PutKept
  <2> QED BY <2>1, <2>2, <2>3
<1> QED BY <1>1, <1>2

LEMMA Kinds == 0 \notin StorageIDs /\ 0 \notin DailyHashes /\ None = 0
BY IdentityAssumption DEF None

LEMMA ResolveCookie_Inv ==
  ASSUME IdentityInv, NEW v \in 1 .. minted, NEW q \in StorageIDs \union {None},
         NEW h \in DailyHashes \union {None}, ResolveCookie(v, q, h)
  PROVE  IdentityInv'
<1>1. /\ storage' = PutIf(storage, q, v) /\ dailyHashes' = PutIf(dailyHashes, h, v)
      /\ bound' = Used(q, h, v) /\ UNCHANGED <<minted, now>>
  BY DEF ResolveCookie
<1>2. v \in Nat \union StorageIDs /\ now \in Nat /\ minted \in Nat \ {0}
  BY DEF IdentityInv
<1>3. Follows(bound', q, v, StorageIDs) /\ Follows(bound', h, v, DailyHashes)
  BY <1>1, UsedFacts
<1>4. Recorded(bound', StorageIDs) /\ Kept(storage', bound', StorageIDs, now)
  BY <1>1, <1>2, <1>3, Kinds, PutIfKept DEF IdentityInv
<1>5. Recorded(bound', DailyHashes) /\ Kept(dailyHashes', bound', DailyHashes, now)
  BY <1>1, <1>2, <1>3, Kinds, PutIfKept DEF IdentityInv
<1> QED BY <1>1, <1>2, <1>4, <1>5 DEF IdentityInv

LEMMA ResolveStorage_Inv ==
  ASSUME IdentityInv, NEW q \in StorageIDs, NEW h \in DailyHashes \union {None},
         ResolveStorage(q, h)
  PROVE  IdentityInv'
<1> DEFINE v == OfStorage(q)
<1>1. /\ storage' = Put(Looked(storage, q), q, v) /\ dailyHashes' = PutIf(dailyHashes, h, v)
      /\ bound' = Used(q, h, v) /\ UNCHANGED <<minted, now>>
  BY DEF ResolveStorage
<1>2. now \in Nat /\ minted \in Nat \ {0}
  BY DEF IdentityInv
<1>3. /\ KeptBut(Looked(storage, q), bound, StorageIDs, now, q)
      /\ \A x \in Found(storage, q) : x \in Nat \union StorageIDs
  <2>1. KeptBut(storage, bound, StorageIDs, now, q)
    BY KeptWeakens DEF IdentityInv
  <2> QED BY <1>2, <2>1, LookedKept
<1>4. v \in Nat \union StorageIDs
  BY <1>3 DEF OfStorage
<1> HIDE DEF v
<1>5. Follows(bound', q, v, StorageIDs) /\ Follows(bound', h, v, DailyHashes)
  BY <1>1, UsedFacts
<1>6. Recorded(bound', StorageIDs)
  BY <1>2, <1>4, <1>5, Kinds, FollowsFacts DEF IdentityInv
<1>7. Kept(storage', bound', StorageIDs, now)
  BY <1>1, <1>2, <1>3, <1>4, <1>5, Kinds, PutKept DEF IdentityInv
<1>8. Recorded(bound', DailyHashes) /\ Kept(dailyHashes', bound', DailyHashes, now)
  BY <1>1, <1>2, <1>4, <1>5, Kinds, PutIfKept DEF IdentityInv
<1> QED BY <1>1, <1>2, <1>6, <1>7, <1>8 DEF IdentityInv

LEMMA ResolveHash_Inv ==
  ASSUME IdentityInv, NEW h \in DailyHashes, ResolveHash(h)
  PROVE  IdentityInv'
<1>1. PICK v \in Found(dailyHashes, h) : bound' = Used(None, h, v)
  BY DEF ResolveHash
<1>2. dailyHashes' = Looked(dailyHashes, h) /\ UNCHANGED <<storage, minted, now>>
  BY DEF ResolveHash
<1>3. now \in Nat /\ minted \in Nat \ {0}
  BY DEF IdentityInv
<1>4. /\ KeptBut(dailyHashes', bound, DailyHashes, now, h)
      /\ v \in Nat \union StorageIDs /\ Len(dailyHashes') \in Nat \ {0}
      /\ dailyHashes'[1] = [key |-> h, value |-> v, updatedAt |-> now]
  <2>1. KeptBut(dailyHashes, bound, DailyHashes, now, h)
    BY KeptWeakens DEF IdentityInv
  <2> QED BY <1>1, <1>2, <1>3, <2>1, LookedKept
<1>5. Follows(bound', None, v, StorageIDs) /\ Follows(bound', h, v, DailyHashes)
  BY <1>1, UsedFacts
<1>6. Recorded(bound', StorageIDs) /\ Kept(storage', bound', StorageIDs, now)
  BY <1>2, <1>5, Kinds, NotUsed DEF IdentityInv
<1>7. Recorded(bound', DailyHashes)
  BY <1>3, <1>4, <1>5, Kinds, FollowsFacts DEF IdentityInv
<1>8. Kept(dailyHashes', bound', DailyHashes, now)
  BY <1>3, <1>4, <1>5, Kinds, Settled DEF IdentityInv
<1> QED BY <1>2, <1>3, <1>6, <1>7, <1>8 DEF IdentityInv

LEMMA ResolveNew_Inv ==
  ASSUME IdentityInv, NEW h \in DailyHashes \union {None}, ResolveNew(h)
  PROVE  IdentityInv'
<1> DEFINE v == minted + 1
<1>1. /\ dailyHashes' = IF h = None THEN dailyHashes ELSE Put(Looked(dailyHashes, h), h, v)
      /\ bound' = Used(None, h, v) /\ minted' = v /\ UNCHANGED <<storage, now>>
  BY DEF ResolveNew
<1>2. now \in Nat /\ minted \in Nat \ {0} /\ v \in Nat \ {0} /\ v \in Nat \union StorageIDs
  BY DEF IdentityInv
<1> HIDE DEF v
<1>3. Follows(bound', None, v, StorageIDs) /\ Follows(bound', h, v, DailyHashes)
  BY <1>1, UsedFacts
<1>4. Recorded(bound', StorageIDs) /\ Kept(storage', bound', StorageIDs, now)
  BY <1>1, <1>3, Kinds, NotUsed DEF IdentityInv
<1>5. Recorded(bound', DailyHashes) /\ Kept(dailyHashes', bound', DailyHashes, now)
  <2>1. CASE h = None
    <3>1. Follows(bound', None, v, DailyHashes) /\ dailyHashes' = dailyHashes
      BY <1>1, <1>3, <2>1
    <3> QED BY <3>1, Kinds, NotUsed DEF IdentityInv
  <2>2. CASE h # None
    <3>1. h \in DailyHashes /\ dailyHashes' = Put(Looked(dailyHashes, h), h, v)
      BY <1>1, <2>2
    <3>2. KeptBut(Looked(dailyHashes, h), bound, DailyHashes, now, h)
      <4>1. KeptBut(dailyHashes, bound, DailyHashes, now, h)
        BY KeptWeakens DEF IdentityInv
      <4> QED BY <1>2, <3>1, <4>1, LookedKept
    <3>3. Recorded(bound', DailyHashes)
      BY <1>2, <1>3, <3>1, Kinds, FollowsFacts DEF IdentityInv
    <3>4. Kept(dailyHashes', bound', DailyHashes, now)
      BY <1>2, <1>3, <3>1, <3>2, Kinds, PutKept DEF IdentityInv
    <3> QED BY <3>3, <3>4
  <2> QED BY <2>1, <2>2
<1> QED BY <1>1, <1>2, <1>4, <1>5 DEF IdentityInv

LEMMA IdentityNext_Inv ==
  ASSUME IdentityInv, [IdentityNext]_<<identityVars, now>>
  PROVE  IdentityInv'
<1>1. CASE UNCHANGED <<identityVars, now>>
  <2>1. UNCHANGED <<storage, dailyHashes, minted, bound, now>>
    BY <1>1 DEF identityVars
  <2> QED BY <2>1 DEF IdentityInv
<1>2. CASE Elapse /\ UNCHANGED identityVars
  <2>1. /\ UNCHANGED <<storage, dailyHashes, minted, bound>>
        /\ now' = now + 1 /\ now \in Nat
    BY <1>2 DEF identityVars, Elapse, IdentityInv
  <2>2. ASSUME NEW same, NEW lru, Recorded(bound, same), Kept(lru, bound, same, now)
        PROVE  Kept(lru, bound, same, now')
    <3>1. ASSUME NEW x \in same, Owed(bound[x], now') PROVE Owed(bound[x], now)
      <4>1. bound[x].at \in Nat
        BY <2>2 DEF Recorded, Histories
      <4> QED BY <2>1, <3>1, <4>1, IdentityNumbers DEF Owed
    <3> QED BY <2>2, <3>1 DEF Kept
  <2>3. Kept(storage, bound, StorageIDs, now') /\ Kept(dailyHashes, bound, DailyHashes, now')
    BY <2>2 DEF IdentityInv
  <2> QED BY <2>1, <2>3 DEF IdentityInv
<1>3. ASSUME NEW q \in StorageIDs \union {None}, NEW h \in DailyHashes \union {None},
             Resolve(q, h)
      PROVE  IdentityInv'
  <2>1. CASE \E v \in 1 .. minted : ResolveCookie(v, q, h)
    BY <2>1, ResolveCookie_Inv
  <2>2. CASE q # None /\ ResolveStorage(q, h)
    BY <2>2, ResolveStorage_Inv
  <2>3. CASE q = None /\ h # None /\ ResolveHash(h)
    BY <2>3, ResolveHash_Inv
  <2>4. CASE q = None /\ ResolveNew(h)
    BY <2>4, ResolveNew_Inv
  <2> QED BY <1>3, <2>1, <2>2, <2>3, <2>4 DEF Resolve
<1> QED BY <1>1, <1>2, <1>3 DEF IdentityNext

(* A client stays the same visitor by its storage id or its hash, for ttl  *)
(* and while fewer than maxEntries other ids of the kind are used,         *)
(* whatever the caches evict and expire meanwhile (cache/lru.go:81-89).    *)
THEOREM StableIdentityHolds == IdentitySpec => []StableIdentity
<1>1. IdentityInv => StableIdentity
  <2> SUFFICES ASSUME IdentityInv PROVE StableIdentity
    OBVIOUS
  <2>1. now \in Nat
    BY DEF IdentityInv
  <2>2. ASSUME NEW same, NEW lru, NEW k \in same, Recorded(bound, same),
               Kept(lru, bound, same, now), Remembered(k, same)
        PROVE  Found(lru, k) = {bound[k].visitor}
    <3>1. bound[k] \in Histories(same)
      BY <2>2 DEF Recorded
    <3>2. bound[k].since \intersect same = bound[k].since
      BY <3>1 DEF Histories
    <3>3. Owed(bound[k], now)
      BY <2>2, <3>2 DEF Remembered, Owed
    <3>4. PICK i \in 1 .. Len(lru) :
            lru[i].key = k /\ lru[i].value = bound[k].visitor /\ lru[i].updatedAt >= bound[k].at
      BY <2>2, <3>3 DEF Kept, Holds
    <3>5. WellFormed(lru, same)
      BY <2>2 DEF Kept
    <3>6. lru[i] \in Entries(same)
          /\ Found(lru, k) = IF Outdated(lru[i]) THEN {} ELSE {lru[i].value}
      BY <3>4, <3>5, EntryFacts
    <3>7. ~ Outdated(lru[i])
      <4>1. lru[i].updatedAt \in Nat /\ bound[k].at \in Nat /\ now - bound[k].at <= IdentityTTL
        BY <3>1, <3>3, <3>6 DEF Owed, Entries, Histories
      <4> QED BY <2>1, <3>4, <4>1, IdentityNumbers DEF Outdated
    <3> QED BY <3>4, <3>6, <3>7
  <2>3. \A q \in StorageIDs : Remembered(q, StorageIDs) => OfStorage(q) = bound[q].visitor
    <3> SUFFICES ASSUME NEW q \in StorageIDs, Remembered(q, StorageIDs)
                 PROVE  OfStorage(q) = bound[q].visitor
      OBVIOUS
    <3>1. Found(storage, q) = {bound[q].visitor}
      BY <2>2 DEF IdentityInv
    <3> QED BY <3>1 DEF OfStorage
  <2>4. \A h \in DailyHashes :
          Remembered(h, DailyHashes) => Found(dailyHashes, h) = {bound[h].visitor}
    BY <2>2 DEF IdentityInv
  <2> QED BY <2>3, <2>4 DEF StableIdentity
<1> QED BY IdentityInit_Inv, IdentityNext_Inv, <1>1, PTL DEF IdentitySpec
=============================================================================
