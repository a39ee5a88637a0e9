------------------------------ MODULE Limiter ------------------------------
(***************************************************************************)
(* The rate limiter of the ingest endpoints, ratelimit/limiter.go: one     *)
(* token bucket per site, kept for the MaxSites sites used last.           *)
(*                                                                         *)
(* Check reads the clock before it takes the lock, so a call is two steps  *)
(* and calls may reach the lock in another order than they read the clock. *)
(* Tokens are counted in units: one token is Interval of them, so that a   *)
(* tick of the clock is worth Limit units, the code's limit / interval.    *)
(***************************************************************************)
EXTENDS Clock, Recency

CONSTANTS
  LimitedSites,  \* sites that send requests
  Checkers,      \* goroutines that handle them
  Limit,         \* limit
  Burst,         \* burst
  Interval,      \* interval, in ticks
  MaxSites,      \* maxSites
  MaxChecks      \* bound on the calls

ASSUME LimiterAssumption ==
  /\ Limit \in Nat \ {0}
  /\ Burst \in Nat
  /\ Interval \in Nat \ {0}
  /\ MaxSites \in Nat \ {0}
  /\ MaxChecks \in Nat

VARIABLES
  buckets,    \* windows
  siteOrder,  \* order
  checks,     \* Check calls between time.Now() and the lock
  checked,    \* calls so far
  opened,     \* history: the start of the period RateBounded looks at
  granted,    \* history: requests of that period allowed, per site; a
              \*   request is of the period in which it read the clock
  evictions   \* history: evictions in that period, per site

limiterVars == <<buckets, siteOrder, checks, checked, opened, granted, evictions>>

Capacity == (Limit + Burst) * Interval

NoCheck == [site |-> "", at |-> 0]
Checks == [site : LimitedSites, at : Nat]
Buckets == [tokens : 0 .. Capacity, lastRefill : Nat]

FullBucket(at) == [tokens |-> Capacity, lastRefill |-> at]

AtMost(a, b) == IF a < b THEN a ELSE b

LimiterInit ==
  /\ buckets = << >>
  /\ siteOrder = << >>
  /\ checks = [c \in Checkers |-> NoCheck]
  /\ checked = 0
  /\ opened = now
  /\ granted = [s \in LimitedSites |-> 0]
  /\ evictions = [s \in LimitedSites |-> 0]
-----------------------------------------------------------------------------
(* Seeded defect: lastRefill stays as it is.                               *)
RefilledAgain(b, at) ==
  IF at <= b.lastRefill
  THEN b
  ELSE [b EXCEPT !.tokens = AtMost(@ + (at - b.lastRefill) * Limit, Capacity)]

(* refill.  A call that read the clock before the last refill adds nothing.*)
Refilled(b, at) ==
  IF at <= b.lastRefill
  THEN b
  ELSE [tokens |-> AtMost(b.tokens + (at - b.lastRefill) * Limit, Capacity),
        lastRefill |-> at]

(* getOrCreate, before the eviction.                                       *)
BucketOf(s, at) == IF s \in DOMAIN buckets THEN buckets[s] ELSE FullBucket(at)

(* Check reads the clock.                                                  *)
CheckBegin(c, s) ==
  /\ checks[c] = NoCheck
  /\ checked < MaxChecks
  /\ checks' = [checks EXCEPT ![c] = [site |-> s, at |-> now]]
  /\ checked' = checked + 1
  /\ UNCHANGED <<buckets, siteOrder, opened, granted, evictions, now>>

(* The rest of Check, under the lock: the bucket is found or made, which   *)
(* may evict the site used longest ago; it is refilled, and a token is     *)
(* taken if there is one.  Either way the site was used last.              *)
CheckEnd(c) ==
  /\ checks[c] # NoCheck
  /\ LET s == checks[c].site
         b == Refilled(BucketOf(s, checks[c].at), checks[c].at)
         allowed == b.tokens >= Interval
         counts == allowed /\ checks[c].at >= opened
         order == Capped(ToFront(s, siteOrder), MaxSites)
         kept == (DOMAIN buckets \union {s}) \intersect Listed(order)
     IN /\ siteOrder' = order
        /\ buckets' = [x \in kept |->
                         IF x # s THEN buckets[x]
                         ELSE IF allowed THEN [b EXCEPT !.tokens = @ - Interval]
                         ELSE b]
        /\ granted' = IF counts THEN [granted EXCEPT ![s] = @ + 1] ELSE granted
        /\ evictions' = [x \in LimitedSites |->
                           IF x \in DOMAIN buckets \ kept
                           THEN evictions[x] + 1 ELSE evictions[x]]
  /\ checks' = [checks EXCEPT ![c] = NoCheck]
  /\ UNCHANGED <<checked, opened, now>>

(* The period RateBounded looks at begins now: any time will do.           *)
OpenPeriod ==
  /\ opened # now
  /\ opened' = now
  /\ granted' = [s \in LimitedSites |-> 0]
  /\ evictions' = [s \in LimitedSites |-> 0]
  /\ UNCHANGED <<buckets, siteOrder, checks, checked, now>>

LimiterNext ==
  \/ \E c \in Checkers, s \in LimitedSites : CheckBegin(c, s)
  \/ \E c \in Checkers : CheckEnd(c)
  \/ OpenPeriod
  \/ Elapse /\ UNCHANGED limiterVars

LimiterSpec == ClockInit /\ LimiterInit /\ [][LimiterNext]_<<limiterVars, now>>
-----------------------------------------------------------------------------
(* In any period, whenever it began, a site is granted at most a full      *)
(* bucket and what the rate refills in that time, and as much again each   *)
(* time it is evicted for other sites (limiter.go:114) and comes back with *)
(* a full bucket.  Calls may reach the lock with clocks out of order.      *)
RateBounded ==
  \A s \in LimitedSites :
    granted[s] * Interval <= (1 + evictions[s]) * (Capacity + Limit * (now - opened))
=============================================================================
