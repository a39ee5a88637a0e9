------------------------------ MODULE Identity ------------------------------
(***************************************************************************)
(* The identity resolver, identity/resolver.go, on the caches of           *)
(* cache/lru.go: which visitor a request belongs to, from its cookie, the  *)
(* id its page keeps in storage, and the hash of address and browser.      *)
(*                                                                         *)
(* A cache is the list of its entries, the one used last first.  Resolve   *)
(* takes the lock before it reads the clock, so that a call is one step.   *)
(***************************************************************************)
EXTENDS Clock, Recency, FiniteSets

CONSTANTS
  StorageIDs,   \* ids that pages keep in storage; a visitor may be named by one
  DailyHashes,  \* dailyVisitorHash of the clients
  MaxVisitors,  \* bound on the ids made
  MaxResolves,  \* bound on the calls
  MaxEntries,   \* maxEntries of each cache
  IdentityTTL   \* ttl, in ticks

ASSUME IdentityAssumption ==
  /\ MaxVisitors \in Nat \ {0}
  /\ MaxResolves \in Nat
  /\ MaxEntries \in Nat \ {0}
  /\ IdentityTTL \in Nat \ {0}
  /\ 0 \notin StorageIDs \union DailyHashes   \* None
  /\ StorageIDs \intersect DailyHashes = {}

VARIABLES
  storage, dailyHashes,  \* the caches from storage ids and from hashes
  visitors,              \* the cache of visitors seen, which gives no answers
  minted,                \* visitor ids made so far; the first is a cookie's
                         \*   from before the process started
  resolved,              \* calls so far
  bound                  \* history: per storage id and hash, the visitor of
                         \*   its last request, when that was, and the ids of
                         \*   its kind used since

identityVars == <<storage, dailyHashes, visitors, minted, resolved, bound>>

None == 0
Unbound == [visitor |-> None, at |-> 0, since |-> {}]

IdentityInit ==
  /\ storage = << >>
  /\ dailyHashes = << >>
  /\ visitors = << >>
  /\ minted = 1
  /\ resolved = 0
  /\ bound = [k \in StorageIDs \union DailyHashes |-> Unbound]
-----------------------------------------------------------------------------
(* expired.                                                                *)
Outdated(e) == now - e.updatedAt > IdentityTTL

EntryOf(lru, k) == {e \in Listed(lru) : e.key = k}

(* The element of a key that is there.                                     *)
Hit(lru, k) == CHOOSE e \in Listed(lru) : e.key = k

Removed(lru, k) == IF EntryOf(lru, k) = {} THEN lru ELSE Without(Hit(lru, k), lru)

(* Get: what it returns, and the list it leaves.                           *)
Found(lru, k) == {e.value : e \in {x \in EntryOf(lru, k) : ~ Outdated(x)}}

Looked(lru, k) ==
  IF EntryOf(lru, k) = {} THEN lru
  ELSE IF Outdated(Hit(lru, k)) THEN Removed(lru, k)
  ELSE <<[Hit(lru, k) EXCEPT !.updatedAt = now]>> \o Removed(lru, k)

(* Seeded defect: an entry that is written again stays in its place.       *)
PutInPlace(lru, k, v) ==
  IF EntryOf(lru, k) # {}
  THEN [i \in DOMAIN lru |-> IF lru[i].key = k THEN [lru[i] EXCEPT !.value = v] ELSE lru[i]]
  ELSE Trimmed(<<[key |-> k, value |-> v, updatedAt |-> now]>> \o lru, MaxEntries,
               {e \in Listed(lru) : Outdated(e)})

(* Set: only a new entry makes it evict.                                   *)
Put(lru, k, v) ==
  LET put == <<[key |-> k, value |-> v, updatedAt |-> now]>> \o Removed(lru, k)
  IN IF EntryOf(lru, k) # {}
     THEN put
     ELSE Trimmed(put, MaxEntries, {e \in Listed(put) : Outdated(e)})

PutIf(lru, k, v) == IF k = None THEN lru ELSE Put(lru, k, v)

(* The visitor a storage id without a cookie stands for.                   *)
OfStorage(q) == IF Found(storage, q) = {} THEN q ELSE CHOOSE v \in Found(storage, q) : TRUE

(* History: k was used, and it stands for v.                               *)
Use(k, v, same) ==
  [x \in same |-> IF x = k THEN [visitor |-> v, at |-> now, since |-> {}]
                  ELSE IF k = None \/ bound[x].visitor = None THEN bound[x]
                  ELSE [bound[x] EXCEPT !.since = @ \union {k}]]

Used(q, h, v) ==
  LET s == Use(q, v, StorageIDs)
      d == Use(h, v, DailyHashes)
  IN [x \in StorageIDs \union DailyHashes |-> IF x \in StorageIDs THEN s[x] ELSE d[x]]

Resolving == resolved < MaxResolves /\ resolved' = resolved + 1

(* A cookie wins, and the other ids of the request are bound to it.        *)
ResolveCookie(v, q, h) ==
  /\ Resolving
  /\ visitors' = Put(visitors, v, v)
  /\ storage' = PutIf(storage, q, v)
  /\ dailyHashes' = PutIf(dailyHashes, h, v)
  /\ bound' = Used(q, h, v)
  /\ UNCHANGED <<minted, now>>

(* Then the storage id, by the cache or by itself.                         *)
ResolveStorage(q, h) ==
  /\ Resolving
  /\ LET v == OfStorage(q)
     IN /\ visitors' = Put(visitors, v, v)
        /\ storage' = Put(Looked(storage, q), q, v)
        /\ dailyHashes' = PutIf(dailyHashes, h, v)
        /\ bound' = Used(q, h, v)
  /\ UNCHANGED <<minted, now>>

(* Then the hash, if the cache knows it.                                   *)
ResolveHash(h) ==
  /\ Resolving
  /\ \E v \in Found(dailyHashes, h) :
       /\ visitors' = Put(visitors, v, v)
       /\ bound' = Used(None, h, v)
  /\ dailyHashes' = Looked(dailyHashes, h)
  /\ UNCHANGED <<storage, minted, now>>

(* A new visitor otherwise; its id is one nobody has.                      *)
ResolveNew(h) ==
  /\ Resolving /\ minted < MaxVisitors
  /\ Found(dailyHashes, h) = {}
  /\ minted' = minted + 1
  /\ visitors' = Put(visitors, minted', minted')
  /\ dailyHashes' = IF h = None THEN dailyHashes
                    ELSE Put(Looked(dailyHashes, h), h, minted')
  /\ bound' = Used(None, h, minted')
  /\ UNCHANGED <<storage, now>>

Resolve(q, h) ==
  \/ \E v \in 1 .. minted : ResolveCookie(v, q, h)
  \/ q # None /\ ResolveStorage(q, h)
  \/ q = None /\ h # None /\ ResolveHash(h)
  \/ q = None /\ ResolveNew(h)

IdentityNext ==
  \/ \E q \in StorageIDs \union {None}, h \in DailyHashes \union {None} : Resolve(q, h)
  \/ Elapse /\ UNCHANGED identityVars

IdentitySpec == ClockInit /\ IdentityInit /\ [][IdentityNext]_<<identityVars, now>>
-----------------------------------------------------------------------------
Remembered(k, same) ==
  /\ bound[k].visitor # None
  /\ now - bound[k].at <= IdentityTTL
  /\ Cardinality(bound[k].since \intersect same) < MaxEntries

(* A client stays the same visitor: its next request, without the cookie,  *)
(* resolves to the visitor of its last one, by storage id or by hash, if   *)
(* that was at most ttl ago and fewer than maxEntries other ids of the     *)
(* kind came in between, whatever evictions and expiries these caused      *)
(* (cache/lru.go:81-89).                                                   *)
StableIdentity ==
  /\ \A q \in StorageIDs : Remembered(q, StorageIDs) => OfStorage(q) = bound[q].visitor
  /\ \A h \in DailyHashes : Remembered(h, DailyHashes) => Found(dailyHashes, h) = {bound[h].visitor}
=============================================================================
