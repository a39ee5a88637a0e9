--------------------------- MODULE ResponseCache ---------------------------
(***************************************************************************)
(* The cache of dashboard responses, cache/cache.go.  Get reads the clock, *)
(* looks the entry up under the read lock, reads its expiry under no lock  *)
(* at all, and takes the lock again to delete the key or to read the       *)
(* value; Set reads the clock before its lock.  Between those steps other  *)
(* calls change the entry, remove it, or put another in its place.         *)
(*                                                                         *)
(* An entry is the object a pointer leads to: Get keeps the pointer, so    *)
(* entries that left the map live on.  A value is the number of its Set.   *)
(***************************************************************************)
EXTENDS Clock, Recency

CONSTANTS
  Keys,          \* dashboard requests
  Callers,       \* goroutines that handle them
  CacheTTL,      \* ttl, in ticks
  MaxSize,       \* maxSize
  MaxSets,       \* bound on the calls of Set
  MaxGets        \* bound on the calls of Get

ASSUME CacheAssumption ==
  /\ CacheTTL \in Nat \ {0}
  /\ MaxSize \in Nat \ {0}
  /\ MaxSets \in Nat
  /\ MaxGets \in Nat

VARIABLES
  cached,      \* entries: the object of each key in the map
  cacheOrder,  \* order
  objects,     \* the objects made so far: value and expiresAt
  calls,       \* calls at work
  sets, gets,  \* calls so far
  setEnded,    \* history: when the Set of a value had stored it
  served       \* history: the value Get returned last, and when it began

cacheVars == <<cached, cacheOrder, objects, calls, sets, gets, setEnded, served>>

NoCall == [step |-> "none", key |-> 0, at |-> 0, object |-> 0, value |-> 0]
NothingServed == [value |-> 0, began |-> 0]

CacheInit ==
  /\ cached = << >>
  /\ cacheOrder = << >>
  /\ objects = << >>
  /\ calls = [c \in Callers |-> NoCall]
  /\ sets = 0
  /\ gets = 0
  /\ setEnded = << >>
  /\ served = NothingServed
-----------------------------------------------------------------------------
SetBegin(c, k) ==
  /\ calls[c] = NoCall
  /\ sets < MaxSets
  /\ sets' = sets + 1
  /\ setEnded' = Append(setEnded, now)
  /\ calls' = [calls EXCEPT ![c] =
       [NoCall EXCEPT !.step = "set", !.key = k, !.at = now, !.value = sets + 1]]
  /\ UNCHANGED <<cached, cacheOrder, objects, gets, served, now>>

(* The keys of the map, restricted to those still in the list.             *)
InMap(order, map) == [k \in DOMAIN map \intersect Listed(order) |-> map[k]]

(* Set under the lock: the key's object gets the value and a new expiry,   *)
(* or a new object is made, and one entry too many pushes the last out.    *)
SetEnd(c) ==
  /\ calls[c].step = "set"
  /\ LET k == calls[c].key
         stored == [value |-> calls[c].value, expiresAt |-> calls[c].at + CacheTTL]
         made == Len(objects) + 1
         order == Capped(ToFront(k, cacheOrder), MaxSize)
     IN /\ IF k \in DOMAIN cached
           THEN /\ objects' = [objects EXCEPT ![cached[k]] = stored]
                /\ cached' = cached
           ELSE /\ objects' = Append(objects, stored)
                /\ cached' = InMap(order,
                     [x \in DOMAIN cached \union {k} |->
                        IF x = k THEN made ELSE cached[x]])
        /\ cacheOrder' = order
        /\ setEnded' = [setEnded EXCEPT ![calls[c].value] = now]
  /\ calls' = [calls EXCEPT ![c] = NoCall]
  /\ UNCHANGED <<sets, gets, served, now>>

GetBegin(c, k) ==
  /\ calls[c] = NoCall
  /\ gets < MaxGets
  /\ gets' = gets + 1
  /\ calls' = [calls EXCEPT ![c] = [NoCall EXCEPT !.step = "get", !.key = k, !.at = now]]
  /\ UNCHANGED <<cached, cacheOrder, objects, sets, setEnded, served, now>>

(* The read lock.                                                          *)
GetLookup(c) ==
  /\ calls[c].step = "get"
  /\ LET k == calls[c].key
     IN calls' = [calls EXCEPT ![c] =
          IF k \in DOMAIN cached
          THEN [@ EXCEPT !.step = "found", !.object = cached[k]]
          ELSE NoCall]
  /\ UNCHANGED <<cached, cacheOrder, objects, sets, gets, setEnded, served, now>>

(* now.After(entry.expiresAt).                                             *)
Expired(o, at) == at > objects[o].expiresAt

(* entry.expiresAt is read while a Set may be writing it; the comparison   *)
(* looks at one word of it, so that it sees the old expiry or the new.     *)
GetCheck(c) ==
  /\ calls[c].step = "found"
  /\ calls' = [calls EXCEPT ![c].step =
       IF Expired(calls[c].object, calls[c].at) THEN "delete" ELSE "serve"]
  /\ UNCHANGED <<cached, cacheOrder, objects, sets, gets, setEnded, served, now>>

(* Delete(key): whatever entry the key has by now.                         *)
GetDelete(c) ==
  /\ calls[c].step = "delete"
  /\ cacheOrder' = Without(calls[c].key, cacheOrder)
  /\ cached' = InMap(cacheOrder', cached)
  /\ calls' = [calls EXCEPT ![c] = NoCall]
  /\ UNCHANGED <<objects, sets, gets, setEnded, served, now>>

(* Seeded defect: a value that is read has its expiry renewed.             *)
GetServeRenewing(c) ==
  /\ calls[c].step = "serve"
  /\ objects' = [objects EXCEPT ![calls[c].object].expiresAt = now + CacheTTL]
  /\ served' = [value |-> objects[calls[c].object].value, began |-> calls[c].at]
  /\ calls' = [calls EXCEPT ![c] = NoCall]
  /\ UNCHANGED <<cached, cacheOrder, sets, gets, setEnded, now>>

(* The second lock: the element moves to the front if it is still in the   *)
(* list, and the value the object has by now is returned.                  *)
GetServe(c) ==
  /\ calls[c].step = "serve"
  /\ LET k == calls[c].key
         o == calls[c].object
     IN /\ cacheOrder' = IF k \in DOMAIN cached /\ cached[k] = o
                         THEN ToFront(k, cacheOrder) ELSE cacheOrder
        /\ served' = [value |-> objects[o].value, began |-> calls[c].at]
  /\ calls' = [calls EXCEPT ![c] = NoCall]
  /\ UNCHANGED <<cached, objects, sets, gets, setEnded, now>>

CacheNext ==
  \/ \E c \in Callers, k \in Keys : SetBegin(c, k) \/ GetBegin(c, k)
  \/ \E c \in Callers :
       SetEnd(c) \/ GetLookup(c) \/ GetCheck(c) \/ GetDelete(c) \/ GetServe(c)
  \/ Elapse /\ UNCHANGED cacheVars

CacheSpec == ClockInit /\ CacheInit /\ [][CacheNext]_<<cacheVars, now>>
-----------------------------------------------------------------------------
(* A value Get returns was stored no longer than ttl before the call       *)
(* began, although the expiry was checked without a lock and the value     *)
(* read after it (cache.go:50-61), by which time the entry may hold        *)
(* another value or be out of the map.                                     *)
NeverServesStale ==
  served # NothingServed => setEnded[served.value] + CacheTTL >= served.began
=============================================================================
