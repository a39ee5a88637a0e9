-------------------------- MODULE RealtimeCounter --------------------------
(***************************************************************************)
(* The counter of a site's visitors of the last minutes,                   *)
(* realtime/counter.go: Touch when a batch is accepted, Count for the      *)
(* dashboard.  Sites share nothing but the lock, so one stands for all.    *)
(*                                                                         *)
(* Both read the clock before they take the lock: an entry may become the  *)
(* front of the list with an older clock than the entries behind it.       *)
(***************************************************************************)
EXTENDS Clock, Recency

CONSTANTS
  SeenVisitors,  \* visitors of the site
  Touchers,      \* goroutines that call the counter
  WindowTTL,     \* ttl, in ticks
  MaxWindow,     \* maxSize
  MaxTouches     \* bound on the calls

ASSUME CounterAssumption ==
  /\ WindowTTL \in Nat \ {0}
  /\ MaxWindow \in Nat \ {0}
  /\ MaxTouches \in Nat

VARIABLES
  visitOrder,  \* order; the visitors in it are the keys of the map
  lastSeen,    \* lastSeen of the visitors in the map
  touches,     \* calls between time.Now() and the lock
  touched,     \* calls so far
  heard,       \* history: when the last Touch of a visitor ended
  outgrown     \* history: visitors removed for the size since their last Touch

counterVars == <<visitOrder, lastSeen, touches, touched, heard, outgrown>>

NoTouch == [call |-> "none", visitor |-> 0, at |-> 0]
Never == 0 - WindowTTL - 1

CounterInit ==
  /\ visitOrder = << >>
  /\ lastSeen = [v \in SeenVisitors |-> Never]
  /\ touches = [t \in Touchers |-> NoTouch]
  /\ touched = 0
  /\ heard = [v \in SeenVisitors |-> Never]
  /\ outgrown = {}
-----------------------------------------------------------------------------
(* pruneExpired.                                                           *)
Remaining(at) ==
  Trimmed(visitOrder, Len(visitOrder), {v \in SeenVisitors : at - lastSeen[v] > WindowTTL})

(* Seeded defect: the entry stays where it is in the list.                 *)
AppendedOnce(v, order) == IF v \in Listed(order) THEN order ELSE <<v>> \o order

(* MoveToFront of the visitor's element, or PushFront of a new one.        *)
Fronted(v, order) == ToFront(v, order)

(* The call reads the clock.                                               *)
CounterBegin(t, call) ==
  /\ touches[t] = NoTouch
  /\ touched < MaxTouches
  /\ touches' = [touches EXCEPT ![t] = call]
  /\ touched' = touched + 1
  /\ UNCHANGED <<visitOrder, lastSeen, heard, outgrown, now>>

(* Touch under the lock: expired visitors go, the visitor comes to the     *)
(* front, and one more visitor than maxSize pushes the last out.           *)
TouchEnd(t) ==
  /\ touches[t].call = "touch"
  /\ LET v == touches[t].visitor
         order == Fronted(v, Remaining(touches[t].at))
     IN /\ visitOrder' = Capped(order, MaxWindow)
        /\ lastSeen' = [lastSeen EXCEPT ![v] = touches[t].at]
        /\ heard' = [heard EXCEPT ![v] = now]
        /\ outgrown' = (outgrown \ {v})
             \union (Listed(order) \ Listed(Capped(order, MaxWindow)))
  /\ touches' = [touches EXCEPT ![t] = NoTouch]
  /\ UNCHANGED <<touched, now>>

(* Count under the lock; its answer is the length of the list.             *)
CountEnd(t) ==
  /\ touches[t].call = "count"
  /\ visitOrder' = Remaining(touches[t].at)
  /\ touches' = [touches EXCEPT ![t] = NoTouch]
  /\ UNCHANGED <<lastSeen, touched, heard, outgrown, now>>

CounterNext ==
  \/ \E t \in Touchers, v \in SeenVisitors :
       CounterBegin(t, [call |-> "touch", visitor |-> v, at |-> now])
  \/ \E t \in Touchers : CounterBegin(t, [NoTouch EXCEPT !.call = "count", !.at = now])
  \/ \E t \in Touchers : TouchEnd(t) \/ CountEnd(t)
  \/ Elapse /\ UNCHANGED counterVars

CounterSpec == ClockInit /\ CounterInit /\ [][CounterNext]_<<counterVars, now>>
-----------------------------------------------------------------------------
(* A Count that read the clock at "at" and has the lock now counts nobody  *)
(* whose last Touch had ended more than ttl before it began, and everybody *)
(* whose last Touch began within ttl, but for those the size pushed out:   *)
(* the order of the list stays good enough for pruneExpired to stop at the *)
(* first entry that has not expired (counter.go:121), although a delayed   *)
(* Touch puts an old clock at the front.                                   *)
CountIsExact ==
  \A at \in 0 .. now :
    LET counted == Listed(Remaining(at))
    IN /\ \A v \in counted : heard[v] + WindowTTL >= at
       /\ \A v \in SeenVisitors \ (counted \union outgrown) : lastSeen[v] + WindowTTL < now
=============================================================================
