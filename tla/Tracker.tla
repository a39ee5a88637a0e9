------------------------------ MODULE Tracker ------------------------------
(***************************************************************************)
(* The event queue of the browser tracker, packages/tracker/src/tracker.js *)
(* (createTracker and deliver), in several tabs of one site.  Each tab has *)
(* a queue in memory and at most one flush at work; all of them share one  *)
(* backup in localStorage.  JavaScript runs a handler to the end before    *)
(* the next one, so a step is what happens between two awaits of fetch.    *)
(*                                                                         *)
(* A request belongs to the tab that waits for its answer, or to nobody: a *)
(* beacon, or one whose tab closed or gave up.  What becomes of requests   *)
(* is up to the module that composes the tracker with a server.            *)
(***************************************************************************)
EXTENDS Naturals, Sequences

CONSTANTS
  Tabs,
  Strays,             \* places for requests nobody waits for: a bound
  MaxEvents,          \* bound on the events recorded in all tabs
  RequestBatchLimit,  \* REQUEST_BATCH_LIMIT
  FlushThreshold      \* FLUSH_THRESHOLD

ASSUME TrackerAssumption ==
  /\ Tabs \intersect Strays = {}
  /\ MaxEvents \in Nat
  /\ RequestBatchLimit \in Nat \ {0}
  /\ FlushThreshold \in Nat \ {0}

VARIABLES
  page,      \* the tab is open
  queue,     \* queue, per tab
  flight,    \* the flush a tab has at work: its batch (none: inFlight is
             \*   false), and whether its reason is "hidden"
  backup,    \* localStorage[BACKUP_KEY]
  requests,  \* requests under way: the events still to be looked at by the
             \*   server, those it has taken into its batch, and its stage
  created,   \* events recorded so far; an event is its place in that order
  exposed    \* history: events that may be lost, because a page closed with
             \*   them in memory only, because a beacon carried them, or
             \*   because the server process ended with them in a handler

trackerVars == <<page, queue, flight, backup, requests, created, exposed>>

Events == 1 .. MaxEvents
Senders == Tabs \union Strays
New == created + 1

NoFlush == [batch |-> << >>, hidden |-> FALSE]
NoRequest == [todo |-> << >>, batch |-> {}, stage |-> "none"]
Sent(s) == [todo |-> s, batch |-> {}, stage |-> "sent"]

Members(s) == {s[i] : i \in DOMAIN s}
InFlight(t) == flight[t].batch # << >>

TrackerInit ==
  /\ page = [t \in Tabs |-> FALSE]
  /\ queue = [t \in Tabs |-> << >>]
  /\ flight = [t \in Tabs |-> NoFlush]
  /\ backup = << >>
  /\ requests = [s \in Senders |-> NoRequest]
  /\ created = 0
  /\ exposed = {}
-----------------------------------------------------------------------------
(* Seeded defect: a flush takes the whole queue.                           *)
CutNowhere(q) == Len(q)

(* queue.splice(0, REQUEST_BATCH_LIMIT), and what it leaves.               *)
Cut(q) == IF Len(q) < RequestBatchLimit THEN Len(q) ELSE RequestBatchLimit
First(q) == SubSeq(q, 1, Cut(q))
Rest(q) == SubSeq(q, Cut(q) + 1, Len(q))

(* The next state of tab t, for its queue q, the backup "stored" and the   *)
(* other requests "others": no flush is at work, ...                       *)
Idle(t, q, stored, others) ==
  /\ queue' = [queue EXCEPT ![t] = q]
  /\ flight' = [flight EXCEPT ![t] = NoFlush]
  /\ backup' = stored
  /\ requests' = others

(* ... or a fetch of the first events of q has begun.                      *)
Fetch(t, q, hidden, stored, others) ==
  /\ queue' = [queue EXCEPT ![t] = Rest(q)]
  /\ flight' = [flight EXCEPT ![t] = [batch |-> First(q), hidden |-> hidden]]
  /\ backup' = stored
  /\ requests' = [others EXCEPT ![t] = Sent(First(q))]

(* A flush of reason "hidden" tries sendBeacon first.  A beacon the        *)
(* browser takes counts as delivered: the backup is emptied, the flush is  *)
(* over, and a queue that is still long enough is drained with a fetch.  A *)
(* beacon it refuses leaves the snapshot in the backup and is fetched.     *)
Beacon(t, q, others) ==
  \/ \E o \in Strays :
       /\ others[o] = NoRequest
       /\ LET beaconed == [others EXCEPT ![o] = Sent(First(q))]
          IN IF Len(Rest(q)) >= FlushThreshold
             THEN Fetch(t, Rest(q), FALSE, << >>, beaconed)
             ELSE Idle(t, Rest(q), << >>, beaconed)
       /\ exposed' = exposed \union Members(First(q))
  \/ /\ Fetch(t, q, TRUE, q, others)
     /\ UNCHANGED exposed

Flush(t, q, hidden, stored, others) ==
  IF hidden
  THEN Beacon(t, q, others)
  ELSE Fetch(t, q, FALSE, stored, others) /\ UNCHANGED exposed

(* Seeded defects: a failed batch goes to the end of the queue; it is      *)
(* dropped.                                                                *)
RequeuedBehind(t) == queue[t] \o flight[t].batch
RequeuedNot(t) == queue[t]

(* queue.unshift(...batch).                                                *)
Requeued(t) == flight[t].batch \o queue[t]

(* The rest of flush once deliver has returned: a failed batch goes back   *)
(* to the front, the backup is emptied or becomes the queue, and a queue   *)
(* that is long enough is flushed again at once, for the same reason if    *)
(* the flush failed.                                                       *)
Continue(t, ok, others) ==
  LET q == IF ok THEN queue[t] ELSE Requeued(t)
      stored == IF ok THEN << >> ELSE q
  IN IF Len(q) < FlushThreshold
     THEN Idle(t, q, stored, others) /\ UNCHANGED exposed
     ELSE Flush(t, q, ~ ok /\ flight[t].hidden, stored, others)
-----------------------------------------------------------------------------
(* enqueue: push, and flush a queue that became long enough.               *)
Push(t, q) ==
  IF Len(q) >= FlushThreshold /\ ~ InFlight(t)
  THEN Fetch(t, q, FALSE, backup, requests)
  ELSE /\ queue' = [queue EXCEPT ![t] = q]
       /\ UNCHANGED <<flight, backup, requests>>

Record(t) ==
  /\ page[t] /\ created < MaxEvents
  /\ created' = New
  /\ Push(t, Append(queue[t], New))
  /\ UNCHANGED <<page, exposed>>

(* createTracker and start: the queue begins as the backup, which stays as *)
(* it is; it is flushed ("recovery"), and the page view is recorded.       *)
Open(t) ==
  /\ ~ page[t] /\ created < MaxEvents
  /\ page' = [page EXCEPT ![t] = TRUE]
  /\ created' = New
  /\ IF backup = << >>
     THEN Push(t, <<New>>)
     ELSE /\ queue' = [queue EXCEPT ![t] = Append(Rest(backup), New)]
          /\ flight' = [flight EXCEPT ![t].batch = First(backup)]
          /\ requests' = [requests EXCEPT ![t] = Sent(First(backup))]
          /\ UNCHANGED backup
  /\ UNCHANGED exposed

(* Seeded defect: the timer waits for a queue as long as enqueue does.     *)
DueWhenLong(t) == Len(queue[t]) >= FlushThreshold

(* flush returns at once when one is at work or nothing is queued.         *)
Due(t) == queue[t] # << >>

(* The interval timer.                                                     *)
Interval(t) ==
  /\ page[t] /\ ~ InFlight(t) /\ Due(t)
  /\ Flush(t, queue[t], FALSE, backup, requests)
  /\ UNCHANGED <<page, created>>

(* visibilitychange, pagehide and beforeunload.                            *)
Hide(t) ==
  /\ page[t] /\ ~ InFlight(t) /\ queue[t] # << >>
  /\ Flush(t, queue[t], TRUE, backup, requests)
  /\ UNCHANGED <<page, created>>

(* The page is gone, with its memory.  Its request, sent with keepalive,   *)
(* goes on with nobody to wait for it.                                     *)
Close(t) ==
  /\ page[t]
  /\ IF requests[t] = NoRequest
     THEN UNCHANGED requests
     ELSE \E o \in Strays :
            /\ requests[o] = NoRequest
            /\ requests' = [requests EXCEPT ![o] = requests[t], ![t] = NoRequest]
  /\ page' = [page EXCEPT ![t] = FALSE]
  /\ queue' = [queue EXCEPT ![t] = << >>]
  /\ flight' = [flight EXCEPT ![t] = NoFlush]
  /\ exposed' = exposed \union (Members(flight[t].batch \o queue[t]) \ Members(backup))
  /\ UNCHANGED <<backup, created>>

TabStep(t) == Open(t) \/ Record(t) \/ Interval(t) \/ Hide(t) \/ Close(t)
=============================================================================
