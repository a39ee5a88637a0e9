------------------------------ MODULE Collect ------------------------------
(***************************************************************************)
(* The way of an event from a browser to the batch writer: the tabs of     *)
(* module Tracker, the network, and the handler of POST /collect with the  *)
(* duplicate test it makes of every event:                                 *)
(* apps/api/internal/httpapi/server.go (handleCollect) and                 *)
(* apps/api/internal/ingest/health.go (HealthTracker).                     *)
(*                                                                         *)
(* Handlers run concurrently.  HealthTracker.Observe takes a lock once per *)
(* event, so the events of two requests interleave.  Enqueue is one step   *)
(* here; what the batch writer makes of a batch it accepted is the matter  *)
(* of module BatchWriter.                                                  *)
(***************************************************************************)
EXTENDS Tracker

CONSTANTS
  Invalid,      \* events that ValidateEvents rejects
  Unencodable,  \* events that encodeMeta rejects
  MaxRestarts   \* bound on restarts of the API process

ASSUME CollectAssumption ==
  /\ Invalid \subseteq Events /\ Unencodable \subseteq Events
  /\ MaxRestarts \in Nat

VARIABLES
  seen,       \* HealthTracker.seenEventIDs, without those that expired
  accepted,   \* history: times Enqueue took each event, saturating at 2
  forgotten,  \* history: events that were in seen and no longer are
  dropped,    \* history: events remembered by a handler that then failed
  restarts

serverVars == <<seen, accepted, forgotten, dropped, restarts>>
vars == <<trackerVars, serverVars>>

Init ==
  /\ TrackerInit
  /\ seen = {}
  /\ accepted = [e \in Events |-> 0]
  /\ forgotten = {}
  /\ dropped = {}
  /\ restarts = 0
-----------------------------------------------------------------------------
Working(s) == requests[s].stage = "working"
Without(s) == [requests EXCEPT ![s] = NoRequest]

(* The request of s is over, and s, if it is a tab, learns it.             *)
Answer(s, ok) ==
  /\ IF s \in Tabs
     THEN Continue(s, ok, Without(s))
     ELSE requests' = Without(s) /\ UNCHANGED <<queue, flight, backup, exposed>>
  /\ UNCHANGED <<page, created>>

(* No event was looked at: the network lost the request, the process ended *)
(* with it, or the site, the origin, the rate limit or the payload stood   *)
(* against it.  ValidateEvents rejects a whole request for one event.      *)
Reject(s) ==
  /\ requests[s].stage \in {"sent", "gone"}
  /\ Answer(s, FALSE)
  /\ UNCHANGED serverVars

(* The request passes all those tests.                                     *)
Passes(s) ==
  /\ requests[s].stage = "sent"
  /\ Members(requests[s].todo) \intersect Invalid = {}

Begin(s) ==
  /\ Passes(s)
  /\ requests' = [requests EXCEPT ![s].stage = "working"]
  /\ UNCHANGED <<page, queue, flight, backup, created, exposed, serverVars>>

(* Seeded defect: a duplicate test that only looks.                        *)
RememberNot(known, e) == known

(* seenEventIDs[eventID] = now + healthDedupeTTL.                          *)
Remember(known, e) == known \union {e}

(* The handler fails after it had the ids of es remembered.                *)
Dropping(es) == dropped \union es

(* One turn of handleCollect's loop.  Observe says that e is a duplicate,  *)
(* or remembers it; encodeMeta may then fail the request.                  *)
Observe(s) ==
  /\ Working(s) /\ requests[s].todo # << >>
  /\ LET e == Head(requests[s].todo)
         Advance(b) ==
           /\ requests' = [requests EXCEPT ![s].todo = Tail(@), ![s].batch = b]
           /\ UNCHANGED <<page, queue, flight, backup, created, exposed>>
     IN IF e \in seen
        THEN Advance(requests[s].batch) /\ UNCHANGED <<seen, dropped>>
        ELSE /\ seen' = Remember(seen, e)
             /\ IF e \in Unencodable
                THEN /\ Answer(s, FALSE)
                     /\ dropped' = Dropping(requests[s].batch \union {e})
                ELSE /\ Advance(requests[s].batch \union {e})
                     /\ UNCHANGED dropped
  /\ UNCHANGED <<accepted, forgotten, restarts>>

(* Time passes, or Observe makes room (pruneLocked): an id is forgotten.   *)
Forget(e) ==
  /\ e \in seen
  /\ seen' = seen \ {e}
  /\ forgotten' = forgotten \union {e}
  /\ UNCHANGED <<trackerVars, accepted, dropped, restarts>>

(* After the loop: Enqueue, which takes an empty batch without a word, and *)
(* the answer, heard or not.                                               *)
Enqueue(s) ==
  /\ Working(s) /\ requests[s].todo = << >>
  /\ accepted' = [e \in Events |->
       IF e \in requests[s].batch /\ accepted[e] < 2 THEN accepted[e] + 1
       ELSE accepted[e]]
  /\ UNCHANGED <<seen, forgotten, dropped, restarts>>

Accept(s) == Enqueue(s) /\ Answer(s, TRUE)
AcceptUnheard(s) == Enqueue(s) /\ Answer(s, FALSE)

(* Enqueue returns an error: the context of the request is done, because   *)
(* its connection broke or its client left; the log could not be written;  *)
(* or, without a log, the queue is full.  The client hears of it or finds  *)
(* its connection broken.  Any of these may happen to any request.  (What  *)
(* a failed append may leave in the log is the matter of module WAL.)      *)
Refuse(s) ==
  /\ Working(s) /\ requests[s].todo = << >> /\ requests[s].batch # {}
  /\ dropped' = Dropping(requests[s].batch)
  /\ Answer(s, FALSE)
  /\ UNCHANGED <<seen, accepted, forgotten, restarts>>

(* fetch fails in the browser while the request goes on.                   *)
GiveUp(t) ==
  /\ requests[t] # NoRequest
  /\ \E o \in Strays :
       /\ requests[o] = NoRequest
       /\ Continue(t, FALSE, [Without(t) EXCEPT ![o] = requests[t]])
  /\ UNCHANGED <<page, created, serverVars>>

(* Seeded defect: the ids outlive the process, the handlers do not.        *)
SeenWhenRestarted == seen

NoneSeen == {}

(* The process ends, with its ids and its handlers, and is started again.  *)
Restart ==
  /\ restarts < MaxRestarts
  /\ restarts' = restarts + 1
  /\ seen' = NoneSeen
  /\ forgotten' = forgotten \union seen
  /\ requests' = [s \in Senders |->
       IF Working(s) THEN [NoRequest EXCEPT !.stage = "gone"] ELSE requests[s]]
  /\ exposed' = exposed \union UNION {requests[s].batch : s \in Senders}
  /\ UNCHANGED <<page, queue, flight, backup, created, accepted, dropped>>

HandlerStep(s) ==
  \/ Begin(s) \/ Observe(s)
  \/ Accept(s) \/ AcceptUnheard(s) \/ Refuse(s)

(* What the browser does on its own.                                       *)
Browse(t) == TabStep(t) /\ UNCHANGED serverVars

Next ==
  \/ \E t \in Tabs : Browse(t) \/ GiveUp(t)
  \/ \E s \in Senders : HandlerStep(s) \/ Reject(s)
  \/ \E e \in Events : Forget(e)
  \/ Restart

(* The timer of an open page fires for ever, a fetch has an end, and so    *)
(* has a handler once begun.  The network and the server do not fail for   *)
(* ever: a tab that again and again has a request out which the server     *)
(* would take hears again and again that one was accepted.                 *)
Fairness ==
  /\ \A t \in Tabs :
       /\ WF_vars(Interval(t) /\ UNCHANGED serverVars)
       /\ WF_vars(Reject(t))
       /\ []<>Passes(t) => []<><<Accept(t)>>_vars
  /\ \A s \in Senders :
       /\ WF_vars(Observe(s))
       /\ WF_vars(Accept(s) \/ AcceptUnheard(s) \/ Refuse(s))

Spec == Init /\ [][Next]_vars
FairSpec == Spec /\ Fairness
-----------------------------------------------------------------------------
Request == [todo : Seq(Events), batch : SUBSET Events,
            stage : {"none", "sent", "working", "gone"}]

(* Types of all variables; a batch keeps to REQUEST_BATCH_LIMIT, and a tab *)
(* waits for an answer exactly while its flush is at work.                 *)
TypeOK ==
  /\ page \in [Tabs -> BOOLEAN]
  /\ queue \in [Tabs -> Seq(Events)]
  /\ flight \in [Tabs -> [batch : Seq(Events), hidden : BOOLEAN]]
  /\ backup \in Seq(Events)
  /\ requests \in [Senders -> Request]
  /\ created \in 0 .. MaxEvents
  /\ exposed \subseteq Events
  /\ seen \subseteq Events
  /\ accepted \in [Events -> 0 .. 2]
  /\ forgotten \subseteq Events
  /\ dropped \subseteq Events
  /\ restarts \in 0 .. MaxRestarts
  /\ \A t \in Tabs : /\ Len(flight[t].batch) <= RequestBatchLimit
                     /\ InFlight(t) <=> requests[t] # NoRequest

Ascending(s) == \A i, j \in DOMAIN s : i < j => s[i] < s[j]

(* A tab sends its events in the order they were recorded in, whatever     *)
(* fails in between: what is in flight stays before what is queued, and    *)
(* the backup keeps that order for the next page.                          *)
InOrder ==
  /\ \A t \in Tabs : Ascending(flight[t].batch \o queue[t])
  /\ Ascending(backup)

(* The batch writer is given an event once, however often its tab, another *)
(* tab that read the same backup or a beacon sends it, unless the server   *)
(* forgot its id.                                                          *)
AcceptedOnce == \A e \in Events \ forgotten : accepted[e] <= 1

(* An event the duplicate test would turn down is stored, or a handler is  *)
(* about to store it: "duplicate" never means "lost" (server.go:494-530).  *)
(* The code does not keep this; a run shows it.                            *)
SeenIsTaken ==
  \A e \in seen :
    \/ accepted[e] > 0
    \/ \E s \in Senders : Working(s) /\ e \in requests[s].batch

(* How far it does: an id that is remembered of an event nobody stores can *)
(* only come from a handler that remembered it and then failed, because    *)
(* Enqueue refused its batch or encodeMeta one of its events; not from     *)
(* another request of the same event, an answer that was not heard, or a   *)
(* process that ended between the duplicate test and Enqueue.              *)
SeenUnlessDropped ==
  \A e \in seen \ dropped :
    \/ accepted[e] > 0
    \/ \E s \in Senders : Working(s) /\ e \in requests[s].batch

(* An event recorded is somewhere: with the batch writer, in a handler, in *)
(* the memory of an open page, in the backup, or among those the tracker   *)
(* knowingly exposes (a page that closed before its next flush, a beacon,  *)
(* a handler that ended with the process).  It may be nowhere only after a *)
(* handler that remembered its id failed, so that a retry, with which the  *)
(* tracker lets go of it, was answered as a duplicate.                     *)
Accounted ==
  \A e \in 1 .. created :
    \/ accepted[e] > 0
    \/ e \in exposed \union dropped
    \/ \E s \in Senders : Working(s) /\ e \in requests[s].batch
    \/ \E t \in Tabs : page[t] /\ e \in Members(flight[t].batch \o queue[t])
    \/ e \in Members(backup)

(* As long as some page is opened again, each event that was neither       *)
(* exposed nor dropped by a failing handler reaches the batch writer.      *)
EventuallyAccepted ==
  \/ <>[](\A t \in Tabs : ~ page[t])
  \/ \A e \in Events :
       created >= e ~> (accepted[e] > 0 \/ e \in exposed \union dropped)
=============================================================================
