---------------------------- MODULE BatchWriter ----------------------------
(***************************************************************************)
(* The ingest batch writer, apps/api/internal/ingest/batcher.go, with the  *)
(* write-ahead log it owns and the process life cycle that                 *)
(* cmd/anlticsheat-api/main.go gives it.                                   *)
(*                                                                         *)
(* Actors: one request goroutine per batch, in Enqueue; the run goroutine, *)
(* which merges queued batches into "pending" and flushes them; and main,  *)
(* which starts, cancels and closes.  A step is one critical section of    *)
(* w.mu or b.mu, or one call to the store: what lies between two of them   *)
(* can be interleaved with any other actor.                                *)
(*                                                                         *)
(* A batch counts as one item.  Each batch is offered by one request, once *)
(* in its life.                                                            *)
(***************************************************************************)
EXTENDS WAL, Integers

CONSTANTS
  WalModes,            \* whether main.go may configure a WAL directory
  Backlogs,            \* what an earlier process may have left in the WAL
  QueueCapacity,       \* BatchWriterConfig.QueueCapacity
  MaxItems,            \* BatchWriterConfig.MaxItems
  WriteResidues,       \* what a failed WriteBatch may leave in the store
  ConcurrentRequests,  \* environment: two requests may be inside Enqueue
  FlushOverlap,        \* environment: a request may overlap ack and reload
  Overflow,            \* environment: a request may find the WAL fuller
                       \*   than the queue can hold
  MaxStops             \* bound on crashes and exits of the process

ASSUME CapacityAssumption == /\ QueueCapacity \in Nat \ {0}
                             /\ MaxItems \in Nat \ {0}
ASSUME ModesAssumption == /\ WalModes \subseteq BOOLEAN
                          /\ ConcurrentRequests \in BOOLEAN
                          /\ FlushOverlap \in BOOLEAN
                          /\ Overflow \in BOOLEAN
ASSUME WriteResiduesAssumption == WriteResidues \subseteq {"nothing", "all"}
ASSUME BacklogsAssumption == \A backlog \in Backlogs : backlog \in Seq(Batches)
ASSUME StopsAssumption == MaxStops \in Nat

VARIABLES
  useWAL,     \* newWAL returned a log; fixed for the life of a deployment
  queue,      \* b.queue
  walIDs,     \* b.walIDs
  notify,     \* b.notify holds its one token
  loop,       \* where the run goroutine is; "down" without a process
  draining,   \* run is in its ctx.Done branch
  cancelled,  \* the context of run is cancelled
  pending,    \* run's local pending, as the batches merged into it
  ackOffset,  \* run's local pendingAckOffset
  hasWAL,     \* run's local pendingHasWAL
  snapshot,   \* what wal.Recover returned to reloadFromWAL
  req,        \* progress of the request that carries each batch
  held,       \* the WALEntry a request holds between Append and b.mu
  writes,     \* times the store took each batch: 0, 1, or 2 for more
  early,      \* batches accepted before run's context was cancelled
  stops       \* crashes and exits so far, up to MaxStops

queueVars == <<queue, walIDs, notify>>
mergeVars == <<pending, ackOffset, hasWAL>>
reqVars   == <<req, held>>
history   == <<writes, early, stops>>
loopVars  == <<loop, draining, mergeVars, snapshot>>
procVars == <<walVars, queueVars, loop, draining, cancelled, mergeVars, snapshot,
              reqVars, history>>
vars == <<useWAL, procVars>>

Item == [walID : Nat, walOffset : Nat \union {-1}, batch : Batches]
LoopStates == {"down", "dequeue", "select", "write", "ack", "recover", "reload",
               "stopped"}
ReqStates == {"new", "appended", "accepted", "refused", "lost"}
Held == [id : Nat, offset : Nat \union {-1}]
NoEntry == [id |-> 0, offset |-> -1]
-----------------------------------------------------------------------------
BatchesOf(s) == {s[i].batch : i \in DOMAIN s}

AsItem(e) == [walID |-> e.id, walOffset |-> e.offset, batch |-> e.batch]

(* Seeded defects: a reload that forgets the capacity, or loads nothing.   *)
LoadUnbounded(es) == [i \in DOMAIN es |-> AsItem(es[i])]
LoadNothing(es) == << >>

(* reloadFromWAL's loop: the first queueCapacity entries become the queue. *)
Load(es) == [i \in 1 .. (IF Len(es) < QueueCapacity THEN Len(es) ELSE QueueCapacity) |->
               AsItem(es[i])]

IDsOf(q) == {q[i].walID : i \in DOMAIN q}

(* The store takes every batch merged into pending; one that was merged    *)
(* twice, or is there already, is there more than once from then on.       *)
PendingSet == {pending[i] : i \in DOMAIN pending}
MergedTwice(b) == \E i, j \in DOMAIN pending :
                    i # j /\ pending[i] = b /\ pending[j] = b
StorePending ==
  [b \in Batches |-> IF b \notin PendingSet THEN writes[b]
                     ELSE IF writes[b] = 0 /\ ~ MergedTwice(b) THEN 1 ELSE 2]

(* signal: a non-blocking send on the one-token channel b.notify.          *)
SignalDropped == UNCHANGED notify
Signal == notify' = TRUE

(* dequeue shifts the queue by one and forgets the id it takes out.        *)
QueueShifted == Tail(queue)

IDsKept(item) == walIDs
IDsWithout(item) == walIDs \ {item.walID}

(* run acknowledges up to the largest offset it merged.                    *)
FirstOffsetOnly(item) == item.walOffset >= 0 /\ ~ hasWAL
NewerOffset(item) == item.walOffset >= 0 /\ (~ hasWAL \/ item.walOffset > ackOffset)

Up == loop # "down"
InEnqueue == {b \in Batches : req[b] = "appended"}

(* Environment assumptions; vacuous when the constants are TRUE.           *)
RequestMayStep(b) ==
  /\ ConcurrentRequests \/ InEnqueue \subseteq {b}
  /\ Overflow \/ req[b] = "appended" \/ Len(entries) < QueueCapacity
  /\ FlushOverlap \/ loop \notin {"recover", "reload"}
LoopMayAcknowledge == FlushOverlap \/ InEnqueue = {}
-----------------------------------------------------------------------------
(* The first process has not started; it finds the backlog in the file.    *)
AsFile(backlog) == [i \in 1 .. Len(backlog) |->
                      [id |-> i, batch |-> backlog[i], intact |-> TRUE]]

Init ==
  /\ useWAL \in WalModes
  /\ file \in {AsFile(backlog) : backlog \in IF useWAL THEN Backlogs ELSE {<< >>}}
  /\ fileOpen = FALSE
  /\ entries = << >>
  /\ nextID = 0
  /\ queue = << >>
  /\ walIDs = {}
  /\ notify = FALSE
  /\ loop = "down"
  /\ draining = FALSE
  /\ cancelled = FALSE
  /\ pending = << >>
  /\ ackOffset = 0
  /\ hasWAL = FALSE
  /\ snapshot = << >>
  /\ req = [b \in Batches |-> IF b \in BatchesOf(file) THEN "accepted" ELSE "new"]
  /\ held = [b \in Batches |-> NoEntry]
  /\ writes = [b \in Batches |-> 0]
  /\ early = {}
  /\ stops = 0

(* main: OpenWAL, NewBatchWriter and Start, which reloads from the WAL and *)
(* signals when that queued something, then starts run.                    *)
StartProcess ==
  /\ loop = "down"
  /\ IF useWAL
     THEN /\ OpenWAL
          /\ queue' = Load(Scan(file))
          /\ walIDs' = IDsOf(Load(Scan(file)))
          /\ notify' = (Scan(file) # << >>)
     ELSE UNCHANGED <<walVars, queueVars>>
  /\ loop' = "dequeue"
  /\ UNCHANGED <<draining, cancelled, mergeVars, snapshot, reqVars, history>>
-----------------------------------------------------------------------------
(* Enqueue, batcher.go:97-151.  The request's context is already done.     *)
EnqueueRefused(b) ==
  /\ Up /\ req[b] = "new"
  /\ req' = [req EXCEPT ![b] = "refused"]
  /\ UNCHANGED <<walVars, queueVars, loopVars, cancelled, held, history>>

(* With a WAL, first critical section: wal.Append.  An error goes back to  *)
(* the client and nothing is queued.                                       *)
EnqueueAppend(b) ==
  /\ Up /\ useWAL /\ req[b] = "new" /\ RequestMayStep(b)
  /\ \/ /\ AppendOK(b)
        /\ req' = [req EXCEPT ![b] = "appended"]
        /\ held' = [held EXCEPT ![b] = [id |-> nextID + 1, offset |-> Len(file)]]
     \/ /\ AppendFails(b)
        /\ req' = [req EXCEPT ![b] = "refused"]
        /\ UNCHANGED held
  /\ UNCHANGED <<queueVars, loopVars, cancelled, history>>

(* With a WAL, second critical section, under b.mu: queue the batch if     *)
(* there is room and its id is not queued yet; accept it in any case.      *)
EnqueuePush(b) ==
  /\ Up /\ useWAL /\ req[b] = "appended" /\ RequestMayStep(b)
  /\ IF Len(queue) < QueueCapacity /\ held[b].id \notin walIDs
     THEN /\ queue' = Append(queue, [walID |-> held[b].id,
                                    walOffset |-> held[b].offset, batch |-> b])
          /\ walIDs' = walIDs \union {held[b].id}
     ELSE UNCHANGED <<queue, walIDs>>
  /\ Signal
  /\ req' = [req EXCEPT ![b] = "accepted"]
  /\ held' = [held EXCEPT ![b] = NoEntry]
  /\ UNCHANGED <<walVars, loopVars, cancelled, history>>

(* Without a WAL: one critical section; a full queue is ErrQueueFull.      *)
EnqueueMemory(b) ==
  /\ Up /\ ~ useWAL /\ req[b] = "new"
  /\ IF Len(queue) >= QueueCapacity
     THEN /\ req' = [req EXCEPT ![b] = "refused"]
          /\ UNCHANGED <<queue, notify>>
     ELSE /\ queue' = Append(queue, [walID |-> 0, walOffset |-> -1, batch |-> b])
          /\ Signal
          /\ req' = [req EXCEPT ![b] = "accepted"]
  /\ UNCHANGED <<walVars, walIDs, loopVars, cancelled, held, history>>
-----------------------------------------------------------------------------
(* run, batcher.go:206-241: take the head of the queue and merge it; flush *)
(* at maxItems, except in the shutdown drain.  An empty queue leads to the *)
(* select, or ends the drain.                                              *)
Dequeue ==
  /\ loop = "dequeue" /\ queue # << >>
  /\ LET item == Head(queue) IN
       /\ queue' = QueueShifted
       /\ walIDs' = IDsWithout(item)
       /\ pending' = Append(pending, item.batch)
       /\ IF NewerOffset(item)
          THEN ackOffset' = item.walOffset /\ hasWAL' = TRUE
          ELSE UNCHANGED <<ackOffset, hasWAL>>
  /\ loop' = IF ~ draining /\ Len(pending) + 1 >= MaxItems
             THEN "write" ELSE "dequeue"
  /\ UNCHANGED <<walVars, notify, draining, cancelled, snapshot, reqVars,
                 history>>

QueueEmpty ==
  /\ loop = "dequeue" /\ queue = << >>
  /\ loop' = IF ~ draining THEN "select"
             ELSE IF pending = << >> THEN "stopped" ELSE "write"
  /\ UNCHANGED <<walVars, queueVars, draining, cancelled, mergeVars,
                 snapshot, reqVars, history>>

SelectNotify ==
  /\ loop = "select" /\ notify
  /\ notify' = FALSE
  /\ loop' = "dequeue"
  /\ UNCHANGED <<walVars, queue, walIDs, draining, cancelled, mergeVars,
                 snapshot, reqVars, history>>

AfterTickWithoutFlush == "dequeue"
AfterTick == IF pending = << >> THEN "dequeue" ELSE "write"

SelectTick ==
  /\ loop = "select"
  /\ loop' = AfterTick
  /\ UNCHANGED <<walVars, queueVars, draining, cancelled, mergeVars,
                 snapshot, reqVars, history>>

(* Seeded defect: a shutdown that flushes without draining the queue.      *)
SelectDoneWithoutDrain ==
  /\ loop = "select" /\ cancelled
  /\ draining' = TRUE
  /\ loop' = IF pending = << >> THEN "stopped" ELSE "write"
  /\ UNCHANGED <<walVars, queueVars, cancelled, mergeVars, snapshot, reqVars,
                 history>>

SelectDone ==
  /\ loop = "select" /\ cancelled
  /\ draining' = TRUE
  /\ loop' = "dequeue"
  /\ UNCHANGED <<walVars, queueVars, cancelled, mergeVars, snapshot, reqVars,
                 history>>
-----------------------------------------------------------------------------
(* flush, batcher.go:168-204, ends with pending reset; the shutdown flush  *)
(* is the last thing run does.                                             *)
EndFlushSentinel ==
  /\ pending' = << >> /\ ackOffset' = -1 /\ hasWAL' = FALSE
  /\ loop' = IF draining THEN "stopped" ELSE "dequeue"
EndFlushKeepsFlag ==
  /\ pending' = << >> /\ ackOffset' = 0 /\ UNCHANGED hasWAL
  /\ loop' = IF draining THEN "stopped" ELSE "dequeue"

EndFlush ==
  /\ pending' = << >>
  /\ ackOffset' = 0
  /\ hasWAL' = FALSE
  /\ loop' = IF draining THEN "stopped" ELSE "dequeue"

FlushWriteOK ==
  /\ loop = "write"
  /\ writes' = StorePending
  /\ IF useWAL /\ hasWAL
     THEN loop' = "ack" /\ UNCHANGED <<mergeVars>>
     ELSE EndFlush
  /\ UNCHANGED <<walVars, queueVars, draining, cancelled, snapshot, reqVars,
                 early, stops>>

(* flush returns right after a failed write, without acknowledging.        *)
AfterFailureAcknowledge == IF hasWAL THEN "ack" ELSE "dequeue"
AfterFailure == IF draining THEN "stopped" ELSE "dequeue"

(* WriteBatch returns an error, possibly after the rows are in the store   *)
(* (a timeout): pending is kept for the next flush, if there is one.       *)
FlushWriteFails ==
  /\ loop = "write"
  /\ \/ "nothing" \in WriteResidues /\ UNCHANGED writes
     \/ "all" \in WriteResidues /\ writes' = StorePending
  /\ loop' = AfterFailure
  /\ UNCHANGED <<walVars, queueVars, draining, cancelled, mergeVars,
                 snapshot, reqVars, early, stops>>

(* A failed acknowledgement is logged, and the flush ends all the same.    *)
FlushAcknowledge ==
  /\ loop = "ack" /\ LoopMayAcknowledge
  /\ \/ /\ AcknowledgeOK(ackOffset)
        /\ loop' = "recover"
        /\ UNCHANGED <<mergeVars>>
     \/ /\ AcknowledgeFails(ackOffset)
        /\ EndFlush
  /\ UNCHANGED <<queueVars, draining, cancelled, snapshot, reqVars, history>>

(* reloadFromWAL, batcher.go:283-317: wal.Recover copies the entries under *)
(* w.mu ...                                                                *)
ReloadRecover ==
  /\ loop = "recover"
  /\ snapshot' = entries
  /\ loop' = "reload"
  /\ UNCHANGED <<walVars, queueVars, draining, cancelled, mergeVars, reqVars,
                 history>>

(* ... and the queue is replaced by the copy later, under b.mu.            *)
ReloadQueue ==
  /\ loop = "reload"
  /\ queue' = Load(snapshot)
  /\ walIDs' = IDsOf(Load(snapshot))
  /\ snapshot' = << >>
  /\ EndFlush
  /\ UNCHANGED <<walVars, notify, draining, cancelled, reqVars, history>>
-----------------------------------------------------------------------------
(* main.go:137-169.  A signal, or ListenAndServe returning, cancels run's  *)
(* context while requests may still be in their handlers.                  *)
CancelBatcher ==
  /\ Up /\ ~ cancelled /\ stops < MaxStops
  /\ cancelled' = TRUE
  /\ early' = {b \in Batches : req[b] = "accepted"}
  /\ UNCHANGED <<walVars, queueVars, loopVars, reqVars, writes, stops>>

(* closeResources closes the WAL and cancels: after the drain, after the   *)
(* drain timed out, or when the server failed, with run still going.       *)
CloseResources ==
  /\ Up /\ fileOpen /\ stops < MaxStops
  /\ CloseWAL
  /\ cancelled' = TRUE
  /\ early' = IF cancelled THEN early ELSE {b \in Batches : req[b] = "accepted"}
  /\ UNCHANGED <<queueVars, loopVars, reqVars, writes, stops>>

(* The process is gone, by a crash or by main returning.  Only the file    *)
(* and the store remain; clients still waiting get no answer.              *)
ProcessGone ==
  /\ Up /\ stops < MaxStops
  /\ stops' = stops + 1
  /\ fileOpen' = FALSE
  /\ entries' = << >>
  /\ nextID' = 0
  /\ queue' = << >>
  /\ walIDs' = {}
  /\ notify' = FALSE
  /\ loop' = "down"
  /\ draining' = FALSE
  /\ cancelled' = FALSE
  /\ pending' = << >>
  /\ ackOffset' = 0
  /\ hasWAL' = FALSE
  /\ snapshot' = << >>
  /\ req' = [b \in Batches |-> IF req[b] = "appended" THEN "lost" ELSE req[b]]
  /\ held' = [b \in Batches |-> NoEntry]
  /\ UNCHANGED <<file, writes, early>>
-----------------------------------------------------------------------------
RequestStep(b) ==
  EnqueueRefused(b) \/ EnqueueAppend(b) \/ EnqueuePush(b) \/ EnqueueMemory(b)

FlushStep == \/ FlushWriteOK \/ FlushWriteFails \/ FlushAcknowledge
             \/ ReloadRecover \/ ReloadQueue

RunStep == \/ Dequeue \/ QueueEmpty
           \/ SelectNotify \/ SelectTick \/ SelectDone
           \/ FlushStep

MainStep == StartProcess \/ CancelBatcher \/ CloseResources \/ ProcessGone

Next == /\ (\E b \in Batches : RequestStep(b)) \/ RunStep \/ MainStep
        /\ UNCHANGED useWAL

Spec == Init /\ [][Next]_vars

(* Fairness: the Go scheduler runs every goroutine that can run; a select  *)
(* with several ready cases picks each of them sooner or later; the store  *)
(* and the disk do not fail forever; a supervisor starts the process again *)
(* (restart policy of the deployment), and a process that was told to stop *)
(* ends.                                                                   *)
Fairness ==
  /\ WF_procVars(StartProcess)
  /\ WF_procVars(Dequeue) /\ WF_procVars(QueueEmpty)
  /\ SF_procVars(SelectNotify) /\ SF_procVars(SelectTick)
  /\ SF_procVars(SelectDone)
  /\ SF_procVars(FlushWriteOK)
  /\ SF_procVars(FlushAcknowledge /\ loop' = "recover")
  /\ WF_procVars(FlushAcknowledge)
  /\ WF_procVars(ReloadRecover) /\ WF_procVars(ReloadQueue)
  /\ \A b \in Batches : WF_procVars(EnqueuePush(b))
  /\ WF_procVars(ProcessGone /\ cancelled)

FairSpec == Spec /\ Fairness
-----------------------------------------------------------------------------
(* Types of all variables.                                                 *)
TypeOK ==
  /\ useWAL \in BOOLEAN
  /\ WalTypeOK
  /\ queue \in Seq(Item)
  /\ walIDs \subseteq Nat
  /\ notify \in BOOLEAN
  /\ loop \in LoopStates
  /\ draining \in BOOLEAN
  /\ cancelled \in BOOLEAN
  /\ pending \in Seq(Batches)
  /\ ackOffset \in Nat
  /\ hasWAL \in BOOLEAN
  /\ snapshot \in Seq(Entry)
  /\ req \in [Batches -> ReqStates]
  /\ held \in [Batches -> Held]
  /\ writes \in [Batches -> 0 .. 2]
  /\ early \subseteq Batches
  /\ stops \in 0 .. MaxStops

(* The in-memory queue never exceeds its capacity, whatever the backlog in *)
(* the WAL, at a start, after a reload and under concurrent requests.      *)
QueueBounded == Len(queue) <= QueueCapacity

(* b.walIDs is exactly the set of ids in b.queue and no id is queued       *)
(* twice: the duplicate test of Enqueue (batcher.go:125) is right only     *)
(* then.                                                                   *)
WalIDsMatchQueue ==
  useWAL => /\ walIDs = IDsOf(queue)
            /\ \A i, j \in DOMAIN queue :
                 i # j => queue[i].walID # queue[j].walID

(* No lost wake-up: when run is about to sleep in its select, a non-empty  *)
(* queue has left its token in b.notify, although pushing, dequeuing and   *)
(* replacing the queue are separate critical sections.                     *)
NoLostWakeup == loop = "select" /\ queue # << >> => notify

(* What run merged can be acknowledged: with a WAL, a non-empty pending    *)
(* always carries an offset to acknowledge; without one it never does.     *)
PendingIsBacked == /\ useWAL /\ pending # << >> => hasWAL
                   /\ hasWAL => useWAL /\ pending # << >>
                   /\ loop = "ack" => hasWAL

(* run will still look at the queue: the drain does so for a last time.    *)
Dequeues == ~ draining \/ loop = "dequeue"

(* A batch is kept while a crash (with a WAL) or, without one, the running *)
(* loop still leads to its being written: nobody reads what is in the      *)
(* queue after the drain, or in pending after run has ended.               *)
Kept(b) ==
  IF useWAL
  THEN \E i \in DOMAIN Scan(file) : Scan(file)[i].batch = b
  ELSE \/ b \in BatchesOf(queue) /\ Dequeues
       \/ b \in PendingSet /\ loop # "stopped"

(* What a stop without a WAL loses although Enqueue returned nil: what the *)
(* one write of the shutdown flush failed to store (batcher.go:237-240),   *)
(* and what a handler still running queued behind the drain's last look at *)
(* the queue (batcher.go:141-150 asks for room only).                      *)
GivenUp(b) ==
  /\ ~ useWAL
  /\ \/ b \in PendingSet /\ loop = "stopped"
     \/ b \in BatchesOf(queue) /\ ~ Dequeues /\ b \notin early

(* No accepted batch is lost: Enqueue returned nil, so the batch is in the *)
(* store or still kept (batcher.go:111 appends before anything else, and   *)
(* run acknowledges only after WriteBatch).  Without a WAL, until the      *)
(* process ends, and of what a stop loses there is no more than GivenUp: a *)
(* failed write of any other flush loses nothing, and nothing that was     *)
(* accepted before the cancellation stays behind in the queue.             *)
NoLoss ==
  useWAL \/ stops = 0 =>
    \A b \in Batches : req[b] = "accepted" => writes[b] > 0 \/ Kept(b) \/ GivenUp(b)

(* A graceful stop without a WAL: once run has ended, and unless its last  *)
(* flush failed, every batch accepted before the cancellation is stored    *)
(* (the drain of batcher.go:223-239).  Said of the first process; a later  *)
(* one starts from the same empty state.                                   *)
DrainIsComplete ==
  ~ useWAL /\ stops = 0 /\ loop = "stopped" /\ pending = << >> =>
    \A b \in early : writes[b] > 0

(* Nothing is stored twice while the process lives and the store fails     *)
(* cleanly, although reloads re-read from the WAL what the queue held      *)
(* (batcher.go:283-317): only a restart may store a batch again.           *)
OnceUntilStop == stops = 0 => \A b \in Batches : writes[b] <= 1

(* With a WAL the batch writer implements at-least-once delivery.          *)
D == INSTANCE Delivery WITH
       owed <- IF useWAL THEN {b \in Batches : /\ req[b] = "accepted"
                                                /\ writes[b] = 0 /\ Kept(b)}
               ELSE {},
       stored <- IF useWAL THEN {b \in Batches : writes[b] > 0} ELSE {}

DeliverySpec == D!Spec

(* Every accepted batch is eventually stored: no backlog stays behind in   *)
(* the WAL, through restarts; without a WAL, unless the process ends.      *)
BacklogFlushed ==
  \A b \in Batches :
    req[b] = "accepted" ~> writes[b] > 0 \/ (~ useWAL /\ stops > 0)
=============================================================================
