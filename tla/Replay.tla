------------------------------- MODULE Replay -------------------------------
(***************************************************************************)
(* The session recorder of the browser tracker, startReplay in             *)
(* packages/tracker/src/replay.js, over the pages of one tab: the capture  *)
(* window that a route change closes and a snapshot opens, the chunks      *)
(* flush cuts and sends, and the index that sessionStorage carries to the  *)
(* next page.  A step is what JavaScript runs between two awaits.          *)
(*                                                                         *)
(* Events are their types, "input" standing for those without a rule of    *)
(* their own; a chunk is its index.  One session of a visitor the API does *)
(* not take for a bot, in a tab whose sessionStorage works and is younger  *)
(* than its time to live.  Requests that nobody awaits, beacons and those  *)
(* of a page that is gone, are not followed: their chunks are "exposed".   *)
(***************************************************************************)
EXTENDS Naturals, SequencesExt

CONSTANTS
  MaxChunkEvents,      \* MAX_CHUNK_EVENTS
  MaxPendingChunks,    \* MAX_PENDING_REPLAY_CHUNKS
  MaxMutationChanges,  \* MAX_MUTATION_CHANGES
  MaxPages,            \* bound on the pages loaded
  MaxInputs            \* bound on what visitors and pages do

ASSUME ReplayAssumption ==
  {MaxChunkEvents, MaxPendingChunks, MaxMutationChanges, MaxPages} \subseteq Nat \ {0}

VARIABLES
  recorder,  \* the variables of startReplay, those of sendReplay's requests,
             \*   and chunkCount in sessionStorage
  stored,    \* replay_chunks in ClickHouse, those of this page
  inputs     \* inputs so far

replayVars == <<recorder, stored, inputs>>

(* startReplay on the page after r's, resuming from sessionStorage.        *)
Started(r) ==
  [ r EXCEPT
    !.page = @ + 1,
    !.based = FALSE,         \* history: a full snapshot follows the last
                             \*   route event of this page
    !.events = 0,            \* currentChunkEvents, how many
    !.first = r.saved + 1,   \* history: the index of the first chunk
    !.index = r.saved,       \* chunkIndex
    !.requests = << >>,      \* requests awaited, their chunks, in order
    !.exposed = {},          \* history: chunks dropped by the limit, emptied
                             \*   from the list unsent, or given to a beacon
    !.chunks = << >>,        \* pendingChunks
    !.mutations = 0,         \* pendingMutationRecords, how many
    !.open = FALSE,          \* captureWindowOpen
    !.stopped = FALSE,       \* stopped
    !.flushTimer = FALSE,    \* flushTimer, mutationTimer, routeSnapshotTimer
    !.mutationTimer = FALSE,
    !.snapshotTimer = FALSE,
    !.captures = [init |-> 1, route |-> 0, overflow |-> 0] ]
                             \* captureFullSnapshot awaiting the layout

Chunks(s) == {s[i] : i \in DOMAIN s}

NoPage ==
  [ page |-> 0, based |-> FALSE, events |-> 0, first |-> 0, index |-> 0,
    requests |-> << >>, exposed |-> {}, chunks |-> << >>,
    mutations |-> 0, open |-> FALSE, stopped |-> FALSE, flushTimer |-> FALSE,
    mutationTimer |-> FALSE, snapshotTimer |-> FALSE,
    captures |-> [init |-> 0, route |-> 0, overflow |-> 0],
    saved |-> 0,          \* chunkCount in sessionStorage
    orphans |-> FALSE,    \* history: a mutation was recorded with no base
    acknowledged |-> 0 ]  \* history: the last index of a successful request

ReplayInit ==
  /\ recorder = Started(NoPage)
  /\ stored = {}
  /\ inputs = 0
-----------------------------------------------------------------------------
(* buildChunk and enqueuePendingChunk, whose oldest chunk goes.            *)
Cut(r) ==
  IF r.events = 0 THEN r
  ELSE LET all == Append(r.chunks, r.index + 1)
           full == Len(all) > MaxPendingChunks
       IN  [r EXCEPT !.events = 0, !.index = @ + 1,
                     !.chunks = IF full THEN Tail(all) ELSE all,
                     !.exposed = IF full THEN @ \union {Head(all)} ELSE @]

(* tracker.sendReplay with a copy of the pending chunks.  fetch is awaited.*)
Send(r) ==
  IF r.chunks = << >> THEN r
  ELSE [r EXCEPT !.requests = Append(@, Chunks(r.chunks))]

(* Seeded defect: chunkCount is saved as the request had it.               *)
SucceededAsSent(r, sent) ==
  [r EXCEPT !.chunks = << >>, !.saved = Max(sent),
            !.acknowledged = Max(sent \union {@}),
            !.exposed = @ \union (Chunks(r.chunks) \ sent)]

(* What flush does when sendReplay of "sent" returns true: it empties the  *)
(* list, with whatever joined it since, and runs persistSessionState.      *)
Succeeded(r, sent) ==
  [r EXCEPT !.chunks = << >>, !.saved = r.index,
            !.acknowledged = Max(sent \union {@}),
            !.exposed = @ \union (Chunks(r.chunks) \ sent)]

(* Seeded defect: the timer is set only while no chunk is pending.         *)
TimedWhenIdle(r) == [r EXCEPT !.flushTimer = @ \/ r.chunks = << >>]

(* scheduleFlush                                                           *)
Timed(r) == [r EXCEPT !.flushTimer = TRUE]

Untimed(r) == [r EXCEPT !.flushTimer = FALSE]

Added(r, type) ==
  [r EXCEPT !.events = @ + 1,
            !.based = type = "full_snapshot" \/ (@ /\ type # "route"),
            !.orphans = @ \/ (type = "mutation" /\ ~r.based)]

(* flushMutationQueue, whose event may fill the chunk and flush by itself: *)
(* the flush that called it then sends the same chunk again.               *)
MutationsFlushed(r) ==
  LET none == [r EXCEPT !.mutations = 0]
      some == Added(none, "mutation")
  IN  IF r.mutations = 0 \/ r.stopped \/ ~r.open THEN none
      ELSE IF some.events >= MaxChunkEvents THEN Send(Cut(Untimed(some)))
      ELSE Timed(some)

(* flush up to its await, ...                                              *)
Flushed(r) == Send(Cut(MutationsFlushed(Untimed(r))))

(* ... and with reason "hidden": a beacon that the browser takes counts as *)
(* success at once, one it refuses is followed by fetch.                   *)
FlushedHidden(r, beacon) ==
  LET f == Flushed(r)
      sent == Chunks(f.chunks)
  IN  IF beacon /\ sent # {}
      THEN Succeeded([f EXCEPT !.requests = Front(@),
                               !.exposed = @ \union sent], sent)
      ELSE f

(* queueEvent                                                              *)
Queued(r, type) ==
  LET more == Added(r, type)
  IN  IF r.stopped THEN r
      ELSE IF more.events >= MaxChunkEvents THEN Flushed(more)
      ELSE Timed(more)

(* Seeded defect: the window stays open over a route change.               *)
RoutedOpen(r) ==
  [Queued(Flushed(r), "route") EXCEPT
     !.mutations = 0, !.mutationTimer = FALSE, !.snapshotTimer = TRUE]

(* recordRoute: what is recorded of the old route goes first.              *)
Routed(r) ==
  [Queued(Flushed(r), "route") EXCEPT
     !.open = FALSE, !.mutations = 0, !.mutationTimer = FALSE,
     !.snapshotTimer = TRUE]

(* The callback of the mutation observer.                                  *)
Observed(r) ==
  IF r.mutations + 1 >= MaxMutationChanges
  THEN LET f == MutationsFlushed([r EXCEPT !.mutations = @ + 1, !.mutationTimer = FALSE])
       IN  [f EXCEPT !.captures.overflow = @ + 1]
  ELSE [r EXCEPT !.mutations = @ + 1, !.mutationTimer = TRUE]
-----------------------------------------------------------------------------
(* installCaptureHooks comes after the first snapshot; stop removes them.  *)
Hooked == recorder.captures.init = 0 /\ ~recorder.stopped

Input(next) ==
  /\ inputs < MaxInputs
  /\ inputs' = inputs + 1
  /\ recorder' = next

Visitor ==
  /\ Hooked
  /\ UNCHANGED stored
  /\ \/ Input(Queued(recorder, "input"))
     \/ Input(Routed(recorder))
     \/ Input([Queued(recorder, "input") EXCEPT !.snapshotTimer = TRUE])  \* resize
     \/ recorder.open /\ Input(Observed(recorder))

(* visibilitychange, and pagehide, which also stops the recorder.          *)
Hidden ==
  /\ Hooked
  /\ UNCHANGED stored
  /\ \E beacon \in BOOLEAN, leaves \in BOOLEAN :
       LET f == FlushedHidden(recorder, beacon)
       IN  Input(IF ~leaves THEN f
                 ELSE [f EXCEPT !.stopped = TRUE, !.flushTimer = FALSE,
                                !.mutationTimer = FALSE, !.snapshotTimer = FALSE])

(* The next page, whatever the last one was at.  It records a route event  *)
(* if its path is not the one that was left.                               *)
LoadPage ==
  /\ recorder.page < MaxPages
  /\ stored' = {}
  /\ \/ Input(Started(recorder))
     \/ recorder.saved > 0 /\ Input(Queued(Started(recorder), "route"))

Internal(next) ==
  /\ recorder' = next
  /\ UNCHANGED <<stored, inputs>>

FlushTimer == recorder.flushTimer /\ Internal(Flushed(recorder))

MutationTimer ==
  /\ recorder.mutationTimer
  /\ Internal(MutationsFlushed([recorder EXCEPT !.mutationTimer = FALSE]))

(* The timer of scheduleRouteSnapshot.                                     *)
SnapshotTimer ==
  /\ recorder.snapshotTimer
  /\ Internal([recorder EXCEPT !.snapshotTimer = FALSE, !.mutations = 0,
                 !.mutationTimer = FALSE, !.captures.route = @ + 1])

(* captureFullSnapshot after its await, and what follows it.               *)
LayoutStable(reason) ==
  /\ recorder.captures[reason] > 0
  /\ LET q == Queued([recorder EXCEPT !.captures[reason] = @ - 1], "full_snapshot")
     IN  Internal([q EXCEPT !.open = @ \/ reason # "overflow"])

(* The API writes the chunks of a request.                                 *)
Write(i) ==
  /\ ~ recorder.requests[i] \subseteq stored
  /\ stored' = stored \union recorder.requests[i]
  /\ UNCHANGED <<recorder, inputs>>

Answered(i) == [recorder EXCEPT !.requests = RemoveAt(@, i)]

(* The page has the API's answer: the rest of flush.                       *)
Succeeds(i) ==
  /\ recorder.requests[i] \subseteq stored
  /\ Internal(Succeeded(Answered(i), recorder.requests[i]))

(* Seeded defect: the list is emptied whatever the answer.                 *)
FailsEmptied(i) == Internal([Answered(i) EXCEPT !.chunks = << >>])

(* The request or its answer is lost, or the API refuses it: the chunks    *)
(* stay pending, and nothing is scheduled.                                 *)
Fails(i) == Internal(Answered(i))

ReplayNext ==
  \/ Visitor \/ Hidden \/ LoadPage
  \/ FlushTimer \/ MutationTimer \/ SnapshotTimer
  \/ \E reason \in {"init", "route", "overflow"} : LayoutStable(reason)
  \/ \E i \in DOMAIN recorder.requests : 
       Write(i) \/ Succeeds(i) \/ Fails(i)

(* A timer that is set and not cleared fires.                              *)
ReplayFairness == WF_replayVars(FlushTimer)

ReplaySpec == ReplayInit /\ [][ReplayNext]_replayVars /\ ReplayFairness
-----------------------------------------------------------------------------
(* Every recorded DOM mutation follows a snapshot of its own route: between *)
(* the last route event before it and the mutation there is a full         *)
(* snapshot ("only DOM mutations are unsafe until a fresh route snapshot   *)
(* lands", replay.js:1146), however route changes, resizes, timers and     *)
(* snapshots that await the layout overlap.                                *)
MutationsHaveBase == ~recorder.orphans

(* A chunk that is neither stored nor pending nor in a request that is     *)
(* awaited was dropped by the limit on pending chunks, went in a beacon,   *)
(* or was emptied from the list by the answer to a request without it      *)
(* (replay.js:1358): a request that fails loses none.                      *)
ChunksAccounted ==
  ~recorder.stopped =>
    recorder.first .. recorder.index \subseteq
      stored \union Chunks(recorder.chunks) \union recorder.exposed
        \union UNION Chunks(recorder.requests)

(* The next page cuts its chunks under indexes that no chunk has of which  *)
(* a page heard that it was stored, in whichever order the answers came:   *)
(* the index in sessionStorage is never behind them (replay.js:1357-1360). *)
(* Of a chunk that was stored with nobody to hear the answer it says       *)
(* nothing: the next page may give its index to another.                   *)
IndexesContinue == recorder.acknowledged <= recorder.saved

(* No event waits for ever in the chunk under construction: the timer that *)
(* queueEvent sets cuts it, whichever flush cleared a timer before.        *)
EventuallyChunked ==
  recorder.events > 0 ~> recorder.events = 0 \/ recorder.stopped
=============================================================================
