# Verification of AnlticsHeat

AnlticsHeat is a self-hosted web analytics product: a JavaScript tracker in the
visitor's browser (`packages/tracker`), a Go API that ingests and stores what the
tracker sends (`apps/api`), and a Next.js dashboard (`apps/web`). This directory
holds TLA+ models of the parts of it that carry state across steps, failures and
processes, TLC configurations that check them on small instances, and theorems
about them checked by TLAPS.

What the product stands or falls with is the way of an event: recorded in a tab,
sent, de-duplicated, logged, queued, merged and written to the store. That way is
modelled in full. It is cut once, at `BatchWriter.Enqueue`:

    tab -- flush --> network --> handleCollect + HealthTracker --> Enqueue     (Tracker, Collect)
    Enqueue --> WAL --> queue --> run loop --> WriteBatch --> acknowledge      (BatchWriter, WAL)

Around it stand components that share no state with it or with one another, each a
state machine of its own, in a module of its own: the session recorder of the tracker
(`Replay`), what a request passes or asks in the API (`Limiter`, `Identity`,
`SiteRegistry`, `RealtimeCounter`, `ResponseCache`), the jobs beside it (`Alerts`,
`Reports`), the runner that prepares the databases (`Migrations`), the deletion of a
visitor's data (`Privacy`), and the one search among the dashboard's queries (`Funnel`). `MCParts` checks them together in one run.

## 1. Inventory

`rybbit/` is vendored third-party code and not part of the program.

| Component | State | Operations | What is hard | What makes it correct |
|---|---|---|---|---|
| Tracker event queue (`tracker/src/tracker.js`) | queue per tab, `inFlight`, backup in localStorage shared by all tabs | record, flush by timer, size, hiding, recovery | a lost answer looks like a lost request; pages close; tabs share the backup | order kept; no event forgotten; each delivered |
| Tracker replay recorder (`replay.js`) | current chunk, capped list of pending chunks, session state | queue event, build chunk, flush, route change | list read before an await and emptied after it; snapshots that await the layout | mutations follow a snapshot; a chunk is stored, kept, or dropped by the cap; indexes continue on the next page |
| Tracker collectors (`heatmap.js`, `perf.js`, `dom-snapshot.js`, `session.js`, `visitor.js`) | ids in cookies and storage | turn browser events into payloads | little | payload contents |
| Collect endpoint (`httpapi/server.go`, `ingest/validator.go`) | none of its own | handle one request | fails after it has had effects | accepted = stored |
| Duplicate test (`ingest/health.go`) | ids seen, with expiry and a cap | observe, prune | remembers before the event is safe; forgets | at most once while remembered; never "duplicate" of nothing |
| Rate limiter (`ratelimit/limiter.go`) | token bucket per site, LRU of sites | check, evict, refill | eviction resets a bucket; clock read before the lock | tokens bounded by limit + burst |
| Identity resolver, LRU (`identity/resolver.go`, `cache/lru.go`) | id maps with expiry | resolve | eviction between two lookups | one visitor keeps one id |
| Response cache (`cache/cache.go`) | entries, LRU order | get, set, delete | expiry read, and value read, at different times | nothing stale is served |
| Realtime counter (`realtime/counter.go`) | visitors per site | touch, count | order of touches against expiry | counts live visitors only |
| Batch writer (`ingest/batcher.go`) | queue, ids queued, wake-up token, merged batch with its offset | enqueue, dequeue, flush, reload, drain | two critical sections per request; offsets renumbered under it | no accepted batch lost; none stored twice needlessly; all stored in the end |
| Write-ahead log (`ingest/wal.go`) | file, descriptor, entries, next id | open, append, acknowledge, recover, close | partial writes; a rewrite that stops half way | a durable first-in first-out log |
| Process life cycle (`cmd/anlticsheat-api/main.go`) | contexts, closers | start, signal, drain, close | closers race the drain and the handlers | graceful stop loses nothing |
| Site registry (`controlplane/site_registry.go`) | map of sites, time of last sync | get, list, refresh | concurrent refreshes | an active site is found; fresh in the end |
| Alert checker (`alerts/checker.go`, `httpapi/dashboard_alerts.go`) | last firing, channel health (Postgres) | tick, dispatch, record | send and record are separate; edits in between | once per period; every attempt in the history |
| Report scheduler (`reportscheduler/scheduler.go`) | last attempt (Postgres) | tick, send, record | same; time zones, month ends | once per date due |
| Migration runner (`migrate/runner.go`) | versions applied | bootstrap, apply, record | a crash between apply and record | recorded is applied; old data kept; done in the end |
| Storage and privacy (`storage/`) | ClickHouse tables or memory | write batch, queries, delete visitor | six queries with writes in between; errors taken for missing tables | success leaves no row from before |
| Funnels (`storage/dashboard_funnel.go`, `dashboard_funnel_entities.go`) | none | search the events of a visitor | walks that share events, each with its window | the best attempt is found |
| Imports (`httpapi/dashboard_imports.go`) | job rows | create, run, complete, fail | restart, deadline | every job ends |
| Dashboard API, Neo, AI insights, metrics, geo, config | none or counters | queries, formatting, I/O | nothing for a model checker | - |
| Web control plane (`apps/web/lib/control-plane`) | Postgres rows | single statements | DOM refresh request against its fulfilment | newest request is the one fulfilled |
| Web dashboard (`apps/web/app`, `components`, `stores`) | UI state | display | - | - |

How they interact: a tab posts batches to `/collect`; its handler consults the
site registry, the limiter and the identity resolver, passes each event through the
duplicate test and hands one batch to the batch writer, which owns the WAL and
calls the store. The handlers, the run loop, the alert and report loops and the
registry refresh are goroutines of one process, which share memory under mutexes;
tabs share localStorage; the API, its loops and the web control plane share Postgres.

`PROJECT.json` lists under "hazards" the lines where this goes wrong most easily.

## 2. Modules

| Module | What it is |
|---|---|
| `WAL` | the log's state and operations, each one step because each holds `w.mu` throughout |
| `WALClient` | `WAL` under the most general caller; properties of the log |
| `DurableLog` | the abstract log that `WALClient` implements |
| `BatchWriter` | EXTENDS `WAL`: Enqueue, the run loop, flush, reload, main |
| `Delivery` | the abstract at-least-once delivery that `BatchWriter` implements |
| `Tracker` | the tabs of one site, as operators on requests under way |
| `Collect` | EXTENDS `Tracker`: network, handler, duplicate test, restarts |
| `Clock`, `Recency` | the wall clock; lists in the order of use, with what `container/list` does to them |
| `Limiter`, `RealtimeCounter`, `ResponseCache`, `Identity` | the in-memory components with a size and an age limit |
| `SiteRegistry` | the API's copy of the sites |
| `Alerts`, `Reports` | the two jobs |
| `Migrations` | both migration runners |
| `Replay` | the session recorder over the pages of one tab |
| `Privacy` | the deletion of a visitor against the writers of events and replays |
| `Funnel` | the search for a visitor's best attempt at a funnel, against its definition |
| `MCWALClient`, `MCBatchWriter`, `MCCollect` | values and symmetry for TLC |
| `MCParts` | `Limiter` to `Funnel`, one moving at a time |
| `Lists_proofs`, `WAL_proofs` | lemmas: least elements, parts of lists, functions defined by recursion; scans, rewrites, ids |
| `WALClient_proofs`, `BatchWriter_proofs`, `Collect_proofs` | theorems about the way of an event |
| `Caches_proofs` | theorems about `Limiter`, `RealtimeCounter`, `ResponseCache`, `Identity`, `SiteRegistry` |
| `Jobs_proofs` | theorems about `Alerts`, `Reports`, `Migrations` |
| `Visitors_proofs` | theorems about `Replay`, `Privacy`, `Funnel` |

### WAL and WALClient

`file` is the sequence of records on disk, `entries` and `nextID` are the fields of
the same names. `Append` may fail and leave nothing, a torn record, or a whole one
(`AppendResidues`). The rewrite of `Acknowledge` may stop before it touched anything
("kept"), with the descriptor closed, after the rename with the descriptor unusable
("swapped"), or after reopening but before the rescan ("stale"): `AckFaults`.
Acknowledging an offset drops every entry at or below it, as the code does, whoever
wrote them.

Abstractions: records have equal length, so an offset is the number of records before
it; a torn record hides everything behind it, because the scan stops there; rename is
atomic and durable. A batch is one model value and is appended once.

`DurableLogSpec` is the refinement: the intact records of the file, "sure" when the
running process lists them, form a first-in first-out log from which a listed record
leaves only as part of a released prefix and never because of a restart.

### BatchWriter

One step is one critical section of `w.mu` or `b.mu`, or one call of the store.
`Enqueue` is `EnqueueAppend` and then `EnqueuePush` with a WAL, `EnqueueMemory` without.
`loop` says where `run` is: at `dequeue`, in its `select`, at `write`, `ack`, `recover`
or `reload` of a flush. Two separate steps `ReloadRecover` and `ReloadQueue` stand for
`reloadFromWAL`, which copies the entries under one lock and replaces the queue under
another. `StartProcess`, `CancelBatcher`, `CloseResources` and `ProcessGone` are
`main.go`, the last one also a crash. `WriteResidues` says what a failed `WriteBatch`
may leave in the store ("all": it timed out after the rows were in).

A batch counts as one item of `maxItems`. Each batch is offered by one request.

What "lost" means: with a WAL, a batch is kept while a scan of the file finds it. Without one, it
is kept while `run` will still read it: in the queue while the loop will look there again
(`Dequeues`), or in `pending` while the loop has not ended. `main` cancels the loop while handlers
may still be in `Enqueue` (`main.go:165`), which goes on accepting behind the drain; these batches, and what
the one write of the shutdown flush fails to store, are lost although their requests were answered 202.
`GivenUp` is exactly this, and `NoLoss` says that nothing else is lost.

Four constants are assumptions about the environment rather than sizes.
`ConcurrentRequests`, `FlushOverlap` and `Overflow`, when FALSE, keep requests from
overlapping each other, an acknowledgement, or a full queue: what the code needs and
does not enforce (section 6). `Backlogs` is what an earlier process left in the log.

`Delivery` promises that what is accepted is owed until stored and is stored in the end;
`DeliverySpec` is the refinement.

### Tracker and Collect

An event is its place in the order of recording. A tab has `queue` and `flight` (the
batch of the flush at work, and whether its reason is "hidden"). A step is what runs
between two awaits of `fetch`. `Continue` is everything `flush` does after `deliver`
returned, including the next flush it may start at once, and `Beacon` what `sendBeacon`
does to a flush that hides the page.

A request belongs to the tab that waits for it or to a stray place: a beacon, or one
whose tab closed or gave up. `Reject` is every answer given before an event is looked
at (site, origin, rate limit, payload, `ValidateEvents`), and loss in the network.
`Observe` is one turn of the handler's loop: the duplicate test of one event under
`h.mu`, and `encodeMeta`, which may fail the request half way. `Forget` is expiry and
pruning, at any time; times are not modelled otherwise. `Enqueue` is one step, after
which the answer is heard (`Accept`) or not (`AcceptUnheard`). It may instead return an error
(`Refuse`), of any request at any time: because the context of the request is done (the
client left or its connection broke), because the WAL could not be written, or, without a WAL, because
the queue is full. `Restart` empties the ids and ends the handlers.

`exposed` is a history variable: events that the code itself puts at risk, because a
page closed with them in memory and not in the backup, because a beacon carried them
(its answer is never seen), or because the process ended with them in a handler.
`dropped` is another: events whose ids a handler had remembered when it failed (`Refuse`, or an
event that does not encode). Their retry is answered as a duplicate and the tracker lets go of them.

Answers of 204 (privacy opt-out, blocked user agents) drop events on purpose and are
left out, as are the sequence numbers and the loss estimate made from them.

### Limiter, RealtimeCounter, ResponseCache, Identity

All but the resolver read the clock before they take their lock. A call is therefore two
steps (`CheckBegin`, `CheckEnd`; `CounterBegin`, `TouchEnd`, `CountEnd`; `SetBegin`,
`SetEnd`), between which the clock moves on and others come first. `ResponseCache.Get`
is four: the clock, the lookup under the read lock, the expiry read under no lock
(`GetCheck`), and the second lock (`GetDelete` or `GetServe`). Its entries are objects,
since `Get` keeps a pointer to one that may have left the map. `Resolve` holds its lock
throughout and is one step, in the four cases of the code.

Tokens are counted in units of which `Interval` make one, so that refilling is whole
numbers. The time of a refill that would be negative refills nothing, as in the code.
The retry-after hint and what the dashboard does with a count are left out.

History variables: `granted`, `evictions` and `opened` look at a period that `OpenPeriod`
may begin at any time; `heard` and `outgrown` say when a visitor's last `Touch` ended and
whether the size limit removed it; `bound` is the visitor of an id's last request and the
ids of its kind used since.

### SiteRegistry

A refresh loads under no lock (`LoadSites`) and stores under one (`StoreSites`).
`GetSiteMisses` and `LookupAgain` are the two lookups of `GetSite`. A site is the version
of its settings, 0 while inactive.

### Alerts and Reports

`Fire` records the firing, `Dispatch` notifies one channel and records the attempt,
`WriteLastFired` ends the cooldown; each write may fail unheard, and a crash may come
anywhere. Instances run against one database. A run of `Reports` loads the reports,
selects those due with one clock reading, and delivers and records them one by one. Time
is a count of parts of a day, and `MonthStart` is any calendar.

### Migrations

The files stand for those that depend on one another: 001 (with 002 to 004), 005 (with 006),
007, 008, 010 and 011; 009 and 012 only add to what is there by then. A step is one statement of
ClickHouse, as far as its statements differ in what they need or make, one file of Neon (each ends
with a COMMIT of its own, before the record), or one record. `StatementFails` says which statements a
database refuses: columns of 011 in the table of 007, those of 010 and the views of 005 and 008 over the table
of 001. The database begins empty, made by hand, or of the old form. `cut` remembers the windows in which a
process ended.

### Replay

A step is what JavaScript runs between two awaits: an event of the visitor, a timer, a
layout that has become stable, an answer. The pages of a tab share `chunkCount` in
sessionStorage and the chunks stored under their session. Requests that nobody awaits
(beacons, and those of a page that is gone) are not followed; their chunks are `exposed`.

### Privacy

`erasures` holds the tables a `DeleteVisitor` has still to count and those to delete from;
each query is a step. A DELETE dooms the rows there are, and `Mutate` carries it out later.
A replay is two inserts, each of which creates the tables when it takes its error for a
missing one. `misread` remembers that a deletion did so although there were tables.

### Funnel

The state is the events of one visitor or session in the order a query reads them; `BestAttempt`
is the query, a function of it. `Attempts` says without an algorithm what counts as an attempt.
`compareDashboardEvents` breaks ties of time by rules that are no order (the sequence numbers
of two events count only if both have one); here tied events come in every order, and the
search is the best for the order it is given.

## 3. Runs

| Run | Question | Bounds |
|---|---|---|
| `wal_clean` | Is the log durable, first-in first-out, with fresh ids, through failed appends, a rewrite failing anywhere but at its rescan, and restarts? | 4 batches, 2 restarts |
| `wal_torn_loss` | violation: a record behind a torn one is not recovered | 4 batches |
| `bw_concurrent` | Which of the batch writer's own invariants hold with everything allowed? | 3 batches, capacity 2, flush at 2, 1 stop |
| `bw_serial` | Does it deliver at least once, safely and in the end, when requests come one at a time and the queue does not fill? | 2 batches, capacity 2, faults of disk and store, 1 stop |
| `bw_backlog` | Does it drain a backlog larger than its queue, without storing twice? (That it loses nothing is `NoLossWhenSerial`.) | 3 batches, capacity 2, 1 stop |
| `bw_overflow` | violation: a batch that met a full queue is dropped unwritten | 3 batches, capacity 1 |
| `bw_order` | violation: two requests that overtake each other lose a batch | 3 batches, capacity 3 |
| `collect_faults` | Is an event accepted at most once, order kept, and a remembered id that of an event somebody stores unless its handler failed, with two tabs, a shared backup and every fault? | 3 events, 2 tabs, 1 stray request, 1 restart |
| `collect_deliver` | Is every event accounted for, but for handlers that fail after remembering its id? Does each of the others arrive? | 2 events, pages of one tab, 1 stray request, 1 restart |
| `collect_dedupe` | violation: a batch refused after the duplicate test is lost by its retry | 2 events |
| `parts` | What does each of the eleven other components promise under all its interleavings, clocks, failures and restarts? | two goroutines, instances or callers each, time to 3 (10 for the reports), see below |
| `alerts_history` | violation: only the first channel of a firing gets its attempt recorded | 1 alert, 2 channels |

`parts` lets one component move and keeps the others as they began: they have no variable
in common, so a behaviour of all of them is one of each, and taking them in turn loses
nothing. Its properties, per component:

| Component | Properties |
|---|---|
| `Limiter` | `RateBounded`: in any period a site is granted at most a bucket and the refill, again per eviction |
| `RealtimeCounter` | `CountIsExact`: nobody longer gone than the window counts, everybody within it does |
| `ResponseCache` | `NeverServesStale` |
| `Identity` | `StableIdentity`: within ttl and fewer than maxEntries other ids, a client stays the same visitor |
| `SiteRegistry` | `FoundWhenActive`, `EventuallyFresh` |
| `Alerts` | `OncePerPeriod` |
| `Reports` | `OncePerDay`, `EachPeriodAttempted` |
| `Migrations` | `RecordedIsApplied`, `DataKept`, `EventuallyMigrated` |
| `Replay` | `MutationsHaveBase`, `ChunksAccounted`, `IndexesContinue`, `EventuallyChunked` |
| `Privacy` | `Erased` |
| `Funnel` | `FunnelIsBest`: nothing gets further, and nothing that gets as far is sooner at any step |

Its bounds: a limiter with one bucket for two sites evicts at every change of site, and four
calls on two goroutines can drain, evict, refill and arrive in the wrong order; three
visitors in a window of two with two late calls put an old clock in front and push one out;
one cache slot for two keys evicts, and one key expires and is set again during a `Get`;
three storage ids in a cache of two, within a ttl of one, separate eviction by size from
expiry; two edits and one failed load let an old load be stored over a new one; two
instances and two firings show a second firing against a record of either; the calendar has
a month of three days and one of two, with an anchor day the shorter one lacks; three stops
of a migration are one in each of its windows, where the longest chain of counterexamples to
weaker properties needed two; two pages, chunks of two events and one pending chunk make the
recorder overflow, resume and have two requests out; three rows and two failed queries let a
replay be half written before, during and after a deletion; four events over three steps, some
of which match two, make a first walk run out of its window and a second one, which shares its
events, complete. Bounds with a name: `MaxTime`,
`MaxChecks`, `MaxTouches`, `MaxSets`, `MaxGets`, `MaxResolves`, `MaxVisitors`, `MaxEdits`,
`MaxLoadFailures`, `MaxFirings`, `MaxFailures`, `MaxReportFailures`, `MaxStops`,
`MaxInputs`, `MaxPages`, `MaxRows`, `MaxQueryErrors`, `MaxTrail`; `ShortTime` is `MaxTime` for all
components but the reports.

Why the bounds of the other runs are enough for the cases that matter: three batches fill a queue of
two and leave one in the log only; two batches can be merged into one flush while a
third is on its way; a backlog of three needs two loads; one stop gives a crash at every
step and a second process that finds its leavings; two restarts of the log show a torn
or half rewritten file being found, written to and found again. Three events with
batches of two and a threshold of two give a full batch, a rest behind it and a flush
that starts another; the second tab reads a backup the first one is still sending, and
one stray request overtakes or trails its own retry. In `collect_deliver`
two events are one in flight with one behind it, or both in one batch. The queue capacity, flush size,
`RequestBatchLimit` (50 in the code) and `FlushThreshold` (20) only matter in relation to
one another and to the number of items. Counters with a bound: `stops` (`MaxStops`),
`restarts` (`MaxRestarts`), `created` (`MaxEvents`), stray requests (`Strays`); `writes`
and `accepted` saturate at 2, which is what "more than once" needs. Deadlock is not checked:
every system here may stop, once its batches, events and restarts are used up.

## 4. Fairness

`BatchWriter`: the Go scheduler runs every goroutine that can run (weak fairness of the
loop's steps and of a request between its critical sections); a `select` with several
ready cases chooses among them at random, so none is passed over for ever (strong
fairness of `SelectNotify`, `SelectTick`, `SelectDone`); the store and the disk do not
fail for ever (strong fairness of a write and of an acknowledgement that succeed). A
supervisor starts the process again after it ended: the repository has no restart policy
of its own, so this is an assumption about the deployment, and `BacklogFlushed` says
nothing without it.

`Collect`: the interval timer of an open page fires, a `fetch` ends, a handler once begun
runs to its end, and the network does not fail for ever: a tab that again and again has a
request out which the server would take, again and again hears that one was accepted.
The code retries without limit at every interval, which is what makes this assumption
enough. Nothing is assumed of opening, hiding or closing pages.

`SiteRegistry`: the ticker of `Start` fires again and again, and a refresh, once begun, ends.
The code gives its queries no deadline, so that the latter is an assumption about Postgres and the
network; a refresh of the ticker that never ended would keep the ticker from beginning another. `Migrations`: a process that ended is started again and its
statements are answered, the same assumption about the deployment as above; at most
`MaxStops` ends come from outside. `Replay`: a timer that is set and not cleared fires. The
other components have safety properties only and need none.

## 5. Proofs

Every invariant that a passing run checks is proved, and so is the safety of both
refinements. TLAPS checks, for every value of the constants (within the assumptions named):

| Theorem | Statement | Assumes |
|---|---|---|
| `WALClient_proofs!TypeCorrect`, `EntriesMirrorFileHolds`, `IdsAreFreshHolds`, `ReleasedNeverReturnsHolds` | the invariants of `WALClient` | no "stale" fault |
| `WALClient_proofs!PromisedIsRecoverableHolds` | what `Append` promised is found again | also no torn append |
| `WALClient_proofs!DurableLogHolds` | `DurableLogSpec`: the log implements `DurableLog` | no "stale" fault, no torn append, as in `wal_clean` |
| `BatchWriter_proofs!TypeCorrect`, `QueueBoundedHolds`, `NoLostWakeupHolds`, `PendingIsBackedHolds`, `WalIDsMatchQueueHolds`, `DrainIsCompleteHolds` | the invariants of `bw_concurrent` | nothing beyond the constants' types |
| `BatchWriter_proofs!NoLossInMemory` | `NoLoss` of a process without a WAL: all but `GivenUp` is stored or on its way | nothing beyond the constants' types |
| `BatchWriter_proofs!NoLossWhenSerial` | `NoLoss` with a WAL | `Serial`: one request at a time, none overlapping an acknowledgement, no full queue, no torn append, no "stale" fault |
| `BatchWriter_proofs!DeliversWhenSerial` | the safety of `Delivery` (`D!SafeSpec`) | `Serial` |
| `BatchWriter_proofs!OnceInMemory` | `OnceUntilStop` without a WAL | `CleanWrites`: a failed write leaves nothing in the store, no backlog has a batch twice |
| `BatchWriter_proofs!OnceWhenSerial` | `OnceUntilStop` with a WAL | `Serial`, `CleanWrites` |
| `Collect_proofs!CollectTypeCorrect`, `AcceptedOnceHolds`, `InOrderHolds` | `TypeOK`, `AcceptedOnce`, `InOrder` of `Collect` | nothing beyond the constants' types |
| `Collect_proofs!SeenUnlessDroppedHolds` | `SeenUnlessDropped` of `Collect` | nothing beyond the constants' types |
| `Collect_proofs!AccountedHolds` | `Accounted` of `Collect` | the pages of one tab (`OneTab`), as in `collect_deliver` |
| `Caches_proofs!RateBoundedHolds`, `CountIsExactHolds`, `NeverServesStaleHolds`, `StableIdentityHolds`, `FoundWhenActiveHolds` | the invariants of `Limiter`, `RealtimeCounter`, `ResponseCache`, `Identity`, `SiteRegistry` | nothing beyond the constants' types |
| `Jobs_proofs!OncePerPeriodHolds` | `OncePerPeriod` of `Alerts` | nothing beyond the constants' types |
| `Jobs_proofs!OncePerDayHolds`, `EachPeriodAttemptedHolds` | `OncePerDay`, `EachPeriodAttempted` of `Reports` | the calendar of `ReportsAssumption`, where a report has one frequency |
| `Jobs_proofs!RecordedIsAppliedHolds`, `DataKeptHolds` | `RecordedIsApplied`, `DataKept` of `Migrations` | nothing |
| `Visitors_proofs!MutationsHaveBaseHolds`, `ChunksAccountedHolds`, `IndexesContinueHolds` | the invariants of `Replay` | nothing beyond the constants' types |
| `Visitors_proofs!ErasedHolds` | `Erased` of `Privacy` | nothing |
| `Visitors_proofs!FunnelIsBestHolds` | `FunnelIsBest` of `Funnel` | nothing beyond the constants' types |

### How the arguments go

**The log.** `entries` is the image of the intact prefix of the file, ids increase along it, and
no id exceeds `nextID`; a scan then returns what the process lists, and an acknowledged prefix is
gone from both. Without torn records the whole file is intact (`Lossless`), so that the abstract
log has a place for every slot (`View`). Ids increase along the file, hence an entry's slot is the
only one with its id, and what a rewrite keeps is exactly the listed slots beyond the acknowledged
one, in their order (`ViewRewritten`): a `Release`. An append is a `Promise`, a `Doubt` or nothing, a
restart makes all sure. With torn appends this would be false, as `wal_torn_loss` shows.

**The batch writer.** For `PendingIsBacked`: with a WAL every queued, held and listed item has an
offset, and without one none has (`Backing`). For `WalIDsMatchQueue`: ids increase along the file, the
entries and the snapshot of a reload, and the ids in requests' hands are not queued yet (`IdsInOrder`).

`NoLossWhenSerial` needs most. `NoLoss` is not inductive: it says where an accepted batch is, not
why the next acknowledgement will not take it away. The strengthening `SerialInv` says
that the queue is a window `entries[m + 1 .. n]` of the log (`Window`); that what lies
before the window is in the store, in `pending`, or was never accepted; that
`ackOffset` lies before the window; and that behind the window there is either the one entry a
request is about to push, or a backlog beyond the queue's capacity, which keeps requests away until a
reload has moved the window. Each step of `Next` moves the window in one way, and there
is one lemma per step. `DeliversWhenSerial` follows: an accepted batch the store does not have is still
kept, so a step of the batch writer accepts one batch, stores some, or changes nothing `Delivery` sees.

`OnceWhenSerial` adds that the log has no batch twice (`OneEach`), and that what is queued or beyond the
acknowledged offset (`Ahead`), and after an acknowledgement all of the log, is neither stored nor merged
(`OnceInv`): what a reload reads again was never written. Without a WAL it is enough that the queue and
what is merged have no batch in common (`MemoryOnce`).

**Collect.** For `AcceptedOnce` (`Once`): of an event not forgotten, at most one handler holds a copy, only
while none was accepted, and what is held or accepted is in `seen`. Whatever a tab does then
keeps each request, ends it, or moves it to a stray place (`Outcome`, `Left`), so that copies are
never made. `SeenUnlessDropped` is inductive beside the types: a handler's batch leaves it only by being
accepted, by being `dropped`, or with the process, whose ids go with it; a closed page having no request
(`Shut`) is what the types need. For `InOrder`: the line of a tab, which is its batch in flight
followed by its queue, and the backup each ascend, and no event in them is later than the last one
recorded (`Orderly`). For `Accounted`: what an open page does not have in its line of the backup, and what
a request has of its batch in flight and need not look at any more, is beyond the tabs (`Held`):
with the batch writer, in a handler's batch, exposed or dropped.

**The caches.** For `RateBounded`: what a site was granted in the period, together with what its bucket is
worth at any later time up to now, never exceeds the bound. The worth of a bucket is its
tokens and what the time since its last refill would add, a full bucket if it is not there;
a clock that comes late takes from it and never adds. An eviction gives the site a second
bucket, and the bound another share. For `NeverServesStale`: every object's value was stored at most
the ttl before its expiry, and the one a `Get` is about to serve at most the ttl before that `Get`
began. For `CountIsExact`: nobody in the list was heard of later than those ahead, and who is not in
it was put out by the size or has expired. For `StableIdentity`: an entry that is owed is in its list,
and all that is ahead of it was used since. For `FoundWhenActive`: a load under way since the
reader began has the site, and so has the copy once that load is stored.

**The jobs.** For `OncePerPeriod`: an alert an instance has loaded is at least as old in the database as
its last written firing, and `last_fired_at` never goes back. For `OncePerDay`: a report sent
by a run of a day is being recorded, is recorded with that day or a later one, or is among
the unrecorded; a report still due in a run was not sent on the run's day. For `EachPeriodAttempted`
(`Seen`): a report is attempted only on its days; what a run has looked at and does not find due was
attempted; and months do not overlap, and each has the clamped day (`MonthFacts`). For `Migrations`:
no file behind 001, or behind 007, is come to before that is recorded (`FilesInOrder`), the columns of the
events table follow from what is recorded (`TableKnown`), and old data stays while 007 is
either recorded or about to be (`DataSafe`).

**The visitors.** For `Erased`: of each row a deletion began with,
the table is still to be counted or deleted from, or the row is doomed or gone, or the tables
were taken for missing (`Pursued`); rows are numbered, so that none comes back. For `Replay` (`Sound`, within
the steps too): mutations wait in an open window only over a snapshot of their route, each index of the
page is stored, pending or `exposed`, and the saved index is between the last one acknowledged and
the last one cut; between the steps the window is open only over a snapshot (`Based`).
For `FunnelIsBest`: a walk reaches each of its steps as soon as any attempt that starts no
earlier (`Reaches`), so that of two walks the one that gets further, or starts first, is the best of all.

Induction over data is beyond the provers, since its theorems take an operator as parameter. Where an
argument needs it (ids along a file, the walks of a funnel, the months of a calendar) the least number
for which it fails is shown not to exist (`LeastNat`), and a function defined by recursion is shown to have
its equations by the existence of one (`Recursion`). Both are lemmas of `Lists_proofs`.

Only model-checked: the liveness properties (`BacklogFlushed`, `EventuallyAccepted`,
`EventuallyFresh`, `EventuallyMigrated`, `EventuallyChunked`) and the fairness of
`DeliverySpec`, since liveness under fairness and ENABLED are beyond the
prover; and the counterexamples of section 6.

## 6. What the models showed about the code

Runs that end in a counterexample, each a finding in `PROJECT.json`:

- `wal_torn_loss`: `Append` and `OpenWAL` seek to the end of the file, behind a record an
  earlier failure left torn; every later record is hidden from the next scan.
- `bw_overflow`: with a WAL, a batch that finds the queue full is accepted and stays in the
  log; the acknowledgement of a later batch drops it unwritten.
- `bw_order`: two requests may queue in the order opposite to the log's; acknowledging the
  one with the larger offset drops the other.
- `collect_dedupe`: ids are remembered before `Enqueue` may refuse the batch, be it only because the
  client's connection broke meanwhile; the tracker's retry is answered "duplicate" with 202 and the
  events are gone.
- `alerts_history`: the id of a delivery attempt is made of the firing's clock reading, the same
  for every channel, and is a primary key: only the first channel's attempt is recorded.

Seen while modelling, with no run of their own (set the constant named to see them):

- An empty ClickHouse is never migrated. The views of 005 and 006 (005_create_stats_hourly.sql:32, 006:31)
  select `ts`, `e`, `vid` and `sid` from `default.events`, columns that the table of 001 does not have, so that
  ClickHouse refuses to create them. The runner records 001 to 004 and ends with an error at the view, and every
  later start comes to it again: 007, which makes the table anew, and 011, which adds the columns, come behind 005
  in either order. A database of the old form without records, whose bootstrap ends half way, stays at the views
  of 005 or 008 likewise. `EventuallyMigrated` excepts the databases that stay there for ever (`StuckAtView`)
  and says that no other statement stops the runner for good (without `[]StuckAtView` in it, `parts` shows the
  empty ClickHouse).
- A request that overlaps an acknowledgement and its reload queues its batch a second time, with an offset of
  the file before the rewrite: the reload has queued the batch, and `run` has taken it out, in between. Acknowledging
  that offset drops a batch accepted since, unwritten; it needs one request at a time only
  (`ConcurrentRequests = FALSE` and `FlushOverlap = TRUE` in `bw_order`).
- A request that queues between the copy and the replacement of a reload is wiped from the queue, and
  what it carried may be stored twice (`FlushOverlap = TRUE` in `bw_backlog`, `OnceUntilStop`).
- Without a WAL a handler that is still in `Enqueue` when `main` shuts down has its batch accepted behind
  the drain, and the one write of the shutdown flush is not tried again: both are lost (`GivenUp` in `NoLoss`).
- After a failed acknowledgement the reload is skipped: the rest of a backlog stays out of the
  queue until some later flush reloads, for ever if no request comes
  (`AckFaults = {"kept"}` in `bw_backlog`, `BacklogFlushed`).
- One event that fails validation rejects its whole batch with 400, which the tracker re-queues in
  front for ever: nothing behind it is sent (`Invalid = {1}` in `collect_deliver`).
- With two tabs, a success of one empties the backup that holds what another, closed by now, could
  not deliver (`Tabs = {t1, t2}` in `collect_deliver`, `Accounted`).
- An alert fires once per instance and period, not once per period: instances load before either
  writes `last_fired_at`. Reports are sent once per instance likewise.
- A firing recorded against a channel kept in the old webhook columns names a channel id the
  attempts' foreign key does not know, so that its attempt is refused; and the update of an alert
  replaces its channels, which deletes their attempts.
- A process that ends between the statements of the first ClickHouse migration and its record
  leaves tables without records, and the next start marks all migrations as applied
  (`"first"` in `RecordedIsApplied`). One that ends while it records an existing database makes
  the next one run 007, which drops the tables (`"bootstrap"` in `DataKept`). One that ends
  inside 011 leaves the column by which the next one decides that 011 is not needed (`"compat"`).
  An old database with no record at all is given all records, 011 unapplied (`"old"`).
- A statement of the files for Neon is outside the transaction the runner opens, since each file
  commits by itself before its record.
- The web application creates some of the runner's tables itself; where it came first, the
  runner takes the database for one made by hand.
- Two flushes of the recorder may have the same chunks under way, and the answer to one empties the
  list of what the other did not have (`exposed` in `ChunksAccounted`). A chunk that is stored with nobody
  to hear the answer leaves `chunkCount` behind it, and the next page gives its index to another chunk;
  `IndexesContinue` speaks only of answers a page heard.
- An error that names a replay table is taken for a missing table, and a request that fails names
  the query it carried. A deletion whose counting query is cut off finds no replay rows, one whose
  DELETE is cut off passes over it, and both answer 202 (`misread` in `Erased`). So does a
  deletion when one of the two tables is missing.
- `earlierAttemptEvents` never decides: of attempts that get as far, the one that starts first is
  the earliest at every step (`FunnelIsBest`).
- A deletion does not reach what is derived from events: `user_profiles` and
  `user_activity_daily` of migration 012 are materialised and kept.
- Events of a visitor that are still queued or in the write-ahead log when the visitor is deleted
  are stored afterwards; `Erased` speaks of the rows in the tables.

## 7. Not modelled, and the plan

Not modelled for good: dashboard queries and aggregates other than the funnel's search, replay playback, Neo and AI insights,
geo lookup, metrics, configuration, the React UI, SQL schemas, and `rybbit/`. They are data
transformation, formatting or I/O, with no steps to interleave.

Within modelled components, left out as data or as steps with no consequence: time zones, the
rules of an alert's condition and the retry-after hint; the old form of the events table in a
deletion; sampling, masking and DOM serialisation of the recorder, a sessionStorage that fails, and
the ignore selector, which may open the capture window without a snapshot.

Next, in this order, each with the abstract statement it should be checked against:

1. Imports (`dashboard_imports.go` 1040-1100): the goroutine of a job against restarts and against its
   own deadline, with which it also records that it failed. Every job ends; no row is stored twice.
2. The refresh of DOM snapshots (`heatmap-dom-refresh.ts`, `dom-snapshot.js`): request and fulfilment over
   several pages. The newest request is the one fulfilled.
3. `BatchWriter` with `Privacy`: an event that is accepted before a deletion is stored after it.

Proofs still worth having: a refinement of `Delivery` without `Serial`, in which the losses of section 6
are an action of their own, so that the theorem says there are no others; `DurableLogHolds` with torn
appends, for the log up to the first torn record; and `OnceUntilStop` past a restart, where only what was
written and not yet acknowledged may be written again.
