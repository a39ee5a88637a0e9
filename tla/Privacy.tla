------------------------------ MODULE Privacy ------------------------------
(***************************************************************************)
(* Deletion of a visitor's data in ClickHouse                              *)
(* (storage/privacy_clickhouse.go), against the writers of events and of   *)
(* replays (storage/clickhouse.go, storage/replay_clickhouse.go).          *)
(*                                                                         *)
(* A deletion counts the rows of three tables and then deletes from those  *)
(* that had some: six queries, between which anything may be written.  A   *)
(* DELETE of ClickHouse is a mutation: it takes effect later, on the rows  *)
(* that were there when it came.  A replay is written by two inserts, the  *)
(* session's and its chunks', each of which creates both tables when it    *)
(* takes the error it gets for that of a missing table.  Only the rows of  *)
(* one visitor are modelled, numbered as they come.                        *)
(***************************************************************************)
EXTENDS Naturals, Sequences, Functions

CONSTANTS
  Erasers,         \* DELETE requests of the admin API at a time
  ReplayWriters,   \* replay requests at a time
  MaxRows,         \* bound on the rows written
  MaxQueryErrors   \* bound on the queries that fail

Tables == <<"events", "replay_sessions", "replay_chunks">>
ReplayTables == {"replay_sessions", "replay_chunks"}

VARIABLES
  visitorRows,  \* the visitor's rows: table and number
  doomed,       \* those among them that a mutation will delete
  absent,       \* the replay tables that do not exist
  erasures,     \* DeleteVisitor: the tables still to be counted, and those
                \*   to delete from; history: the rows it began with, and
                \*   whether it took replay tables for missing when there
                \*   were some
  inserting,    \* WriteReplay: the table it inserts into next
  rowsWritten,  \* rows so far
  queryErrors   \* failures so far

privacyVars ==
  <<visitorRows, doomed, absent, erasures, inserting, rowsWritten, queryErrors>>

NoErasure ==
  [ open |-> FALSE, count |-> << >>, delete |-> << >>, before |-> {},
    misread |-> FALSE ]

(* Databases with the tables of migration 009, and those from before it.   *)
PrivacyInit ==
  /\ visitorRows = {}
  /\ doomed = {}
  /\ absent \in {{}, ReplayTables}
  /\ erasures = [e \in Erasers |-> NoErasure]
  /\ inserting = [w \in ReplayWriters |-> "replay_sessions"]
  /\ rowsWritten = 0
  /\ queryErrors = 0

RowsOf(t) == {r \in visitorRows : r[1] = t}

(* No query of a deletion is left: it answers with success.                *)
AllAsked(e) == erasures[e].count = << >> /\ erasures[e].delete = << >>

QueryFails ==
  /\ queryErrors < MaxQueryErrors
  /\ queryErrors' = queryErrors + 1

RowWritten(t) ==
  /\ rowsWritten < MaxRows
  /\ rowsWritten' = rowsWritten + 1
  /\ visitorRows' = visitorRows \union {<<t, rowsWritten + 1>>}
-----------------------------------------------------------------------------
(* WriteBatch, with an event of the visitor.                               *)
WriteEvents ==
  /\ RowWritten("events")
  /\ UNCHANGED <<doomed, absent, erasures, inserting, queryErrors>>

(* An insert of WriteReplay, which creates missing tables and tries again. *)
InsertReplay(w) ==
  /\ RowWritten(inserting[w])
  /\ absent' = IF inserting[w] \in absent THEN {} ELSE absent
  /\ inserting' = [inserting EXCEPT ![w] =
                     CHOOSE t \in ReplayTables : t # inserting[w]]
  /\ UNCHANGED <<doomed, erasures, queryErrors>>

(* It fails, before or after ensureReplayTables created the first table or *)
(* both.                                                                   *)
InsertReplayFails(w) ==
  /\ QueryFails
  /\ absent' \in {absent, absent \ {"replay_sessions"}, {}}
  /\ inserting' = [inserting EXCEPT ![w] = "replay_sessions"]
  /\ UNCHANGED <<visitorRows, doomed, erasures, rowsWritten>>

(* ClickHouse carries out the mutations of a table.                        *)
Mutate(t) ==
  /\ RowsOf(t) \intersect doomed # {}
  /\ visitorRows' = visitorRows \ (RowsOf(t) \intersect doomed)
  /\ doomed' = doomed \ RowsOf(t)
  /\ UNCHANGED <<absent, erasures, inserting, rowsWritten, queryErrors>>
-----------------------------------------------------------------------------
EraseBegin(e) ==
  /\ ~ erasures[e].open
  /\ erasures' = [erasures EXCEPT ![e] =
                    [ NoErasure EXCEPT
                      !.open = TRUE, !.count = Tables, !.before = visitorRows ]]
  /\ UNCHANGED <<visitorRows, doomed, absent>>
  /\ UNCHANGED <<inserting, rowsWritten, queryErrors>>

(* Seeded defect: chunks are looked for only with sessions.                *)
CountedWithSession(toDelete, t) ==
  IF \/ RowsOf(t) = {}
     \/ t = "replay_chunks" /\ "replay_sessions" \notin Range(toDelete)
  THEN toDelete ELSE Append(toDelete, t)

(* The list of tables to delete from, once table t was counted.            *)
Counted(toDelete, t) == IF RowsOf(t) = {} THEN toDelete ELSE Append(toDelete, t)

(* A query of countVisitorEvents or countVisitorReplay.                    *)
CountRows(e) ==
  LET t == Head(erasures[e].count) IN
  /\ erasures[e].count # << >>
  /\ t \notin absent
  /\ erasures' = [erasures EXCEPT ![e].count = Tail(@),
                                  ![e].delete = Counted(@, t)]
  /\ UNCHANGED <<visitorRows, doomed, absent>>
  /\ UNCHANGED <<inserting, rowsWritten, queryErrors>>

EventsOnly(toDelete) == IF "events" \in Range(toDelete) THEN <<"events">> ELSE << >>

(* An error that isClickHouseMissingReplayTables accepts, which is any one *)
(* that names the table, as every failed request does whose URL holds the  *)
(* query: both counts are zero.                                            *)
CountTakenForMissing(e) ==
  LET t == Head(erasures[e].count) IN
  /\ erasures[e].count # << >>
  /\ t \in ReplayTables
  /\ IF t \in absent THEN UNCHANGED queryErrors ELSE QueryFails
  /\ erasures' = [ erasures EXCEPT
                     ![e].count = << >>,
                     ![e].delete = EventsOnly(@),
                     ![e].misread = absent # ReplayTables ]
  /\ UNCHANGED <<visitorRows, doomed, absent, inserting, rowsWritten>>

(* ALTER TABLE ... DELETE, one for each table that had rows.               *)
DeleteRows(e) ==
  /\ erasures[e].count = << >> /\ erasures[e].delete # << >>
  /\ doomed' = doomed \union RowsOf(Head(erasures[e].delete))
  /\ erasures' = [erasures EXCEPT ![e].delete = Tail(@)]
  /\ UNCHANGED <<visitorRows, absent, inserting, rowsWritten, queryErrors>>

(* It fails, and the error is taken for a missing table.                   *)
DeleteTakenForMissing(e) ==
  /\ erasures[e].count = << >> /\ erasures[e].delete # << >>
  /\ Head(erasures[e].delete) \in ReplayTables
  /\ QueryFails
  /\ erasures' = [erasures EXCEPT ![e].delete = Tail(@), ![e].misread = TRUE]
  /\ UNCHANGED <<visitorRows, doomed, absent, inserting, rowsWritten>>

(* The request ends: with 202 after the last query, or with 500 at one     *)
(* that fails.                                                             *)
EraseEnd(e) ==
  /\ erasures[e].open
  /\ IF AllAsked(e) THEN UNCHANGED queryErrors ELSE QueryFails
  /\ erasures' = [erasures EXCEPT ![e] = NoErasure]
  /\ UNCHANGED <<visitorRows, doomed, absent, inserting, rowsWritten>>
-----------------------------------------------------------------------------
PrivacyNext ==
  \/ WriteEvents
  \/ \E w \in ReplayWriters : InsertReplay(w) \/ InsertReplayFails(w)
  \/ \E t \in Range(Tables) : Mutate(t)
  \/ \E e \in Erasers :
       \/ EraseBegin(e)
       \/ CountRows(e) \/ CountTakenForMissing(e)
       \/ DeleteRows(e) \/ DeleteTakenForMissing(e)
       \/ EraseEnd(e)

PrivacySpec == PrivacyInit /\ [][PrivacyNext]_privacyVars
-----------------------------------------------------------------------------
(* A deletion that answers with success leaves none of the rows that it    *)
(* began with, once the mutations it asked for are carried out: no event   *)
(* in any case, and no row of a replay unless an error was taken for a     *)
(* missing table, whatever is inserted or deleted between its queries.     *)
(* Violated when the counting of a table depends on another's: a deletion  *)
(* before it may have come between the two inserts of a replay.            *)
Erased ==
  \A e \in Erasers :
    erasures[e].open /\ AllAsked(e) =>
      \A r \in (erasures[e].before \intersect visitorRows) \ doomed :
        r[1] \in ReplayTables /\ erasures[e].misread
=============================================================================
