----------------------------- MODULE Migrations -----------------------------
(***************************************************************************)
(* The migration runner, migrate/runner.go, which main calls before it     *)
(* serves.  Whatever fails ends the process, which is started again.       *)
(*                                                                         *)
(* ClickHouse has no transactions: a file is applied statement by          *)
(* statement, and then recorded.  A file for Neon is sent within a         *)
(* transaction with its record; but every file of db/neon/migrations ends  *)
(* with a COMMIT of its own, so that its statements are committed together *)
(* and its record after them.                                              *)
(*                                                                         *)
(* The files stand for those that decide the rest.  001 (with 002 to 004)  *)
(* makes tables, among them "events" with a column "props"; 005 (with 006) *)
(* makes a table and a view that reads columns of "events" which that of   *)
(* 001 does not have; 007 drops all tables and makes "events" with "meta"  *)
(* instead, and the columns that 008, a view made again, reads; 011 adds   *)
(* "meta" and the other new columns to an old "events", and 010 derives    *)
(* columns from "meta".  009 and 012 only add, to what is there by then.   *)
(***************************************************************************)
EXTENDS Naturals, Sequences

CONSTANT MaxStops  \* bound on the times the process ends half way

ASSUME MigrationsAssumption == MaxStops \in Nat

VARIABLES
  database,   \* "neon" or "clickhouse"
  events,     \* the table events: "none", or the columns it has of props
              \*   and meta: "props", "meta" or "both"
  applied,    \* how many statements of each file the latest process that
              \*   came to it applied
  recorded,   \* _migrations
  runner,     \* the process: its stage, the file it is at and the statements
              \*   of it that it applied, and what it found at its start:
              \*   the records, and whether 011 is required
  stops,      \* times the process ended half way
  cut,        \* history: windows in which it ended, and "old" for an old
              \*   database with no record
  data        \* the data of before: "none", "kept" or "lost"

migrationVars == <<database, events, applied, recorded, runner, stops, cut, data>>

Files == <<"001", "005", "007", "008", "010", "011">>
AllFiles == {Files[i] : i \in DOMAIN Files}

(* The statements of a file, where more than one matters.                  *)
Statements(f) ==
  IF database = "neon" \/ f \in {"001", "010"} THEN 1 ELSE IF f = "011" THEN 3 ELSE 2

Complete(f) == applied[f] = Statements(f)

Down == [stage |-> "down", file |-> "none", at |-> 0, found |-> {}, compat |-> FALSE]

NothingApplied == [f \in AllFiles |-> 0]

(* An empty database, one made by hand before there was a runner, and a    *)
(* ClickHouse whose events table is of the old form, with records or none: *)
(* the files were others then, and their views had the names 007 drops.    *)
MigrationInit ==
  /\ database \in {"neon", "clickhouse"}
  /\ \/ /\ events = "none" /\ recorded = {} /\ data = "none"
        /\ applied = NothingApplied /\ cut = {}
     \/ /\ events = "meta" /\ recorded = {} /\ data = "kept"
        /\ applied = [f \in AllFiles |-> Statements(f)] /\ cut = {}
     \/ /\ database = "clickhouse"
        /\ events = "props" /\ data = "kept"
        /\ \/ recorded = {"001", "005", "007", "008"} /\ cut = {}
           \/ recorded = {} /\ cut = {"old"}
        /\ applied = [f \in AllFiles |-> IF f \in {"010", "011"} THEN 0 ELSE Statements(f)]
  /\ runner = Down
  /\ stops = 0
-----------------------------------------------------------------------------
Kept == <<database, events, applied, recorded, stops, cut, data>>

(* clickHouseLegacyCompatRequired.                                         *)
CompatRequired == database = "clickhouse" /\ events = "props"

(* Seeded defect: the files are in the order of their names.               *)
OrderByName(compat) == Files

(* sort.Slice with the exception for 011.                                  *)
Order(compat) ==
  IF compat THEN <<"001", "005", "007", "008", "011", "010">> ELSE Files

(* Seeded defect: a database with tables is not told from an empty one.    *)
NeverBootstraps(found) == FALSE

(* No record, but tables other than _migrations.                           *)
Bootstraps(found) == found = {} /\ events # "none"

(* The process starts, reads the records and looks at the schema.          *)
StartRunner ==
  /\ runner.stage = "down" /\ recorded # AllFiles
  /\ runner' = [stage |-> IF Bootstraps(recorded) THEN "bootstrap" ELSE "next",
                file |-> "none", at |-> 0, found |-> recorded, compat |-> CompatRequired]
  /\ UNCHANGED Kept

(* bootstrapClickHouseMigrations, bootstrapNeonMigrations: one record after*)
(* the other, nothing applied.                                             *)
Bootstrap ==
  /\ runner.stage = "bootstrap"
  /\ \E i \in DOMAIN Files :
       /\ Files[i] \notin recorded
       /\ \A j \in 1 .. i - 1 : Files[j] \in recorded
       /\ recorded' = recorded \union {Files[i]}
  /\ runner' = IF recorded' = AllFiles THEN Down ELSE runner
  /\ UNCHANGED <<database, events, applied, stops, cut, data>>

(* The files not recorded at the start, nor since, by their places.         *)
Todo ==
  {i \in DOMAIN Files : Order(runner.compat)[i] \notin runner.found \union recorded}

NextInOrder ==
  Order(runner.compat)[CHOOSE i \in Todo : \A j \in Todo : i <= j]

(* Seeded defect: a file is recorded before its statements.                *)
NextFileRecording ==
  /\ runner.stage = "next"
  /\ runner' = IF Todo = {} THEN Down
               ELSE [runner EXCEPT !.file = NextInOrder, !.stage = "apply"]
  /\ recorded' = IF Todo = {} THEN recorded ELSE recorded \union {NextInOrder}
  /\ UNCHANGED <<database, events, applied, stops, cut, data>>

(* The next file that was not recorded at the start.  011 is skipped, to   *)
(* be recorded only, unless it is required.                                *)
NextFile ==
  /\ runner.stage = "next"
  /\ runner' =
       IF Todo = {} THEN Down
       ELSE [runner EXCEPT !.file = NextInOrder,
              !.stage = IF /\ database = "clickhouse" /\ NextInOrder = "011"
                           /\ ~ runner.compat
                        THEN "record" ELSE "apply"]
  /\ UNCHANGED Kept

(* events after the next statement of a file.                              *)
EventsAfter(f, n) ==
  CASE f = "001" /\ events = "none" -> "props"
    [] f = "007" /\ database = "clickhouse" /\ n = 1 -> "none"
    [] f = "007" /\ events = "none" /\ n = Statements(f) -> "meta"
    [] f = "011" /\ n = 2 /\ events = "props" -> "both"
    [] OTHER -> events

(* What 011 derives its columns from is not in the table 007 makes; and    *)
(* meta, from which 010 does, is not in the old one, nor are the columns   *)
(* that the views of 005 (ts, e, vid, sid) and 008 (x, y) select.          *)
StatementFails(f, n) ==
  /\ database = "clickhouse"
  /\ \/ f = "011" /\ n # 2 /\ events = "meta"
     \/ f = "010" /\ events = "props"
     \/ f \in {"005", "008"} /\ n = 2 /\ events = "props"

(* The next statement of the file.  Those that an earlier process applied  *)
(* do nothing, as they all say IF EXISTS or IF NOT EXISTS, or drop what is *)
(* there again.                                                            *)
ApplyStatement ==
  LET f == runner.file
      n == runner.at + 1
  IN /\ runner.stage = "apply"
     /\ ~ StatementFails(f, n)
     /\ events' = EventsAfter(f, n)
     /\ applied' = [applied EXCEPT ![f] = n]
     /\ data' = IF events # "none" /\ events' = "none" /\ data = "kept" THEN "lost" ELSE data
     /\ runner' = [runner EXCEPT !.at = n, !.stage = IF n = Statements(f) THEN "record" ELSE @]
     /\ UNCHANGED <<database, recorded, stops, cut>>

(* recordClickHouseMigration, or the insert that follows Neon's commit.    *)
Record ==
  /\ runner.stage = "record"
  /\ recorded' = recorded \union {runner.file}
  /\ runner' = [runner EXCEPT !.stage = "next", !.file = "none", !.at = 0]
  /\ UNCHANGED <<database, events, applied, stops, cut, data>>

(* The window in which the process is, if there is one that matters: it    *)
(* has made tables and recorded nothing, it has recorded a part of a       *)
(* database made by hand, or it has added meta and not recorded 011.       *)
Window ==
  {w \in {"first", "bootstrap", "compat"} :
     \/ w = "first" /\ recorded = {} /\ events # "none" /\ runner.stage \in {"apply", "record"}
     \/ w = "bootstrap" /\ recorded # {} /\ runner.stage = "bootstrap"
     \/ w = "compat" /\ events = "both" /\ runner.file = "011"}

(* The process ends: by a crash, a query that fails, or the 45 seconds of  *)
(* migrationCtx.                                                           *)
Stop ==
  /\ runner.stage # "down"
  /\ stops < MaxStops
  /\ stops' = stops + 1
  /\ cut' = cut \union Window
  /\ runner' = Down
  /\ UNCHANGED <<database, events, applied, recorded, data>>

(* A statement that cannot succeed ends it too.                            *)
Fail ==
  /\ runner.stage = "apply"
  /\ StatementFails(runner.file, runner.at + 1)
  /\ runner' = Down
  /\ UNCHANGED Kept

Migrate == StartRunner \/ Bootstrap \/ NextFile \/ ApplyStatement \/ Record \/ Fail

MigrationNext == Migrate \/ Stop

(* The process is started until it serves, and its queries are answered.   *)
MigrationFairness == WF_migrationVars(Migrate)

MigrationSpec ==
  MigrationInit /\ [][MigrationNext]_migrationVars /\ MigrationFairness
-----------------------------------------------------------------------------
(* What is recorded as applied is applied as a whole, and 011 wholly or,   *)
(* where the table has "meta" already, not at all; unless a process ended  *)
(* between the statements of the first migration and its record, whose     *)
(* tables the next start takes for a complete database (runner.go:57), or  *)
(* between the column "meta" and the end of 011 (runner.go:61), or the     *)
(* database was an old one with no record, which is taken for a new one.   *)
RecordedIsApplied ==
  \A f \in recorded :
    \/ Complete(f)
    \/ f = "011" /\ applied[f] = 0 /\ events # "props" /\ database = "clickhouse"
    \/ cut \intersect {"first", "compat", "old"} # {}

(* The data of a database that was there before the runner is not dropped, *)
(* unless a process ended while it recorded the files of that database,    *)
(* so that the next applies the rest, and with them the DROPs of 007       *)
(* (runner.go:248).                                                        *)
DataKept == data = "lost" => "bootstrap" \in cut

(* The table of 001 is still that of the database, and a view that needs   *)
(* other columns is yet to be made: every start ends there.                *)
StuckAtView ==
  /\ database = "clickhouse" /\ events = "props"
  /\ "005" \notin recorded \/ ("007" \in recorded /\ "008" \notin recorded)

(* Once a process was started, every file is recorded at last, whatever    *)
(* state the database began in and wherever processes ended, unless for    *)
(* ever a view of 005 or 008 meets the table of 001: no start ends at any  *)
(* other statement that can never succeed (runner.go:65-88).               *)
EventuallyMigrated == runner.stage # "down" ~> (recorded = AllFiles \/ []StuckAtView)
=============================================================================
