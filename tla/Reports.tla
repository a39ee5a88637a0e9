------------------------------ MODULE Reports ------------------------------
(***************************************************************************)
(* The report scheduler, reportscheduler/scheduler.go.  A run loads the    *)
(* reports, reads the clock once, and sends each report that is due before *)
(* it records the attempt, with the clock of the run.  Runs may begin at   *)
(* any time and take any time; the process may end at any step.            *)
(*                                                                         *)
(* The clock counts in parts of a day of the reports' time zone, and the   *)
(* calendar has months of any lengths.                                     *)
(***************************************************************************)
EXTENDS Clock, Sequences

CONSTANTS
  DailyReports, WeeklyReports, MonthlyReports,
  AnchorDay,        \* the day on which the weekly and the monthly reports
                    \*   were created: of the week and of the month
  DeliveryTime,     \* delivery_time
  DayLength,        \* parts of a day
  WeekLength,       \* days of a week
  MonthStart,       \* the first days of the months, and the day after the last
  ShortestMonth,    \* 28: no month is shorter
  MaxReportFailures \* bound on the records that fail and the crashes

NoReport == "none"
Reports == DailyReports \union WeeklyReports \union MonthlyReports
Months == 1 .. Len(MonthStart) - 1
Days == 0 .. MonthStart[Len(MonthStart)] - 1

ASSUME ReportsAssumption ==
  /\ DayLength \in Nat \ {0} /\ DeliveryTime \in 0 .. DayLength - 1
  /\ WeekLength \in Nat \ {0} /\ ShortestMonth \in Nat \ {0}
  /\ AnchorDay \in Nat \ {0}
  /\ MonthStart \in Seq(Nat) /\ Months # {} /\ MonthStart[1] = 0
  /\ \A m \in Months : MonthStart[m + 1] - MonthStart[m] >= ShortestMonth
  /\ MaxTime < DayLength * (MonthStart[Len(MonthStart)] + 1)
  /\ NoReport \notin Reports
  \* a report has one frequency
  /\ DailyReports \intersect (WeeklyReports \union MonthlyReports) = {}
  /\ WeeklyReports \intersect MonthlyReports = {}
  /\ MaxReportFailures \in Nat

VARIABLES
  lastAttempt,    \* last_delivery_attempt_at; NoAttempt is NULL
  run,            \* runOnce: its stage, the rows it loaded, its clock, the
                  \*   reports still due, the one sent but not recorded, and
                  \*   whether its mail went out
  reportFailures, \* failures so far
  sends,          \* history: how often a report was sent, or was tried to
                  \*   be, by runs of a day
  unrecorded,     \* history: the days of a report's attempts that were not
                  \*   recorded
  looked          \* history: days of which a run looked at every report at
                  \*   or after the delivery time

reportVars == <<lastAttempt, run, reportFailures, sends, unrecorded, looked>>

NoAttempt == 0 - 1
NoRun == [stage |-> "idle", loaded |-> << >>, at |-> 0, due |-> {},
          sent |-> NoReport, delivered |-> FALSE]

ReportInit ==
  /\ lastAttempt = [r \in Reports |-> NoAttempt]
  /\ run = NoRun
  /\ reportFailures = 0
  /\ sends = [r \in Reports |-> [d \in Days |-> 0]]
  /\ unrecorded = [r \in Reports |-> {}]
  /\ looked = {}
-----------------------------------------------------------------------------
DayOf(at) == at \div DayLength
MonthDays(m) == MonthStart[m] .. MonthStart[m + 1] - 1
MonthOf(day) == CHOOSE m \in Months : day \in MonthDays(m)

(* Seeded defect: a report created late in a month waits for such a day.   *)
UnclampedDay(day, m) == day

(* clampDay: months are at least as long as the shortest.                  *)
clampDay(day, m) ==
  LET last == MonthStart[m + 1] - MonthStart[m]
  IN IF day <= ShortestMonth \/ day <= last THEN day ELSE last

OnItsDay(r, day) ==
  /\ r \in WeeklyReports => day % WeekLength = AnchorDay % WeekLength
  /\ r \in MonthlyReports =>
       LET m == MonthOf(day) IN day - MonthStart[m] + 1 = clampDay(AnchorDay, m)

(* reportDue, for the attempt as it was loaded.                            *)
reportDue(r, at, last) ==
  /\ at % DayLength >= DeliveryTime
  /\ OnItsDay(r, DayOf(at))
  /\ last = NoAttempt \/ DayOf(last) # DayOf(at)

LoadReports ==
  /\ run.stage = "idle"
  /\ run' = [NoRun EXCEPT !.stage = "loaded", !.loaded = lastAttempt]
  /\ UNCHANGED <<lastAttempt, reportFailures, sends, unrecorded, looked, now>>

(* The clock is read once for all reports.                                 *)
SelectDue ==
  /\ run.stage = "loaded" /\ DayOf(now) \in Days
  /\ run' = [run EXCEPT !.stage = "process", !.at = now,
       !.due = {r \in Reports : reportDue(r, now, run.loaded[r])}]
  /\ UNCHANGED <<lastAttempt, reportFailures, sends, unrecorded, looked, now>>

(* deliverReport, whether the mail goes out or not.                        *)
Deliver(r) ==
  /\ run.stage = "process" /\ run.sent = NoReport /\ r \in run.due
  /\ \E ok \in BOOLEAN :
       run' = [run EXCEPT !.due = @ \ {r}, !.sent = r, !.delivered = ok]
  /\ sends' = [sends EXCEPT ![r][DayOf(run.at)] = @ + 1]
  /\ UNCHANGED <<lastAttempt, reportFailures, unrecorded, looked, now>>

(* Seeded defect: only a mail that went out is an attempt.                 *)
RecordedIfDelivered(r) == IF run.delivered THEN run.at ELSE lastAttempt[r]

(* Delivered or failed, the attempt has the clock of the run.              *)
Recorded(r) == run.at

(* recordDelivery: one transaction.                                        *)
RecordDelivery ==
  /\ run.sent # NoReport
  /\ lastAttempt' = [lastAttempt EXCEPT ![run.sent] = Recorded(run.sent)]
  /\ run' = [run EXCEPT !.sent = NoReport, !.delivered = FALSE]
  /\ UNCHANGED <<reportFailures, sends, unrecorded, looked, now>>

Unrecorded == [unrecorded EXCEPT ![run.sent] = @ \union {DayOf(run.at)}]

(* It fails, which is logged.                                              *)
RecordFails ==
  /\ run.sent # NoReport
  /\ reportFailures < MaxReportFailures
  /\ reportFailures' = reportFailures + 1
  /\ unrecorded' = Unrecorded
  /\ run' = [run EXCEPT !.sent = NoReport, !.delivered = FALSE]
  /\ UNCHANGED <<lastAttempt, sends, looked, now>>

EndRun ==
  /\ run.stage = "process" /\ run.sent = NoReport /\ run.due = {}
  /\ run' = NoRun
  /\ looked' = IF run.at % DayLength >= DeliveryTime
               THEN looked \union {DayOf(run.at)} ELSE looked
  /\ UNCHANGED <<lastAttempt, reportFailures, sends, unrecorded, now>>

(* The process ends and starts again.                                      *)
SchedulerCrash ==
  /\ run.stage # "idle"
  /\ reportFailures < MaxReportFailures
  /\ reportFailures' = reportFailures + 1
  /\ unrecorded' = IF run.sent = NoReport THEN unrecorded ELSE Unrecorded
  /\ run' = NoRun
  /\ UNCHANGED <<lastAttempt, sends, looked, now>>

ReportNext ==
  \/ LoadReports \/ SelectDue \/ RecordDelivery \/ RecordFails \/ EndRun
  \/ SchedulerCrash
  \/ \E r \in Reports : Deliver(r)
  \/ Elapse /\ UNCHANGED reportVars

ReportSpec == ClockInit /\ ReportInit /\ [][ReportNext]_<<reportVars, now>>
-----------------------------------------------------------------------------
(* The runs of a day send a report once, unless an attempt of that day was *)
(* not recorded (scheduler.go:172-176); a run that goes on past midnight   *)
(* does not make the next day's run skip or repeat the report.             *)
OncePerDay ==
  \A r \in Reports, d \in Days : sends[r][d] <= 1 \/ d \in unrecorded[r]

(* In a month on each of whose days the scheduler looked at the reports, a *)
(* monthly report was attempted on one day, however short the month is     *)
(* (scheduler.go:390, 454), a weekly one on its day of each week, and a    *)
(* daily one on every day.                                                 *)
EachPeriodAttempted ==
  \A m \in Months :
    MonthDays(m) \subseteq looked =>
      /\ \A r \in MonthlyReports : \E day \in MonthDays(m) :
           {d \in MonthDays(m) : sends[r][d] > 0} = {day}
      /\ \A r \in WeeklyReports, d \in MonthDays(m) :
           d % WeekLength = AnchorDay % WeekLength => sends[r][d] > 0
      /\ \A r \in DailyReports, d \in MonthDays(m) : sends[r][d] > 0
=============================================================================
