---------------------------- MODULE Jobs_proofs ----------------------------
(***************************************************************************)
(* Theorems about what the API does by itself: the alert checker, the      *)
(* report scheduler and the migration runner.                              *)
(***************************************************************************)
EXTENDS Alerts, Reports, Migrations, Lists_proofs, TLAPS
-----------------------------------------------------------------------------
(* The alert checker.                                                      *)

Rounds ==
  [todo : SUBSET AlertIDs, loaded : {<< >>} \union [AlertIDs -> Int],
   alert : AlertIDs \union {NoAlert}, firing : Nat, channels : SUBSET Channels]

Histories == [at : Int, written : BOOLEAN, shortest : Int]

AlertTypes ==
  /\ now \in Nat
  /\ lastFired \in [AlertIDs -> Int]
  /\ round \in [CheckerInstances -> Rounds]
  /\ firings \in Nat
  /\ history \in [CheckerInstances -> [AlertIDs -> Histories]]

(* What is in the database, and in the hands of an instance that has still *)
(* to process the alert, is no older than the instance's last firing of    *)
(* it, if that was written.                                                *)
Cooled ==
  \A i \in CheckerInstances, a \in AlertIDs :
    /\ history[i][a].at <= now
    /\ history[i][a].written => lastFired[a] >= history[i][a].at
    /\ a \in round[i].todo =>
         /\ round[i].loaded \in [AlertIDs -> Int]
         /\ history[i][a].written => round[i].loaded[a] >= history[i][a].at

AlertInv == AlertTypes /\ Cooled /\ OncePerPeriod

LEMMA AsleepType == Asleep \in Rounds /\ Asleep.todo = {}
BY DEF Asleep, Rounds

LEMMA SettledType ==
  ASSUME NEW r \in Rounds, NEW a \in AlertIDs
  PROVE  /\ Settled(r, a) \in Rounds
         /\ Settled(r, a).todo \subseteq r.todo \ {a}
         /\ Settled(r, a).todo # {} => Settled(r, a).loaded = r.loaded
BY AsleepType DEF Settled, Rounds

LEMMA AlertInit_Inv == ClockInit /\ AlertInit => AlertInv
BY AlertsAssumption, AsleepType
   DEF Histories, ClockInit, AlertInit, AlertInv, AlertTypes, Cooled, OncePerPeriod, Unfired, NotFired

LEMMA WrittenType ==
  ASSUME NEW h \in Histories
  PROVE  LET w == [h EXCEPT !.written = TRUE]
         IN w \in Histories /\ w.at = h.at /\ w.shortest = h.shortest
BY DEF Histories

(* Where only one instance's round changes, and keeps to what it loaded.   *)
LEMMA RoundStep ==
  ASSUME AlertInv, NEW i \in CheckerInstances, NEW r \in Rounds,
         round' = [round EXCEPT ![i] = r],
         r.todo \subseteq round[i].todo,
         r.todo # {} => r.loaded = round[i].loaded,
         UNCHANGED <<lastFired, firings, history, now>>
  PROVE  AlertInv'
<1> USE DEF AlertInv, AlertTypes, Histories
<1>1. AlertTypes' /\ OncePerPeriod'
  BY DEF OncePerPeriod
<1>2. \A j \in CheckerInstances : round'[j] = IF j = i THEN r ELSE round[j]
  OBVIOUS
<1>3. Cooled'
  BY <1>2 DEF Cooled
<1> QED BY <1>1, <1>3

(* Every step keeps the invariant; only Fire, which needs the cooldown, and *)
(* WriteLastFired touch what it is about.                                  *)
LEMMA AlertNext_Inv ==
  ASSUME AlertInv, [AlertNext]_<<alertVars, now>>
  PROVE  AlertInv'
<1> USE AlertsAssumption DEF Histories, AlertInv, AlertTypes, Cooled, OncePerPeriod
<1>1. ASSUME NEW i \in CheckerInstances, LoadAlerts(i) PROVE AlertInv'
  <2> DEFINE r == [round[i] EXCEPT !.todo = AlertIDs, !.loaded = lastFired]
  <2>1. r \in Rounds /\ r.loaded = lastFired
    BY DEF Rounds
  <2>2. round' = [round EXCEPT ![i] = r]
    BY <1>1 DEF LoadAlerts, Rounds
  <2>3. UNCHANGED <<lastFired, firings, history, now>>
    BY <1>1 DEF LoadAlerts
  <2> HIDE DEF r
  <2>4. AlertTypes' /\ OncePerPeriod'
    BY <2>1, <2>2, <2>3
  <2>5. Cooled'
    BY <2>1, <2>2, <2>3
  <2> QED BY <2>4, <2>5
<1>2. ASSUME NEW i \in CheckerInstances, WriteLastFired(i) PROVE AlertInv'
  <2> DEFINE a == round[i].alert
  <2>1. a \in AlertIDs
    BY <1>2 DEF WriteLastFired, Rounds
  <2>2. round' = [round EXCEPT ![i] = Settled(round[i], a)]
    BY <1>2 DEF WriteLastFired
  <2> HIDE DEF a
  <2>3. /\ Settled(round[i], a) \in Rounds
        /\ Settled(round[i], a).todo \subseteq round[i].todo \ {a}
        /\ Settled(round[i], a).todo # {} => Settled(round[i], a).loaded = round[i].loaded
    BY <2>1, SettledType
  <2>4. UNCHANGED <<firings, now>>
    BY <1>2 DEF WriteLastFired
  <2>0. /\ lastFired \in [AlertIDs -> Int] /\ round \in [CheckerInstances -> Rounds]
        /\ history \in [CheckerInstances -> [AlertIDs -> Histories]]
        /\ now \in Nat /\ firings \in Nat
    OBVIOUS
  <2>5. CASE UNCHANGED <<lastFired, history>>
    BY <2>2, <2>3, <2>4, <2>5, RoundStep
  <2>6. CASE /\ lastFired' = [lastFired EXCEPT ![a] = now]
             /\ history' = [history EXCEPT ![i][a].written = TRUE]
    <3> DEFINE h == [history[i][a] EXCEPT !.written = TRUE]
    <3>0. /\ h \in Histories
          /\ h.at = history[i][a].at /\ h.shortest = history[i][a].shortest
      BY <2>0, <2>1, WrittenType
    <3>5. history' = [history EXCEPT ![i] = [history[i] EXCEPT ![a] = h]]
      BY <2>6
    <3> HIDE DEF h
    <3>1. AlertTypes'
      <4> HIDE DEF AlertInv, Cooled, OncePerPeriod, Histories
      <4>1. lastFired' \in [AlertIDs -> Int]
        BY <2>0, <2>1, <2>6
      <4>2. round' \in [CheckerInstances -> Rounds]
        BY <2>0, <2>2, <2>3
      <4>3. history' \in [CheckerInstances -> [AlertIDs -> Histories]]
        BY <2>0, <3>0, <3>5
      <4> QED BY <4>1, <4>2, <4>3, <2>0, <2>4
    <3>2. \A j \in CheckerInstances, b \in AlertIDs :
            /\ history'[j][b].at = history[j][b].at
            /\ history'[j][b].shortest = history[j][b].shortest
            /\ j # i \/ b # a => history'[j][b] = history[j][b]
      BY <2>0, <2>1, <3>0, <3>5
    <3>3. OncePerPeriod'
      BY <3>2
    <3>4. Cooled'
      BY <2>0, <2>1, <2>2, <2>3, <2>4, <2>6, <3>2
    <3> QED BY <3>1, <3>3, <3>4
  <2> QED BY <1>2, <2>5, <2>6 DEF WriteLastFired, a
<1>3. ASSUME NEW i \in CheckerInstances, CheckerCrash(i) PROVE AlertInv'
  BY <1>3, AsleepType, RoundStep DEF CheckerCrash
<1>4. ASSUME NEW i \in CheckerInstances, NEW a \in AlertIDs, Pass(i, a) PROVE AlertInv'
  BY ZenonT(30), <1>4, SettledType, RoundStep DEF Pass
<1>5. ASSUME NEW i \in CheckerInstances, NEW a \in AlertIDs, Fire(i, a) PROVE AlertInv'
  <2>1. round[i].loaded[a] + AlertPeriod <= now /\ round[i].loaded[a] \in Int
    BY <1>5 DEF Fire, CoolingDown, Rounds
  <2>2. history[i][a].written => now - history[i][a].at >= AlertPeriod
    BY <1>5, <2>1 DEF Fire
  <2>3. round' \in [CheckerInstances -> Rounds] /\ firings' \in Nat
    <3>1. firings' \in Nat
      BY <1>5 DEF Fire
    <3>2. [round[i] EXCEPT !.alert = a, !.firing = firings', !.channels = Channels] \in Rounds
      BY <3>1 DEF Rounds
    <3>3. round' = [round EXCEPT ![i] =
                      [round[i] EXCEPT !.alert = a, !.firing = firings', !.channels = Channels]]
      BY <1>5 DEF Fire
    <3> HIDE DEF AlertInv, Cooled, OncePerPeriod
    <3> QED BY <3>1, <3>2, <3>3 DEF AlertInv
  <2>4. \A j \in CheckerInstances :
          round'[j].todo = round[j].todo /\ round'[j].loaded = round[j].loaded
    BY <1>5 DEF Fire, Rounds
  <2>5. /\ history' \in [CheckerInstances -> [AlertIDs -> Histories]]
        /\ history'[i][a].at = now /\ ~ history'[i][a].written
        /\ history'[i][a].shortest >= AlertPeriod
        /\ \A j \in CheckerInstances, b \in AlertIDs :
             j # i \/ b # a => history'[j][b] = history[j][b]
    BY <1>5, <2>2 DEF Fire
  <2> QED BY <1>5, <2>3, <2>4, <2>5 DEF Fire
<1>6. ASSUME NEW i \in CheckerInstances, NEW c \in Channels, Dispatch(i, c) PROVE AlertInv'
  BY ZenonT(30), <1>6 DEF Dispatch, Rounds
<1>7. CASE Elapse /\ UNCHANGED alertVars
  BY <1>7 DEF Elapse, alertVars
<1>8. CASE UNCHANGED <<alertVars, now>>
  BY <1>8 DEF alertVars
<1> QED BY <1>1, <1>2, <1>3, <1>4, <1>5, <1>6, <1>7, <1>8 DEF AlertNext

(* An instance does not fire an alert twice within the alert's period,     *)
(* unless last_fired_at was not written (checker.go:277, 314).             *)
THEOREM OncePerPeriodHolds == AlertSpec => []OncePerPeriod
<1>1. AlertInv => OncePerPeriod
  BY DEF AlertInv
<1> QED BY AlertInit_Inv, AlertNext_Inv, <1>1, PTL DEF AlertSpec
-----------------------------------------------------------------------------
(* The report scheduler.                                                   *)

Runs ==
  [stage : {"idle", "loaded", "process"}, loaded : {<< >>} \union [Reports -> Int],
   at : Nat, due : SUBSET Reports, sent : Reports \union {NoReport}, delivered : BOOLEAN]

ReportTypes ==
  /\ now \in Nat
  /\ lastAttempt \in [Reports -> Int]
  /\ run \in Runs
  /\ sends \in [Reports -> [Days -> Nat]]
  /\ unrecorded \in [Reports -> SUBSET Int]

(* The report was sent by a run of the day, which none has to answer for.  *)
SentOn(r, d) == sends[r][d] > 0 /\ d \notin unrecorded[r]

(* A report sent on a day is recorded at that day or later, or about to be *)
(* recorded at that day; a run is about to send only what its day lacks.   *)
Attempted ==
  /\ run.stage = "loaded" => run.loaded = lastAttempt
  /\ run.stage # "process" => run.sent = NoReport
  /\ run.at <= now
  /\ run.stage = "process" => DayOf(run.at) \in Days
  /\ run.sent # NoReport => run.sent \notin run.due
  /\ \A r \in Reports :
       /\ lastAttempt[r] <= now
       /\ run.stage = "process" => lastAttempt[r] <= run.at
       /\ run.stage = "process" /\ r \in run.due => ~ SentOn(r, DayOf(run.at))
       /\ \A d \in Days : SentOn(r, d) =>
            \/ lastAttempt[r] # NoAttempt /\ lastAttempt[r] >= 0 /\ d <= DayOf(lastAttempt[r])
            \/ run.sent = r /\ d = DayOf(run.at)

ReportInv == ReportTypes /\ Attempted /\ OncePerDay

LEMMA DayFacts ==
  /\ \A a \in Nat : DayOf(a) \in Nat
  /\ \A a, b \in Nat : a <= b => DayOf(a) <= DayOf(b)
<1>1. DayLength \in Nat \ {0}
  BY ReportsAssumption
<1>2. ASSUME NEW a \in Nat PROVE DayOf(a) \in Nat
  BY <1>1, <1>2 DEF DayOf
<1>3. ASSUME NEW a \in Nat, NEW b \in Nat, a <= b PROVE DayOf(a) <= DayOf(b)
  BY <1>1, <1>3 DEF DayOf
<1> QED BY <1>2, <1>3

LEMMA ReportInit_Inv == ClockInit /\ ReportInit => ReportInv
BY ReportsAssumption
   DEF ClockInit, ReportInit, ReportInv, ReportTypes, Runs, Attempted, SentOn, OncePerDay,
       NoRun, NoAttempt

LEMMA LoadReports_Inv == ReportInv /\ LoadReports => ReportInv'
<1> SUFFICES ASSUME ReportInv, LoadReports PROVE ReportInv'
  OBVIOUS
<1> USE DEF ReportInv, ReportTypes, Attempted
<1>1. /\ run.stage = "idle" /\ run.sent = NoReport
      /\ UNCHANGED <<lastAttempt, sends, unrecorded, now>>
  BY DEF LoadReports
<1>2. /\ run' \in Runs /\ run'.stage = "loaded" /\ run'.loaded = lastAttempt
      /\ run'.at = 0 /\ run'.sent = NoReport
  BY DEF LoadReports, NoRun, Runs
<1>3. ReportTypes' /\ OncePerDay'
  BY <1>1, <1>2 DEF OncePerDay
<1>4. \A r \in Reports, d \in Days : SentOn(r, d) =>
        lastAttempt[r] # NoAttempt /\ lastAttempt[r] >= 0 /\ d <= DayOf(lastAttempt[r])
  BY <1>1, ReportsAssumption
<1>5. Attempted'
  BY <1>1, <1>2, <1>4 DEF SentOn
<1> QED BY <1>3, <1>5

(* A report sent on the day at hand has its record of that day, so that it *)
(* is not due.                                                             *)
LEMMA SelectDue_Inv == ReportInv /\ SelectDue => ReportInv'
<1> SUFFICES ASSUME ReportInv, SelectDue PROVE ReportInv'
  OBVIOUS
<1> USE DEF ReportInv, ReportTypes, Attempted
<1>1. run' = [run EXCEPT !.stage = "process", !.at = now,
                !.due = {r \in Reports : reportDue(r, now, run.loaded[r])}]
  BY DEF SelectDue
<1>2. run' \in Runs
  BY <1>1 DEF Runs
<1>0. /\ run.stage = "loaded" /\ run.sent = NoReport /\ DayOf(now) \in Days
      /\ NoReport \notin Reports /\ now \in Nat
  BY ReportsAssumption DEF SelectDue
<1>3. \A r \in run'.due : ~ SentOn(r, DayOf(now))
  <2> SUFFICES ASSUME NEW r \in Reports, reportDue(r, now, lastAttempt[r]), SentOn(r, DayOf(now))
               PROVE FALSE
    BY <1>1 DEF SelectDue, Runs
  <2>1. /\ lastAttempt[r] # NoAttempt /\ lastAttempt[r] \in Nat /\ lastAttempt[r] <= now
        /\ DayOf(now) <= DayOf(lastAttempt[r])
    BY <1>0
  <2>2. DayOf(lastAttempt[r]) = DayOf(now)
    <3> HIDE DEF ReportInv
    <3>1. DayOf(lastAttempt[r]) <= DayOf(now) /\ DayOf(now) \in Nat /\ DayOf(lastAttempt[r]) \in Nat
      BY <1>0, <2>1, DayFacts
    <3> QED BY <2>1, <3>1
  <2> QED BY <2>1, <2>2 DEF reportDue
<1>4. UNCHANGED <<lastAttempt, sends, unrecorded, now>>
  BY DEF SelectDue
<1>5. run.stage = "loaded" /\ run.sent = NoReport /\ DayOf(now) \in Days
  BY DEF SelectDue
<1>6. run'.stage = "process" /\ run'.at = now /\ run'.sent = NoReport
  BY <1>1, <1>5 DEF Runs
<1>7. ReportTypes' /\ OncePerDay'
  BY <1>2, <1>4 DEF OncePerDay
<1>8. Attempted'
  <2>1. \A r \in Reports, d \in Days : SentOn(r, d)' <=> SentOn(r, d)
    BY <1>4 DEF SentOn
  <2>2. \A r \in Reports, d \in Days : SentOn(r, d) =>
          lastAttempt[r] # NoAttempt /\ lastAttempt[r] >= 0 /\ d <= DayOf(lastAttempt[r])
    BY <1>0
  <2>3. \A r \in Reports : lastAttempt[r] <= now
    OBVIOUS
  <2> HIDE DEF ReportInv
  <2> QED BY <1>0, <1>3, <1>4, <1>6, <2>1, <2>2, <2>3
<1> QED BY <1>7, <1>8

(* What is sent was not sent on that day before.                           *)
LEMMA Deliver_Inv == \A r \in Reports : ReportInv /\ Deliver(r) => ReportInv'
<1> SUFFICES ASSUME NEW r \in Reports, ReportInv, Deliver(r) PROVE ReportInv'
  OBVIOUS
<1> USE DEF ReportInv, ReportTypes, Attempted
<1>1. /\ run.stage = "process" /\ run.sent = NoReport /\ r \in run.due
      /\ UNCHANGED <<lastAttempt, unrecorded, now>>
      /\ sends' = [sends EXCEPT ![r][DayOf(run.at)] = @ + 1]
  BY DEF Deliver
<1>2. PICK ok \in BOOLEAN :
        run' = [run EXCEPT !.due = run.due \ {r}, !.sent = r, !.delivered = ok]
  BY DEF Deliver
<1>3. /\ run' \in Runs /\ run'.stage = "process" /\ run'.at = run.at
      /\ run'.due = run.due \ {r} /\ run'.sent = r
  BY <1>1, <1>2 DEF Runs
<1>4. /\ sends' \in [Reports -> [Days -> Nat]]
      /\ \A x \in Reports, d \in Days :
           sends'[x][d] = IF x = r /\ d = DayOf(run.at) THEN sends[x][d] + 1 ELSE sends[x][d]
  BY <1>1
<1>5. ReportTypes'
  BY <1>1, <1>3, <1>4
<1>6. ~ SentOn(r, DayOf(run.at)) /\ DayOf(run.at) \in Days
  BY <1>1
<1>7. OncePerDay'
  BY <1>1, <1>4, <1>6 DEF OncePerDay, SentOn
<1>8. \A x \in Reports, d \in Days :
        SentOn(x, d)' => SentOn(x, d) \/ (x = r /\ d = DayOf(run.at))
  BY <1>1, <1>4 DEF SentOn
<1>9. \A x \in Reports, d \in Days : SentOn(x, d) /\ x # r => SentOn(x, d)'
  BY <1>1, <1>4 DEF SentOn
<1>10. Attempted'
  <2>1. NoReport \notin Reports
    BY ReportsAssumption
  <2> QED BY <1>1, <1>3, <1>6, <1>8, <2>1
<1> QED BY <1>5, <1>7, <1>10

(* The attempt of the run's day takes the place of an older one.           *)
LEMMA RecordDelivery_Inv == ReportInv /\ RecordDelivery => ReportInv'
<1> SUFFICES ASSUME ReportInv, RecordDelivery PROVE ReportInv'
  OBVIOUS
<1> USE DEF ReportInv, ReportTypes, Attempted
<1>1. /\ run.sent # NoReport /\ run.stage = "process" /\ run.sent \in Reports
      /\ UNCHANGED <<sends, unrecorded, now>>
      /\ lastAttempt' = [lastAttempt EXCEPT ![run.sent] = run.at]
      /\ run' = [run EXCEPT !.sent = NoReport, !.delivered = FALSE]
  BY DEF RecordDelivery, Recorded, Runs
<1>2. /\ run' \in Runs /\ run'.stage = "process" /\ run'.at = run.at
      /\ run'.due = run.due /\ run'.sent = NoReport
  BY <1>1 DEF Runs
<1>3. run.at \in Nat /\ run.at >= 0 /\ run.at # NoAttempt
  BY DEF Runs, NoAttempt
<1>4. ReportTypes' /\ OncePerDay'
  BY <1>1, <1>2, <1>3 DEF OncePerDay
<1>5. \A x \in Reports, d \in Days : SentOn(x, d)' <=> SentOn(x, d)
  BY <1>1 DEF SentOn
<1>6. \A x \in Reports, d \in Days : SentOn(x, d) =>
        lastAttempt'[x] # NoAttempt /\ lastAttempt'[x] >= 0 /\ d <= DayOf(lastAttempt'[x])
  <2> TAKE x \in Reports, d \in Days
  <2> HAVE SentOn(x, d)
  <2>1. CASE run.sent # x
    BY <1>1, <2>1
  <2>2. CASE run.sent = x /\ d = DayOf(run.at)
    BY <1>1, <1>3, <2>2, DayFacts DEF Days
  <2>3. CASE run.sent = x /\ lastAttempt[x] # NoAttempt /\ lastAttempt[x] >= 0 /\ d <= DayOf(lastAttempt[x])
    <3>1. lastAttempt[x] \in Nat /\ lastAttempt[x] <= run.at
      BY <1>1, <2>3
    <3>2. DayOf(lastAttempt[x]) <= DayOf(run.at) /\ DayOf(run.at) \in Nat /\ DayOf(lastAttempt[x]) \in Nat
      BY <1>3, <3>1, DayFacts
    <3>3. d \in Int
      BY ReportsAssumption DEF Days
    <3> QED BY <1>1, <1>3, <2>3, <3>2, <3>3
  <2> QED BY <2>1, <2>2, <2>3
<1>7. \A x \in Reports :
        /\ lastAttempt'[x] <= run.at /\ lastAttempt'[x] <= now
        /\ x \in run.due => ~ SentOn(x, DayOf(run.at))
  BY <1>1, <1>3
<1>8. run.at <= now /\ DayOf(run.at) \in Days
  BY <1>1
<1>9. Attempted'
  <2> HIDE DEF ReportInv
  <2> QED BY <1>1, <1>2, <1>5, <1>6, <1>7, <1>8
<1> QED BY <1>4, <1>9

(* Where an attempt that is given up joins the days that lack a record.    *)
LEMMA GiveUp_Inv ==
  ASSUME ReportInv, run' \in Runs, run'.stage = "idle" \/ run'.stage = run.stage,
         run'.loaded = run.loaded \/ run'.stage = "idle",
         run'.at = run.at \/ (run'.at = 0 /\ run'.stage = "idle"),
         run'.due \subseteq run.due, run'.sent = NoReport,
         UNCHANGED <<lastAttempt, sends, now>>,
         run.sent = NoReport => unrecorded' = unrecorded,
         run.sent # NoReport => unrecorded' = Unrecorded
  PROVE  ReportInv'
<1> USE DEF ReportInv, ReportTypes, Attempted
<1>1. /\ unrecorded' \in [Reports -> SUBSET Int]
      /\ \A x \in Reports : unrecorded[x] \subseteq unrecorded'[x]
      /\ run.sent # NoReport => DayOf(run.at) \in unrecorded'[run.sent]
  <2>1. CASE run.sent = NoReport
    BY <2>1
  <2>2. CASE run.sent # NoReport
    <3>1. run.sent \in Reports /\ DayOf(run.at) \in Int
      BY <2>2, DayFacts DEF Runs
    <3> QED BY SMTT(30), <2>2, <3>1 DEF Unrecorded
  <2> QED BY <2>1, <2>2
<1>2. ReportTypes' /\ OncePerDay'
  BY <1>1 DEF OncePerDay
<1>3. \A x \in Reports, d \in Days :
        SentOn(x, d)' => SentOn(x, d) /\ ~ (run.sent = x /\ d = DayOf(run.at))
  BY <1>1, ReportsAssumption DEF SentOn
<1>4. \A x \in Reports, d \in Days : SentOn(x, d)' =>
        lastAttempt[x] # NoAttempt /\ lastAttempt[x] >= 0 /\ d <= DayOf(lastAttempt[x])
  BY <1>3
<1>5. \A x \in Reports :
        /\ lastAttempt[x] <= now
        /\ run.stage = "process" => lastAttempt[x] <= run.at
  OBVIOUS
<1>6. /\ run.at <= now /\ run'.at <= now
      /\ run'.stage = "loaded" => run'.loaded = lastAttempt
      /\ run'.stage # "process" => run'.sent = NoReport
      /\ run'.stage = "process" => DayOf(run'.at) \in Days
      /\ run'.stage = "process" => run.stage = "process" /\ run'.at = run.at
  BY DEF Runs
<1>7. \A x \in Reports :
        run'.stage = "process" /\ x \in run'.due => ~ SentOn(x, DayOf(run.at))
  BY <1>6
<1>8. \A x \in Reports :
        run'.stage = "process" /\ x \in run'.due =>
          ~ (sends'[x][DayOf(run'.at)] > 0 /\ DayOf(run'.at) \notin unrecorded'[x])
  BY <1>1, <1>6, <1>7 DEF SentOn
<1>9. Attempted'
  <2> HIDE DEF ReportInv
  <2>1. \A x \in Reports, d \in Days :
          sends'[x][d] > 0 /\ d \notin unrecorded'[x] =>
            lastAttempt[x] # NoAttempt /\ lastAttempt[x] >= 0 /\ d <= DayOf(lastAttempt[x])
    BY <1>4 DEF SentOn
  <2>2. run'.sent = NoReport /\ UNCHANGED <<lastAttempt, now>>
    OBVIOUS
  <2>3. \A x \in Reports : run'.stage = "process" => lastAttempt[x] <= run'.at
    BY <1>5, <1>6
  <2> QED BY <1>5, <1>6, <1>8, <2>1, <2>2, <2>3 DEF SentOn
<1> QED BY <1>2, <1>9

LEMMA ReportNext_Inv ==
  ASSUME ReportInv, [ReportNext]_<<reportVars, now>>
  PROVE  ReportInv'
<1>0. run \in Runs
  BY DEF ReportInv, ReportTypes
<1>1. CASE RecordFails
  BY <1>0, <1>1, GiveUp_Inv DEF RecordFails, Runs
<1>2. CASE EndRun
  BY <1>0, <1>2, GiveUp_Inv DEF EndRun, NoRun, Runs
<1>3. CASE SchedulerCrash
  BY <1>0, <1>3, GiveUp_Inv DEF SchedulerCrash, NoRun, Runs
<1>4. CASE (Elapse /\ UNCHANGED reportVars) \/ UNCHANGED <<reportVars, now>>
  <2>1. /\ UNCHANGED <<lastAttempt, run, sends, unrecorded>>
        /\ now' \in Nat /\ now <= now'
    BY <1>4 DEF Elapse, reportVars, ReportInv, ReportTypes
  <2>2. ReportTypes' /\ OncePerDay'
    BY <2>1 DEF ReportInv, ReportTypes, OncePerDay
  <2>3. \A r \in Reports, d \in Days : SentOn(r, d)' <=> SentOn(r, d)
    BY <2>1 DEF SentOn
  <2>4. run.stage = "process" => DayOf(run.at) \in Days
    BY DEF ReportInv, Attempted
  <2>5. Attempted'
    BY <2>1, <2>3, <2>4, <1>0 DEF Attempted, ReportInv, ReportTypes, Runs
  <2> QED BY <2>2, <2>5 DEF ReportInv
<1> QED BY <1>1, <1>2, <1>3, <1>4, LoadReports_Inv, SelectDue_Inv, Deliver_Inv,
           RecordDelivery_Inv DEF ReportNext

(* The runs of a day send a report once, unless an attempt of the day was  *)
(* not recorded (scheduler.go:172-176).                                    *)
THEOREM OncePerDayHolds == ReportSpec => []OncePerDay
<1>1. ReportInv => OncePerDay
  BY DEF ReportInv
<1> QED BY ReportInit_Inv, ReportNext_Inv, <1>1, PTL DEF ReportSpec

(* Months do not overlap, and each has the clamped day.                    *)
LEMMA MonthFacts ==
  ASSUME NEW m \in Months
  PROVE  /\ \A d \in MonthDays(m) : MonthOf(d) = m
         /\ MonthStart[m] + clampDay(AnchorDay, m) - 1 \in MonthDays(m)
         /\ MonthStart[m] \in Nat /\ clampDay(AnchorDay, m) \in Nat
<1>1. /\ MonthStart \in Seq(Nat) /\ Len(MonthStart) \in Nat
      /\ ShortestMonth \in Nat /\ ShortestMonth > 0 /\ AnchorDay \in Nat /\ AnchorDay > 0
      /\ \A i \in Months : MonthStart[i + 1] - MonthStart[i] >= ShortestMonth
  BY ReportsAssumption
<1>2. \A i \in 1 .. Len(MonthStart) : MonthStart[i] \in Nat
  BY <1>1, ElementOfSeq
<1>3. \A i \in Months : /\ i \in 1 .. Len(MonthStart) /\ i + 1 \in 1 .. Len(MonthStart)
                        /\ i \in Nat
  BY <1>1 DEF Months
<1>4. \A i \in 1 .. Len(MonthStart) : i + 1 <= Len(MonthStart) => i \in Months
  BY <1>1 DEF Months
<1>5. \A i \in Months : MonthStart[i] < MonthStart[i + 1]
  BY SMTT(30), <1>1, <1>2, <1>3
<1>6. \A i, j \in 1 .. Len(MonthStart) : i < j => MonthStart[i] < MonthStart[j]
  BY <1>1, <1>4, <1>5, Increasing
<1>7. ASSUME NEW p \in Months, NEW q \in Months, p < q, NEW d \in MonthDays(p), d \in MonthDays(q)
      PROVE  FALSE
  <2>1. p + 1 = q \/ p + 1 < q
    BY <1>3, <1>7
  <2>2. MonthStart[p + 1] <= MonthStart[q]
    <3>1. p + 1 \in 1 .. Len(MonthStart) /\ q \in 1 .. Len(MonthStart)
      BY <1>3
    <3>2. MonthStart[p + 1] \in Nat /\ MonthStart[q] \in Nat
      BY <1>2, <3>1
    <3>3. CASE p + 1 = q
      BY <3>2, <3>3
    <3>4. CASE p + 1 < q
      <4>1. MonthStart[p + 1] < MonthStart[q]
        BY <1>6, <3>1, <3>4
      <4> QED BY <3>2, <4>1
    <3> QED BY <2>1, <3>3, <3>4
  <2>3. d \in MonthStart[p] .. MonthStart[p + 1] - 1 /\ d \in MonthStart[q] .. MonthStart[q + 1] - 1
    BY <1>7 DEF MonthDays
  <2>4. MonthStart[p + 1] \in Nat /\ MonthStart[q] \in Nat
    BY <1>2, <1>3
  <2> QED BY <2>2, <2>3, <2>4
<1>8. ASSUME NEW d \in MonthDays(m)
      PROVE  MonthOf(d) = m
  <2>1. MonthOf(d) \in Months /\ d \in MonthDays(MonthOf(d))
    BY <1>8 DEF MonthOf
  <2>2. MonthOf(d) \in Nat /\ m \in Nat
    BY <1>3, <2>1
  <2>3. ~ (m < MonthOf(d)) /\ ~ (MonthOf(d) < m)
    BY <1>7, <1>8, <2>1
  <2> QED BY <2>2, <2>3
<1>9. MonthStart[m] \in Nat /\ MonthStart[m + 1] \in Nat
  BY <1>2, <1>3
<1> DEFINE last == MonthStart[m + 1] - MonthStart[m]
<1>10. last \in Nat /\ ShortestMonth <= last
  BY <1>1, <1>5, <1>9
<1>11. clampDay(AnchorDay, m) = IF AnchorDay <= ShortestMonth \/ AnchorDay <= last
                                THEN AnchorDay ELSE last
  BY DEF clampDay
<1>12. /\ MonthDays(m) = MonthStart[m] .. MonthStart[m] + last - 1
  BY <1>9 DEF MonthDays
<1> HIDE DEF last
<1>13. clampDay(AnchorDay, m) \in 1 .. last
  BY <1>1, <1>10, <1>11
<1> QED BY <1>8, <1>9, <1>10, <1>12, <1>13

(* What was looked at was attempted, on its days only.                     *)
Seen ==
  /\ looked \subseteq Days
  /\ \A r \in Reports, d \in Days : sends[r][d] > 0 => OnItsDay(r, d)
  /\ \A r \in Reports, d \in looked : OnItsDay(r, d) => sends[r][d] > 0
  /\ \A r \in Reports :
       lastAttempt[r] # NoAttempt => /\ DayOf(lastAttempt[r]) \in Days
                                     /\ sends[r][DayOf(lastAttempt[r])] > 0
  /\ run.sent # NoReport => sends[run.sent][DayOf(run.at)] > 0
  /\ run.stage = "process" =>
       \A r \in Reports :
         /\ r \in run.due => OnItsDay(r, DayOf(run.at))
         /\ run.at % DayLength >= DeliveryTime /\ OnItsDay(r, DayOf(run.at)) =>
              r \in run.due \/ sends[r][DayOf(run.at)] > 0

LEMMA SeenInit == ClockInit /\ ReportInit => Seen
BY DEF ReportInit, Seen, NoRun

(* Counting one attempt.                                                   *)
LEMMA Counted ==
  ASSUME NEW R, NEW D, NEW s \in [R -> [D -> Nat]], NEW r \in R, NEW k \in D,
         NEW x \in R, NEW d \in D, NEW t, t = [s EXCEPT ![r][k] = @ + 1]
  PROVE  /\ s[x][d] > 0 => t[x][d] > 0
         /\ t[x][d] > 0 => s[x][d] > 0 \/ (x = r /\ d = k)
         /\ t[r][k] > 0
<1>1. s[x][d] \in Nat /\ s[r][k] \in Nat
  OBVIOUS
<1>2. t[x][d] = IF x = r /\ d = k THEN s[x][d] + 1 ELSE s[x][d]
  OBVIOUS
<1>3. t[r][k] = s[r][k] + 1
  OBVIOUS
<1> QED BY <1>1, <1>2, <1>3

LEMMA SeenStep ==
  ASSUME ReportInv, Seen, [ReportNext]_<<reportVars, now>>
  PROVE  Seen'
<1>1. /\ run \in Runs /\ sends \in [Reports -> [Days -> Nat]] /\ run.at \in Nat
      /\ lastAttempt \in [Reports -> Int] /\ NoReport \notin Reports
      /\ run.stage = "loaded" => run.loaded = lastAttempt
      /\ run.stage # "process" => run.sent = NoReport
      /\ run.stage = "process" => DayOf(run.at) \in Days
      /\ run.due \subseteq Reports
  BY ReportsAssumption DEF ReportInv, ReportTypes, Attempted, Runs
<1>2. CASE LoadReports \/ (Elapse /\ UNCHANGED reportVars) \/ UNCHANGED <<reportVars, now>>
  <2>1. /\ UNCHANGED <<lastAttempt, sends, looked>>
        /\ UNCHANGED run \/ (run'.sent = NoReport /\ run'.stage = "loaded")
    <3>1. CASE LoadReports
      BY <3>1 DEF LoadReports, NoRun
    <3>2. CASE UNCHANGED reportVars
      BY <3>2 DEF reportVars
    <3> QED BY <1>2, <3>1, <3>2
  <2> QED BY <2>1 DEF Seen
<1>3. CASE SelectDue
  <2>1. /\ UNCHANGED <<lastAttempt, sends, looked>> /\ DayOf(now) \in Days
        /\ run.stage = "loaded"
        /\ run' = [run EXCEPT !.stage = "process", !.at = now,
                     !.due = {r \in Reports : reportDue(r, now, run.loaded[r])}]
    BY <1>3 DEF SelectDue
  <2>2. /\ run'.at = now /\ run'.sent = NoReport /\ run'.stage = "process"
        /\ run'.due = {r \in Reports : reportDue(r, now, lastAttempt[r])}
    BY <1>1, <2>1 DEF Runs
  <2>3. \A r \in Reports :
          /\ r \in run'.due => OnItsDay(r, DayOf(now))
          /\ now % DayLength >= DeliveryTime /\ OnItsDay(r, DayOf(now)) =>
               r \in run'.due \/ sends[r][DayOf(now)] > 0
    BY <2>2 DEF reportDue, Seen
  <2> QED BY <2>1, <2>2, <2>3 DEF Seen
<1>4. ASSUME NEW r \in Reports, Deliver(r)
      PROVE  Seen'
  <2>1. /\ UNCHANGED <<lastAttempt, looked>> /\ run.stage = "process" /\ r \in run.due
        /\ sends' = [sends EXCEPT ![r][DayOf(run.at)] = @ + 1]
    BY <1>4 DEF Deliver
  <2>2. PICK ok \in BOOLEAN :
          run' = [run EXCEPT !.due = run.due \ {r}, !.sent = r, !.delivered = ok]
    BY <1>4 DEF Deliver
  <2>3. /\ run'.at = run.at /\ run'.sent = r /\ run'.stage = run.stage
        /\ run'.due = run.due \ {r}
    BY <1>1, <2>2 DEF Runs
  <2>4. DayOf(run.at) \in Days /\ OnItsDay(r, DayOf(run.at))
    BY <1>1, <2>1 DEF Seen
  <2>5. ASSUME NEW x \in Reports, NEW d \in Days
        PROVE  /\ sends[x][d] > 0 => sends'[x][d] > 0
               /\ sends'[x][d] > 0 => sends[x][d] > 0 \/ (x = r /\ d = DayOf(run.at))
               /\ sends'[r][DayOf(run.at)] > 0
    <3>1. PICK day \in Days : day = DayOf(run.at) /\ sends' = [sends EXCEPT ![r][day] = @ + 1]
      BY <2>1, <2>4
    <3> QED BY <1>1, <3>1, Counted
  <2>6. ASSUME NEW x \in Reports, lastAttempt[x] # NoAttempt
        PROVE  DayOf(lastAttempt[x]) \in Days
    BY <1>1, <2>6 DEF Seen
  <2> QED BY <1>1, <2>1, <2>3, <2>4, <2>5, <2>6 DEF Seen
<1>5. CASE RecordDelivery
  <2>1. /\ UNCHANGED <<sends, looked>> /\ run.sent # NoReport
        /\ lastAttempt' = [lastAttempt EXCEPT ![run.sent] = run.at]
        /\ run' = [run EXCEPT !.sent = NoReport, !.delivered = FALSE]
    BY <1>5 DEF RecordDelivery, Recorded
  <2>2. /\ run'.at = run.at /\ run'.sent = NoReport /\ run'.stage = run.stage
        /\ run'.due = run.due
    BY <1>1, <2>1 DEF Runs
  <2>3. \A x \in Reports : lastAttempt'[x] # NoAttempt => sends[x][DayOf(lastAttempt'[x])] > 0
    BY <1>1, <2>1 DEF Seen
  <2>4. \A x \in Reports : lastAttempt'[x] # NoAttempt => DayOf(lastAttempt'[x]) \in Days
    BY <1>1, <2>1 DEF Seen
  <2> QED BY <2>1, <2>2, <2>3, <2>4 DEF Seen
<1>6. CASE RecordFails
  <2>1. /\ UNCHANGED <<lastAttempt, sends, looked>>
        /\ run' = [run EXCEPT !.sent = NoReport, !.delivered = FALSE]
    BY <1>6 DEF RecordFails
  <2>2. /\ run'.at = run.at /\ run'.sent = NoReport /\ run'.stage = run.stage
        /\ run'.due = run.due
    BY <1>1, <2>1 DEF Runs
  <2> QED BY <2>1, <2>2 DEF Seen
<1>7. CASE EndRun
  <2>1. /\ UNCHANGED <<lastAttempt, sends>> /\ run.stage = "process" /\ run.due = {}
        /\ run'.sent = NoReport /\ run'.stage = "idle"
        /\ looked' = IF run.at % DayLength >= DeliveryTime
                     THEN looked \union {DayOf(run.at)} ELSE looked
    BY <1>7 DEF EndRun, NoRun
  <2>2. ASSUME NEW r \in Reports, NEW d \in looked', OnItsDay(r, d)
        PROVE  sends[r][d] > 0
    BY <2>1, <2>2 DEF Seen
  <2> QED BY <1>1, <2>1, <2>2 DEF Seen
<1>8. CASE SchedulerCrash
  <2>1. /\ UNCHANGED <<lastAttempt, sends, looked>>
        /\ run'.sent = NoReport /\ run'.stage = "idle"
    BY <1>8 DEF SchedulerCrash, NoRun
  <2> QED BY <2>1 DEF Seen
<1> QED BY <1>2, <1>3, <1>4, <1>5, <1>6, <1>7, <1>8 DEF ReportNext

(* Every day a run looked at has its attempts.                             *)
LEMMA SeenAttempts ==
  ASSUME ReportTypes, Seen
  PROVE  EachPeriodAttempted
<1>1. /\ DailyReports \intersect (WeeklyReports \union MonthlyReports) = {}
      /\ WeeklyReports \intersect MonthlyReports = {}
  BY ReportsAssumption
<1>2. SUFFICES ASSUME NEW m \in Months, MonthDays(m) \subseteq looked
               PROVE  /\ \A r \in MonthlyReports : \E day \in MonthDays(m) :
                           {d \in MonthDays(m) : sends[r][d] > 0} = {day}
                      /\ \A r \in WeeklyReports, d \in MonthDays(m) :
                           d % WeekLength = AnchorDay % WeekLength => sends[r][d] > 0
                      /\ \A r \in DailyReports, d \in MonthDays(m) : sends[r][d] > 0
  BY DEF EachPeriodAttempted
<1>3. ASSUME NEW r \in Reports, NEW d \in MonthDays(m)
      PROVE  sends[r][d] > 0 <=> OnItsDay(r, d)
  BY <1>2, <1>3 DEF Seen
<1>4. ASSUME NEW r \in MonthlyReports
      PROVE  \E day \in MonthDays(m) : {d \in MonthDays(m) : sends[r][d] > 0} = {day}
  <2> DEFINE start == MonthStart[m]
             nth == clampDay(AnchorDay, m)
             day == start + nth - 1
  <2>1. /\ \A d \in MonthDays(m) : MonthOf(d) = m /\ d \in Int
        /\ day \in MonthDays(m) /\ start \in Nat /\ nth \in Nat
    BY MonthFacts DEF MonthDays
  <2>2. \A d \in MonthDays(m) : OnItsDay(r, d) <=> d - start + 1 = nth
    BY <1>1, <2>1 DEF OnItsDay
  <2>3. \A d \in MonthDays(m) : sends[r][d] > 0 <=> d - start + 1 = nth
    BY <1>3, <2>2 DEF Reports
  <2> HIDE DEF start, nth
  <2>4. \A d \in MonthDays(m) : d - start + 1 = nth <=> d = day
    BY <2>1
  <2> QED BY <2>1, <2>3, <2>4
<1>5. ASSUME NEW r \in WeeklyReports \union DailyReports, NEW d \in MonthDays(m),
             r \in WeeklyReports => d % WeekLength = AnchorDay % WeekLength
      PROVE  sends[r][d] > 0
  BY <1>1, <1>3, <1>5 DEF OnItsDay, Reports
<1> QED BY <1>1, <1>4, <1>5

(* In a month on each of whose days a run looked at the reports at or      *)
(* after the delivery time, a monthly report was attempted on one day,     *)
(* however short the month is (scheduler.go:390, 454), a weekly one on its *)
(* day of each week and a daily one on every day, wherever the process     *)
(* ended and whichever records failed.                                     *)
THEOREM EachPeriodAttemptedHolds == ReportSpec => []EachPeriodAttempted
<1>1. ReportInv /\ Seen => EachPeriodAttempted
  BY SeenAttempts DEF ReportInv
<1> QED BY ReportInit_Inv, ReportNext_Inv, SeenInit, SeenStep, <1>1, PTL DEF ReportSpec
-----------------------------------------------------------------------------
(***************************************************************************)
(* The migration runner.                                                   *)
(***************************************************************************)
Runners ==
  [stage : {"down", "bootstrap", "next", "apply", "record"},
   file : AllFiles \union {"none"}, at : Nat, found : SUBSET AllFiles, compat : BOOLEAN]

MigrationTypes ==
  /\ database \in {"neon", "clickhouse"}
  /\ events \in {"none", "props", "meta", "both"}
  /\ applied \in [AllFiles -> Nat]
  /\ recorded \in SUBSET AllFiles
  /\ runner \in Runners
  /\ data \in {"none", "kept", "lost"}

(* The runner is at a file that is not recorded, and comes to no file     *)
(* after 001 or after 007 before that is recorded.                        *)
FilesInOrder ==
  /\ recorded # {} => "001" \in recorded
  /\ runner.stage \in {"next", "apply", "record"} => runner.found \subseteq recorded
  /\ runner.stage = "next" => runner.at = 0
  /\ runner.stage \in {"apply", "record"} =>
       /\ runner.file \in AllFiles \ recorded
       /\ runner.file # "001" => "001" \in recorded
       /\ runner.file \notin {"001", "005", "007"} => "007" \in recorded

(* A database that was there before has the drops of 007 behind it, or is *)
(* taken for complete.                                                    *)
DataSafe ==
  /\ DataKept
  /\ runner.stage = "bootstrap" => events # "none"
  /\ data = "kept" /\ "bootstrap" \notin cut =>
       \/ "007" \in recorded
       \/ recorded = {} /\ events # "none" /\ runner.stage = "down"
       \/ runner.stage = "bootstrap"

Steady == cut \intersect {"first", "compat", "old"} = {}

Quiet == events = "meta" /\ \A f \in AllFiles : Complete(f)

(* What the table has, in a ClickHouse in which no process ended in a      *)
(* window that hides what was applied.                                     *)
TableKnown ==
  /\ runner.stage = "bootstrap" => Quiet
  /\ recorded = {} /\ events # "none" /\ runner.stage = "down" => Quiet
  /\ recorded = {} /\ runner.stage = "next" => events = "none"
  /\ database = "clickhouse" =>
       /\ "007" \in recorded => events # "none"
       /\ runner.file = "007" /\ runner.stage = "apply" /\ runner.at = 1 => events = "none"
       /\ runner.file = "007" /\ runner.stage = "record" => events = "meta"
       /\ runner.file = "011" /\ runner.stage = "apply" /\ runner.at >= 1 => events # "meta"
       /\ /\ runner.stage \in {"next", "apply", "record"}
          /\ ~ runner.compat /\ "007" \in recorded
          => events # "props"
       /\ events = "both" =>
            \/ "011" \in recorded
            \/ runner.file = "011" /\ runner.stage \in {"apply", "record"} /\ runner.at >= 2
       /\ "011" \notin recorded =>
            \/ applied["011"] = 0 \/ Complete("011")
            \/ events = "props" /\ "007" \in recorded
            \/ events = "both"

(* A file about to be recorded is applied, or is 011 and skipped.          *)
RecordReady ==
  runner.stage = "record" =>
    \/ Complete(runner.file)
    \/ /\ runner.file = "011" /\ database = "clickhouse"
       /\ ~ runner.compat /\ runner.at = 0

AppliedInv == RecordReady /\ RecordedIsApplied /\ (Steady => TableKnown)

MigrationInv == MigrationTypes /\ FilesInOrder /\ DataSafe /\ AppliedInv

(* The next file is not recorded, is 001 before that is recorded, and one  *)
(* of the first three before 007 is.                                       *)
LEMMA NextFacts ==
  ASSUME runner \in Runners, recorded \in SUBSET AllFiles, Todo # {}
  PROVE  /\ NextInOrder \in AllFiles \ (runner.found \union recorded)
         /\ "001" \notin runner.found \union recorded => NextInOrder = "001"
         /\ "007" \notin runner.found \union recorded =>
              NextInOrder \in {"001", "005", "007"}
<1> DEFINE order == Order(runner.compat)
<1>1. DOMAIN Files = 1 .. 6 /\ Todo \subseteq 1 .. 6
  BY DEF Files, Todo
<1>2. order \in {Files, <<"001", "005", "007", "008", "011", "010">>}
  BY DEF Order
<1>3. /\ order[1] = "001" /\ order[2] = "005" /\ order[3] = "007"
      /\ \A i \in 1 .. 6 : order[i] \in AllFiles
  <2>1. AllFiles = {"001", "005", "007", "008", "010", "011"}
    BY <1>1 DEF AllFiles, Files
  <2>2. \A i \in 1 .. 6 : i = 1 \/ i = 2 \/ i = 3 \/ i = 4 \/ i = 5 \/ i = 6
    OBVIOUS
  <2> QED BY <1>2, <2>1, <2>2 DEF Files
<1>4. \A i \in 1 .. 6 : i \in Todo <=> order[i] \notin runner.found \union recorded
  BY <1>1 DEF Todo
<1> DEFINE least == CHOOSE i \in Todo : \A j \in Todo : i <= j
<1>5. \E i \in Todo : \A j \in Todo : i <= j
  <2>1. CASE 1 \in Todo \/ 2 \in Todo \/ 3 \in Todo
    <3>1. CASE 1 \in Todo
      BY <1>1, <3>1
    <3>2. CASE 1 \notin Todo /\ 2 \in Todo
      BY <1>1, <3>2
    <3>3. CASE 1 \notin Todo /\ 2 \notin Todo /\ 3 \in Todo
      BY <1>1, <3>3
    <3> QED BY <2>1, <3>1, <3>2, <3>3
  <2>2. CASE 1 \notin Todo /\ 2 \notin Todo /\ 3 \notin Todo
    <3>1. \A i \in Todo : i = 4 \/ i = 5 \/ i = 6
      BY <1>1, <2>2
    <3>2. CASE 4 \in Todo
      BY <3>1, <3>2
    <3>3. CASE 4 \notin Todo /\ 5 \in Todo
      BY <3>1, <3>3
    <3>4. CASE 4 \notin Todo /\ 5 \notin Todo
      BY <3>1, <3>4
    <3> QED BY <3>2, <3>3, <3>4
  <2> QED BY <2>1, <2>2
<1>6. least \in Todo /\ \A j \in Todo : least <= j
  BY <1>5
<1>7. NextInOrder = order[least]
  BY DEF NextInOrder
<1> HIDE DEF order, least
<1>8. least \in 1 .. 6 /\ order[least] \notin runner.found \union recorded
  BY <1>1, <1>4, <1>6
<1>9. NextInOrder \in AllFiles \ (runner.found \union recorded)
  BY <1>3, <1>7, <1>8
<1>10. ASSUME "001" \notin runner.found \union recorded PROVE NextInOrder = "001"
  <2>1. 1 \in Todo
    BY <1>3, <1>4, <1>10
  <2>2. least = 1
    BY <1>6, <1>8, <2>1
  <2> QED BY <1>3, <1>7, <2>2
<1>11. ASSUME "007" \notin runner.found \union recorded
       PROVE  NextInOrder \in {"001", "005", "007"}
  <2>1. 3 \in Todo
    BY <1>3, <1>4, <1>11
  <2>2. least = 1 \/ least = 2 \/ least = 3
    BY <1>6, <1>8, <2>1
  <2> QED BY <1>3, <1>7, <2>2
<1> QED BY <1>9, <1>10, <1>11

LEMMA FileFacts ==
  /\ AllFiles = {"001", "005", "007", "008", "010", "011"}
  /\ \A i \in DOMAIN Files : Files[i] \in AllFiles
  /\ DOMAIN Files = 1 .. 6 /\ Files[1] = "001"
BY DEF AllFiles, Files

LEMMA MigrationInit_Inv == MigrationInit => MigrationInv
<1> SUFFICES ASSUME MigrationInit PROVE MigrationInv
  OBVIOUS
<1> USE DEF MigrationInit, Down
<1>1. MigrationTypes
  BY FileFacts DEF MigrationTypes, Runners, NothingApplied, Statements
<1>2. FilesInOrder /\ DataSafe
  BY FileFacts DEF FilesInOrder, DataSafe, DataKept
<1>3. RecordReady
  BY DEF RecordReady
<1>4. RecordedIsApplied
  BY FileFacts DEF RecordedIsApplied, NothingApplied, Complete, Statements
<1>5. Steady => TableKnown
  BY FileFacts DEF Steady, TableKnown, Quiet, NothingApplied, Complete, Statements
<1> QED BY <1>1, <1>2, <1>3, <1>4, <1>5 DEF MigrationInv, AppliedInv

(* The types, and what no process ended in a window that matters says once *)
(* it has, are kept by every step.                                         *)
LEMMA MigrationTypes_Step ==
  ASSUME MigrationInv, MigrationNext
  PROVE  MigrationTypes'
<1> USE FileFacts DEF MigrationInv, MigrationTypes, Runners, Kept
<1>1. CASE StartRunner
  BY <1>1 DEF StartRunner, CompatRequired
<1>2. CASE Bootstrap
  BY <1>2 DEF Bootstrap, Down
<1>3. CASE Record
  BY <1>3 DEF Record, FilesInOrder
<1>4. CASE Stop \/ Fail
  <2>1. runner' = Down /\ UNCHANGED <<database, events, applied, recorded, data>>
    BY <1>4 DEF Stop, Fail
  <2> QED BY <2>1 DEF Down
<1>5. CASE NextFile
  BY <1>5, NextFacts DEF NextFile, Down
<1>6. CASE ApplyStatement
  <2>1. events' \in {"none", "props", "meta", "both"}
    BY <1>6 DEF ApplyStatement, EventsAfter
  <2>2. runner.at + 1 \in Nat /\ runner.file \in AllFiles
    BY <1>6 DEF ApplyStatement, FilesInOrder
  <2> QED BY <1>6, <2>1, <2>2 DEF ApplyStatement
<1> QED BY <1>1, <1>2, <1>3, <1>4, <1>5, <1>6 DEF MigrationNext, Migrate

LEMMA FilesInOrder_Step ==
  ASSUME MigrationInv, MigrationNext
  PROVE  FilesInOrder'
<1> USE FileFacts DEF MigrationInv, FilesInOrder, Kept
<1>0. runner \in Runners /\ recorded \in SUBSET AllFiles
  BY DEF MigrationTypes
<1>1. CASE StartRunner \/ Stop \/ Fail
  BY <1>0, <1>1 DEF StartRunner, Stop, Fail, Down
<1>2. CASE Bootstrap
  <2>1. PICK i \in DOMAIN Files :
          /\ \A j \in 1 .. i - 1 : Files[j] \in recorded
          /\ recorded' = recorded \union {Files[i]}
    BY <1>2 DEF Bootstrap
  <2>2. "001" \in recorded'
    BY <2>1
  <2> QED BY <1>0, <1>2, <2>2 DEF Bootstrap, Down
<1>3. CASE Record
  BY <1>0, <1>3 DEF Record, Runners
<1>4. CASE NextFile
  <2>1. CASE Todo = {}
    BY <1>4, <2>1 DEF NextFile, Down
  <2>2. CASE Todo # {}
    BY <1>0, <1>4, <2>2, NextFacts DEF NextFile, Runners
  <2> QED BY <2>1, <2>2
<1>5. CASE ApplyStatement
  BY <1>0, <1>5 DEF ApplyStatement, Runners
<1> QED BY <1>1, <1>2, <1>3, <1>4, <1>5 DEF MigrationNext, Migrate

LEMMA DataSafe_Step ==
  ASSUME MigrationInv, MigrationNext
  PROVE  DataSafe'
<1> USE FileFacts DEF MigrationInv, DataSafe, DataKept, Kept
<1>0. /\ runner \in Runners /\ recorded \in SUBSET AllFiles
      /\ events \in {"none", "props", "meta", "both"} /\ data \in {"none", "kept", "lost"}
  BY DEF MigrationTypes
<1>1. CASE StartRunner
  BY <1>0, <1>1 DEF StartRunner, Bootstraps
<1>2. CASE Bootstrap
  BY <1>0, <1>2 DEF Bootstrap, Down
<1>3. CASE NextFile
  <2>1. runner'.stage \in {"down", "apply", "record"}
    BY <1>0, <1>3 DEF NextFile, Down, Runners
  <2> QED BY <1>3, <2>1 DEF NextFile
<1>4. CASE ApplyStatement
  <2>1. runner'.stage \in {"apply", "record"}
    BY <1>0, <1>4 DEF ApplyStatement, Runners
  <2>2. events # "none" /\ events' = "none" => runner.file = "007"
    BY <1>4 DEF ApplyStatement, EventsAfter
  <2>3. runner.file = "007" => "007" \notin recorded
    BY <1>4 DEF ApplyStatement, FilesInOrder
  <2> QED BY <1>0, <1>4, <2>1, <2>2, <2>3 DEF ApplyStatement
<1>5. CASE Record
  BY <1>0, <1>5 DEF Record, Runners
<1>6. CASE Stop
  <2>1. runner.stage = "bootstrap" /\ recorded # {} => "bootstrap" \in cut'
    BY <1>6 DEF Stop, Window
  <2>2. cut \subseteq cut'
    BY <1>6 DEF Stop
  <2> QED BY <1>0, <1>6, <2>1, <2>2 DEF Stop, Down
<1>7. CASE Fail
  BY <1>0, <1>7 DEF Fail, Down
<1> QED BY <1>1, <1>2, <1>3, <1>4, <1>5, <1>6, <1>7 DEF MigrationNext, Migrate

LEMMA RecordReady_Step ==
  ASSUME MigrationInv, MigrationNext
  PROVE  RecordReady'
<1> USE FileFacts DEF MigrationInv, AppliedInv, RecordReady, Complete, Statements, Kept
<1>0. /\ runner \in Runners /\ recorded \in SUBSET AllFiles /\ applied \in [AllFiles -> Nat]
  BY DEF MigrationTypes
<1>1. CASE StartRunner \/ Stop \/ Fail \/ Bootstrap
  BY <1>0, <1>1 DEF StartRunner, Stop, Fail, Bootstrap, Down
<1>2. CASE NextFile
  <2>1. CASE Todo = {}
    BY <1>2, <2>1 DEF NextFile, Down
  <2>2. CASE Todo # {}
    BY <1>0, <1>2, <2>2, NextFacts DEF NextFile, FilesInOrder, Runners
  <2> QED BY <2>1, <2>2
<1>3. CASE ApplyStatement
  BY <1>0, <1>3 DEF ApplyStatement, FilesInOrder, Runners
<1>4. CASE Record
  BY <1>0, <1>4 DEF Record, Runners
<1> QED BY <1>1, <1>2, <1>3, <1>4 DEF MigrationNext, Migrate

LEMMA RecordedIsApplied_Step ==
  ASSUME MigrationInv, MigrationNext
  PROVE  RecordedIsApplied'
<1> USE FileFacts DEF MigrationInv, AppliedInv
<1>0. /\ runner \in Runners /\ recorded \in SUBSET AllFiles /\ applied \in [AllFiles -> Nat]
  BY DEF MigrationTypes
<1>c. cut \subseteq cut' /\ database' = database
  BY DEF MigrationNext, Migrate, StartRunner, Bootstrap, NextFile, ApplyStatement, Record,
         Stop, Fail, Kept
<1>1. CASE UNCHANGED <<events, applied, recorded>>
  BY <1>1, <1>c DEF RecordedIsApplied, Complete, Statements
<1>2. CASE Bootstrap
  <2>1. Steady => Quiet
    BY <1>2 DEF Bootstrap, TableKnown
  <2>2. recorded' \in SUBSET AllFiles /\ UNCHANGED <<applied, events, cut, database>>
    BY <1>0, <1>2 DEF Bootstrap
  <2> QED BY <2>1, <2>2 DEF RecordedIsApplied, Steady, Quiet, Complete, Statements
<1>3. CASE ApplyStatement
  <2>1. /\ runner.file \notin recorded
        /\ runner.file = "001" => recorded = {}
    BY <1>3 DEF ApplyStatement, FilesInOrder
  <2>2. events' = "props" => events = "props" \/ runner.file = "001"
    BY <1>3 DEF ApplyStatement, EventsAfter
  <2>3. /\ \A f \in recorded : applied'[f] = applied[f]
        /\ UNCHANGED <<recorded, cut, database>>
    BY <1>0, <1>3, <2>1 DEF ApplyStatement
  <2> QED BY <2>1, <2>2, <2>3 DEF RecordedIsApplied, Complete, Statements
<1>4. CASE Record
  <2>1. /\ recorded' = recorded \union {runner.file} /\ runner.file \notin recorded
        /\ UNCHANGED <<applied, events, cut, database>> /\ runner.stage = "record"
    BY <1>4 DEF Record, FilesInOrder
  <2>2. Steady => Complete(runner.file)
                  \/ /\ runner.file = "011" /\ applied["011"] = 0 /\ events # "props"
                     /\ database = "clickhouse"
    <3>1. CASE Complete(runner.file)
      BY <3>1
    <3>2. CASE ~ Complete(runner.file) /\ Steady
      <4>1. /\ runner.file = "011" /\ database = "clickhouse"
            /\ ~ runner.compat /\ runner.at = 0
        BY <2>1, <3>2 DEF RecordReady
      <4>2. "007" \in recorded /\ "011" \notin recorded
        BY <2>1, <4>1 DEF FilesInOrder
      <4>3. events # "props" /\ events # "both"
        BY <2>1, <3>2, <4>1, <4>2 DEF TableKnown
      <4>4. applied["011"] = 0
        BY <3>2, <4>1, <4>2, <4>3 DEF TableKnown
      <4> QED BY <4>1, <4>3, <4>4
    <3> QED BY <3>1, <3>2
  <2> QED BY <2>1, <2>2 DEF RecordedIsApplied, Steady, Complete, Statements
<1> QED BY <1>1, <1>2, <1>3, <1>4
        DEF MigrationNext, Migrate, StartRunner, NextFile, Stop, Fail, Kept

(* A statement of a file that is not recorded.                             *)
LEMMA TableKnown_Apply ==
  ASSUME MigrationInv, ApplyStatement, Steady'
  PROVE  TableKnown'
<1> USE FileFacts DEF MigrationInv, AppliedInv
<1>0. /\ runner \in Runners /\ recorded \in SUBSET AllFiles /\ applied \in [AllFiles -> Nat]
      /\ events \in {"none", "props", "meta", "both"}
      /\ database \in {"neon", "clickhouse"}
  BY DEF MigrationTypes
<1> DEFINE f == runner.file
           n == runner.at + 1
<1>1. /\ runner.stage = "apply" /\ ~ StatementFails(f, n)
      /\ events' = EventsAfter(f, n)
      /\ f \in AllFiles \ recorded /\ n \in Nat /\ n > 0
      /\ applied' = [applied EXCEPT ![f] = n] /\ applied'[f] = n
      /\ UNCHANGED <<database, recorded, cut>>
      /\ runner'.file = f /\ runner'.at = n /\ runner'.compat = runner.compat
      /\ runner'.stage = IF n = Statements(f) THEN "record" ELSE "apply"
  BY <1>0 DEF ApplyStatement, FilesInOrder, Runners
<1>t. TableKnown
  BY <1>1 DEF Steady
<1>2. /\ f # "001" => "001" \in recorded
      /\ f \notin {"001", "005", "007"} => "007" \in recorded
      /\ f = "001" => recorded = {}
  BY <1>1 DEF FilesInOrder
<1>a. runner.at \in Nat /\ n = runner.at + 1
  BY <1>0 DEF Runners
<1> HIDE DEF MigrationInv, f, n
<1>3. runner'.stage \in {"apply", "record"} /\ runner'.compat = runner.compat
  BY <1>1
<1> SUFFICES ASSUME database = "clickhouse"
             PROVE  /\ "007" \in recorded => events' # "none"
                    /\ f = "007" /\ runner'.stage = "apply" /\ n = 1 => events' = "none"
                    /\ f = "007" /\ runner'.stage = "record" => events' = "meta"
                    /\ f = "011" /\ n >= 1 => events' # "meta"
                    /\ ~ runner.compat /\ "007" \in recorded => events' # "props"
                    /\ events' = "both" => "011" \in recorded \/ (f = "011" /\ n >= 2)
                    /\ "011" \notin recorded =>
                         \/ applied'["011"] = 0 \/ applied'["011"] = 3
                         \/ events' = "props" /\ "007" \in recorded
                         \/ events' = "both"
  BY <1>1, <1>3 DEF TableKnown, Complete, Statements
<1>4. /\ "007" \in recorded => events # "none"
      /\ f = "007" /\ runner.at = 1 => events = "none"
      /\ f = "011" /\ runner.at >= 1 => events # "meta"
      /\ ~ runner.compat /\ "007" \in recorded => events # "props"
      /\ events = "both" => "011" \in recorded \/ (f = "011" /\ runner.at >= 2)
      /\ "011" \notin recorded =>
           \/ applied["011"] = 0 \/ applied["011"] = 3
           \/ events = "props" /\ "007" \in recorded
           \/ events = "both"
  BY <1>1, <1>t DEF TableKnown, Complete, Statements, f
<1>5. f # "011" => applied'["011"] = applied["011"]
  BY <1>0, <1>1
<1>6. CASE f = "001"
  BY <1>0, <1>1, <1>2, <1>4, <1>5, <1>6 DEF EventsAfter, Statements
<1>7. CASE f = "007"
  <2>1. n = 1 => events' = "none"
    BY <1>1, <1>7 DEF EventsAfter, Statements
  <2>2. n = 2 => events' = "meta"
    BY <1>1, <1>4, <1>7, <1>a DEF EventsAfter, Statements
  <2>3. n # 1 /\ n # 2 => events' = events
    BY <1>1, <1>7 DEF EventsAfter, Statements
  <2>4. runner'.stage = "record" => n = 2
    BY <1>1, <1>7 DEF Statements
  <2> QED BY <1>0, <1>1, <1>4, <1>5, <1>7, <2>1, <2>2, <2>3, <2>4
<1>8. CASE f \in {"005", "008", "010"}
  <2>1. events' = events
    BY <1>1, <1>8 DEF EventsAfter
  <2> QED BY <1>0, <1>1, <1>4, <1>5, <1>8, <2>1
<1>9. CASE f = "011"
  <2>1. /\ events' = IF n = 2 /\ events = "props" THEN "both" ELSE events
        /\ applied'["011"] = n
    BY <1>1, <1>9 DEF EventsAfter
  <2>2. n # 2 => events # "meta"
    BY <1>1, <1>9 DEF StatementFails
  <2>3. n = 1 \/ n = 2 \/ n > 2
    BY <1>a
  <2> QED BY <1>0, <1>1, <1>2, <1>4, <1>9, <1>a, <2>1, <2>2, <2>3 DEF Statements
<1> QED BY <1>1, <1>6, <1>7, <1>8, <1>9

LEMMA TableKnown_Step ==
  ASSUME MigrationInv, MigrationNext, Steady'
  PROVE  TableKnown'
<1> USE FileFacts DEF MigrationInv, AppliedInv
<1>0. /\ runner \in Runners /\ recorded \in SUBSET AllFiles /\ applied \in [AllFiles -> Nat]
      /\ events \in {"none", "props", "meta", "both"}
      /\ database \in {"neon", "clickhouse"}
  BY DEF MigrationTypes
<1>c. cut \subseteq cut' /\ database' = database
  BY DEF MigrationNext, Migrate, StartRunner, Bootstrap, NextFile, ApplyStatement, Record,
         Stop, Fail, Kept
<1>t. TableKnown
  BY <1>c DEF Steady
<1>s. UNCHANGED <<events, applied, database>> => (Quiet' <=> Quiet)
  BY DEF Quiet, Complete, Statements
<1>1. CASE StartRunner
  BY <1>0, <1>1, <1>t, <1>s
     DEF StartRunner, Bootstraps, CompatRequired, Kept, TableKnown, Complete, Statements
<1>2. CASE Bootstrap
  <2>1. Quiet /\ Quiet'
    BY <1>2, <1>t, <1>s DEF Bootstrap, TableKnown
  <2>2. events' = "meta" /\ Complete("011")' /\ recorded' # {}
        /\ runner'.stage \in {"bootstrap", "down"}
    BY <1>2, <2>1 DEF Bootstrap, Quiet, Down
  <2> QED BY <2>1, <2>2 DEF TableKnown
<1>3. CASE NextFile
  <2>1. CASE Todo = {}
    <3>1. runner' = Down /\ UNCHANGED Kept /\ runner.stage = "next"
      BY <1>3, <2>1 DEF NextFile
    <3> QED BY <1>0, <1>t, <1>s, <3>1 DEF Down, Kept, TableKnown, Complete, Statements
  <2>2. CASE Todo # {}
    <3>1. /\ runner' = [runner EXCEPT !.file = NextInOrder, !.stage = runner'.stage]
          /\ runner'.stage \in {"apply", "record"}
          /\ runner'.stage = "record" => NextInOrder = "011"
          /\ UNCHANGED Kept /\ runner.stage = "next" /\ runner.at = 0
      BY <1>0, <1>3, <2>2 DEF NextFile, Runners, FilesInOrder
    <3>2. /\ runner'.at = 0 /\ runner'.compat = runner.compat
          /\ runner'.stage = "record" => runner'.file = "011"
      BY <1>0, <3>1 DEF Runners
    <3>3. Complete("011")' <=> Complete("011")
      BY <3>1 DEF Kept, Complete, Statements
    <3>4. events # "both" \/ "011" \in recorded \/ database # "clickhouse"
      BY <1>t, <3>1 DEF TableKnown
    <3> HIDE DEF MigrationInv
    <3> QED BY <1>0, <1>t, <3>1, <3>2, <3>3, <3>4 DEF Kept, TableKnown
  <2> QED BY <2>1, <2>2
<1>4. CASE Record
  <2>1. /\ recorded' = recorded \union {runner.file} /\ runner.file \notin recorded
        /\ UNCHANGED <<applied, events, cut, database>> /\ runner.stage = "record"
        /\ runner'.stage = "next" /\ runner'.file = "none" /\ runner'.at = 0
        /\ runner'.compat = runner.compat /\ runner.file \in AllFiles
    BY <1>0, <1>4 DEF Record, FilesInOrder, Runners
  <2> QED BY <1>0, <1>t, <2>1 DEF TableKnown, Complete, Statements
<1>5. CASE Stop
  <2>1. runner' = Down /\ UNCHANGED <<database, events, applied, recorded>>
    BY <1>5 DEF Stop
  <2>2. Window \intersect {"first", "compat"} = {}
    BY <1>5 DEF Stop, Steady
  <2>3. /\ ~ (recorded = {} /\ events # "none" /\ runner.stage \in {"apply", "record"})
        /\ ~ (events = "both" /\ runner.file = "011")
    BY <2>2 DEF Window
  <2>4. recorded = {} /\ events # "none" => Quiet
    BY <1>0, <1>t, <2>3 DEF TableKnown, Runners
  <2> QED BY <1>0, <1>t, <1>s, <2>1, <2>3, <2>4 DEF Down, TableKnown, Complete, Statements
<1>6. CASE Fail
  <2>1. runner' = Down /\ UNCHANGED Kept
    BY <1>6 DEF Fail
  <2>2. /\ runner.stage = "apply" /\ runner.file \in {"005", "008", "010", "011"}
        /\ events \in {"meta", "props"}
    BY <1>6 DEF Fail, StatementFails
  <2>3. recorded # {}
    BY <2>2 DEF FilesInOrder
  <2> QED BY <1>0, <1>t, <2>1, <2>2, <2>3 DEF Down, Kept, TableKnown, Complete, Statements
<1> QED BY <1>1, <1>2, <1>3, <1>4, <1>5, <1>6, TableKnown_Apply DEF MigrationNext, Migrate

LEMMA MigrationNext_Inv == MigrationInv /\ [MigrationNext]_migrationVars => MigrationInv'
<1> SUFFICES ASSUME MigrationInv, [MigrationNext]_migrationVars PROVE MigrationInv'
  OBVIOUS
<1>1. CASE MigrationNext
  <2>1. (Steady => TableKnown)'
    BY <1>1, TableKnown_Step
  <2> QED BY <1>1, <2>1, MigrationTypes_Step, FilesInOrder_Step, DataSafe_Step,
             RecordReady_Step, RecordedIsApplied_Step DEF MigrationInv, AppliedInv
<1>2. CASE UNCHANGED migrationVars
  BY <1>2 DEF migrationVars, MigrationInv, MigrationTypes, FilesInOrder, DataSafe, DataKept,
              AppliedInv, RecordReady, RecordedIsApplied, Steady, TableKnown, Quiet,
              Complete, Statements
<1> QED BY <1>1, <1>2

(* The data that was there before the runner is dropped only after a       *)
(* process ended while it recorded the files of that database              *)
(* (runner.go:248).                                                        *)
THEOREM DataKeptHolds == MigrationSpec => []DataKept
<1>1. MigrationInv => DataKept
  BY DEF MigrationInv, DataSafe
<1> QED BY MigrationInit_Inv, MigrationNext_Inv, <1>1, PTL DEF MigrationSpec

(* What is recorded is applied, unless a process ended in one of the       *)
(* windows that hide it, or the database was an old one with no record     *)
(* (runner.go:57, 61).                                                     *)
THEOREM RecordedIsAppliedHolds == MigrationSpec => []RecordedIsApplied
<1>1. MigrationInv => RecordedIsApplied
  BY DEF MigrationInv, AppliedInv
<1> QED BY MigrationInit_Inv, MigrationNext_Inv, <1>1, PTL DEF MigrationSpec
=============================================================================
