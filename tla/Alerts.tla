------------------------------- MODULE Alerts -------------------------------
(***************************************************************************)
(* The alert checker, alerts/checker.go.  Every instance of the API runs   *)
(* one against the alerts in the control plane's database: it loads them,  *)
(* and for each whose cooldown is over and whose condition holds it        *)
(* records a firing, notifies the alert's channels one after another,      *)
(* records each attempt, and at last writes last_fired_at.  Every write    *)
(* may fail, and its error is ignored.                                     *)
(*                                                                         *)
(* Firings are numbered.  A firing has one clock reading, in nanoseconds,  *)
(* that no other has, so that the ids made of it, fir_... and del_..., are *)
(* the firing's number.                                                    *)
(***************************************************************************)
EXTENDS Clock, TLC

CONSTANTS
  AlertIDs,
  Channels,         \* the channels of an alert
  CheckerInstances,
  AlertPeriod,      \* period of an alert, in ticks
  MaxFirings,       \* bound on the firings
  MaxFailures       \* bound on the writes that fail and the crashes

ASSUME AlertsAssumption ==
  /\ AlertPeriod \in Nat \ {0}
  /\ MaxFirings \in Nat
  /\ MaxFailures \in Nat

VARIABLES
  lastFired,   \* analytics_alerts.last_fired_at; NotFired is NULL
  fired,       \* analytics_alert_firings
  attempts,    \* analytics_alert_delivery_attempts: firing and channel of
               \*   each id
  round,       \* runOnce of an instance: the alerts still to be processed,
               \*   with last_fired_at as loaded; the alert that fires, its
               \*   firing, and the channels still to be notified
  firings,     \* firings so far
  failures,    \* failures so far
  history      \* history, per instance and alert: when it fired last,
               \*   whether that firing's last_fired_at was written, and the
               \*   shortest time between a firing so written and the next

alertVars == <<lastFired, fired, attempts, round, firings, failures, history>>

NotFired == 0 - AlertPeriod
NoAlert == "none"

Asleep == [todo |-> {}, loaded |-> << >>, alert |-> NoAlert, firing |-> 0, channels |-> {}]
Unfired == [at |-> NotFired, written |-> TRUE, shortest |-> AlertPeriod]

AlertInit ==
  /\ lastFired = [a \in AlertIDs |-> NotFired]
  /\ fired = {}
  /\ attempts = << >>
  /\ round = [i \in CheckerInstances |-> Asleep]
  /\ firings = 0
  /\ failures = 0
  /\ history = [i \in CheckerInstances |-> [a \in AlertIDs |-> Unfired]]
-----------------------------------------------------------------------------
Failing == failures < MaxFailures /\ failures' = failures + 1

(* runOnce, by the ticker or at the start: loadAlerts.                     *)
LoadAlerts(i) ==
  /\ round[i] = Asleep
  /\ round' = [round EXCEPT ![i].todo = AlertIDs, ![i].loaded = lastFired]
  /\ UNCHANGED <<lastFired, fired, attempts, firings, failures, history, now>>

(* Seeded defect: the cooldown ends one tick early.                        *)
CoolingDownShort(i, a) == round[i].loaded[a] + AlertPeriod - 1 > now

(* The cooldown, by last_fired_at as it was loaded.                        *)
CoolingDown(i, a) == round[i].loaded[a] + AlertPeriod > now

(* Nothing is left of the alert in this round.                             *)
Settled(r, a) ==
  LET left == [r EXCEPT !.todo = @ \ {a}, !.alert = NoAlert, !.channels = {}, !.firing = 0]
  IN IF left.todo = {} THEN Asleep ELSE left

(* processAlert: it is cooling down, the summary fails, or its condition   *)
(* does not hold.                                                          *)
Pass(i, a) ==
  /\ a \in round[i].todo /\ round[i].alert = NoAlert
  /\ round' = [round EXCEPT ![i] = Settled(@, a)]
  /\ UNCHANGED <<lastFired, fired, attempts, firings, failures, history, now>>

(* processAlert: the condition holds, and recordFiring.                    *)
Fire(i, a) ==
  /\ a \in round[i].todo /\ round[i].alert = NoAlert
  /\ ~ CoolingDown(i, a)
  /\ firings < MaxFirings
  /\ firings' = firings + 1
  /\ \/ fired' = fired \union {firings'} /\ UNCHANGED failures
     \/ Failing /\ UNCHANGED fired
  /\ round' = [round EXCEPT ![i].alert = a, ![i].firing = firings', ![i].channels = Channels]
  /\ history' = [history EXCEPT ![i][a] =
       [at |-> now, written |-> FALSE,
        shortest |-> IF @.written /\ now - @.at < @.shortest THEN now - @.at ELSE @.shortest]]
  /\ UNCHANGED <<lastFired, attempts, now>>

(* The id of an attempt, in recordDelivery.                                *)
AttemptID(firing, channel) == firing

(* dispatchChannel and recordDelivery.  The insert fails, unheard, where   *)
(* the id is taken, the firing is not there, or the database does not      *)
(* answer.                                                                 *)
Dispatch(i, c) ==
  LET firing == round[i].firing
      id == AttemptID(firing, c)
      accepted == id \notin DOMAIN attempts /\ firing \in fired
  IN /\ c \in round[i].channels
     /\ \/ /\ attempts' = IF accepted THEN attempts @@ (id :> <<firing, c>>) ELSE attempts
           /\ UNCHANGED failures
        \/ Failing /\ UNCHANGED attempts
     /\ round' = [round EXCEPT ![i].channels = @ \ {c}]
     /\ UNCHANGED <<lastFired, fired, firings, history, now>>

(* last_fired_at = now(), the database's clock when the update arrives.    *)
WriteLastFired(i) ==
  LET a == round[i].alert
  IN /\ a # NoAlert /\ round[i].channels = {}
     /\ \/ /\ lastFired' = [lastFired EXCEPT ![a] = now]
           /\ history' = [history EXCEPT ![i][a].written = TRUE]
           /\ UNCHANGED failures
        \/ Failing /\ UNCHANGED <<lastFired, history>>
     /\ round' = [round EXCEPT ![i] = Settled(@, a)]
     /\ UNCHANGED <<fired, attempts, firings, now>>

(* The process ends and starts again.                                      *)
CheckerCrash(i) ==
  /\ round[i] # Asleep
  /\ Failing
  /\ round' = [round EXCEPT ![i] = Asleep]
  /\ UNCHANGED <<lastFired, fired, attempts, firings, history, now>>

AlertNext ==
  \/ \E i \in CheckerInstances :
       LoadAlerts(i) \/ WriteLastFired(i) \/ CheckerCrash(i)
  \/ \E i \in CheckerInstances, a \in AlertIDs : Pass(i, a) \/ Fire(i, a)
  \/ \E i \in CheckerInstances, c \in Channels : Dispatch(i, c)
  \/ Elapse /\ UNCHANGED alertVars

AlertSpec == ClockInit /\ AlertInit /\ [][AlertNext]_<<alertVars, now>>
-----------------------------------------------------------------------------
(* An instance fires an alert at most once per period: a firing follows    *)
(* the one before no sooner than the alert's period, unless the write of   *)
(* last_fired_at failed or a crash came before it (checker.go:314), and    *)
(* however long notifying takes and whatever other instances write.        *)
OncePerPeriod ==
  \A i \in CheckerInstances, a \in AlertIDs : history[i][a].shortest >= AlertPeriod

(* docs/revamp/pages/14-alerts.md:45-57: an alert can have several         *)
(* channels, and the history holds the delivery status of a firing.  While *)
(* no write fails, each channel a firing has notified has its attempt.     *)
EveryDeliveryRecorded ==
  failures = 0 =>
    \A i \in CheckerInstances :
      round[i].alert # NoAlert =>
        \A c \in Channels \ round[i].channels :
          \E id \in DOMAIN attempts : attempts[id] = <<round[i].firing, c>>
=============================================================================
