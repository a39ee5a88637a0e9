------------------------------- MODULE Funnel -------------------------------
(***************************************************************************)
(* The funnel of the dashboard (storage/dashboard_funnel.go and            *)
(* dashboard_funnel_entities.go): how far through a list of steps one      *)
(* visitor, or one session, got within a window of time.  A query reads    *)
(* the events of the entity in the order of their timestamps and searches  *)
(* them with one greedy walk per event that matches the first step.        *)
(*                                                                         *)
(* What an event matches is data: an event is the set of steps it matches, *)
(* any set, for a page may be the value of one step, have that of another  *)
(* as a prefix, and be both the first step and the last.  The order of     *)
(* events with the same timestamp is whatever compareDashboardEvents makes *)
(* of it; here they come in every order.                                   *)
(***************************************************************************)
EXTENDS Clock, Sequences

CONSTANTS
  FunnelSteps,    \* how many steps the funnel has
  FunnelWindow,   \* windowMinutes
  FunnelMatches,  \* what an event may match: sets of steps
  MaxTrail        \* bound on the events of the entity

ASSUME FunnelAssumption ==
  /\ FunnelSteps \in Nat \ {0}
  /\ FunnelWindow \in Nat
  /\ FunnelMatches \subseteq SUBSET (1 .. FunnelSteps)
  /\ MaxTrail \in Nat

VARIABLE trail    \* entityEvents, sorted: [at, matches] each

FunnelInit == trail = << >>

(* One more event of the entity is stored.                                 *)
Occur(matches) ==
  /\ Len(trail) < MaxTrail
  /\ trail' = Append(trail, [at |-> now, matches |-> matches])
  /\ UNCHANGED now

FunnelNext ==
  \/ \E matches \in FunnelMatches : Occur(matches)
  \/ Elapse /\ UNCHANGED trail

FunnelSpec == ClockInit /\ FunnelInit /\ [][FunnelNext]_<<trail, now>>
-----------------------------------------------------------------------------
(* An attempt is the sequence of the indices of the events it matched, in  *)
(* the order of the steps.                                                 *)
TimesOf(attempt) == [k \in DOMAIN attempt |-> trail[attempt[k]].at]

(* Seeded defect: the window opens again with every step.                  *)
InWindowOfLast(attempt, i) ==
  trail[i].at - trail[attempt[Len(attempt)]].at <= FunnelWindow

(* The walk stops at the first event that is too late; all after it are.   *)
InWindow(attempt, i) == trail[i].at - trail[attempt[1]].at <= FunnelWindow

(* The greedy walk from one event.                                         *)
Walk(start) ==
  LET current[i \in start .. Len(trail)] ==
        IF i = start THEN <<start>>
        ELSE LET before == current[i - 1]
             IN IF /\ Len(before) < FunnelSteps
                   /\ InWindow(before, i)
                   /\ Len(before) + 1 \in trail[i].matches
                THEN Append(before, i)
                ELSE before
  IN current[Len(trail)]

(* earlierAttemptEvents: the first difference in time decides.             *)
EarlierAttempt(left, right) ==
  \E k \in DOMAIN left \intersect DOMAIN right :
    /\ TimesOf(left)[k] < TimesOf(right)[k]
    /\ \A j \in 1 .. k - 1 : TimesOf(left)[j] = TimesOf(right)[j]

Preferred(attempt, best) ==
  \/ Len(attempt) > Len(best)
  \/ Len(attempt) = Len(best) /\ EarlierAttempt(attempt, best)

(* bestFunnelAttemptEvents: the starts in turn, up to a complete attempt.  *)
BestAttempt ==
  LET best[n \in 0 .. Len(trail)] ==
        IF n = 0 THEN << >>
        ELSE LET found == best[n - 1]
             IN IF /\ Len(found) < FunnelSteps
                   /\ 1 \in trail[n].matches
                   /\ Preferred(Walk(n), found)
                THEN Walk(n)
                ELSE found
  IN best[Len(trail)]
-----------------------------------------------------------------------------
(* What a funnel counts, with no algorithm in it: events in order, one for *)
(* each of the first steps, the last no later than the window allows.      *)
Attempts ==
  LET Increasing(length) ==
        {a \in [1 .. length -> DOMAIN trail] : \A k \in 1 .. length - 1 : a[k] < a[k + 1]}
  IN {a \in UNION {Increasing(length) : length \in 1 .. FunnelSteps} :
        /\ \A k \in DOMAIN a : k \in trail[a[k]].matches
        /\ trail[a[Len(a)]].at - trail[a[1]].at <= FunnelWindow}

(* The search finds an attempt if there is one, none gets further, and     *)
(* none that gets as far reaches any of its steps sooner, so that the      *)
(* counts of the steps and the times between them are the best there are:  *)
(* an early start that runs out of its window does not hide a later one    *)
(* that shares its events, taking the first event that matches never costs *)
(* a later step, and the return at the first complete attempt              *)
(* (dashboard_funnel_entities.go:156) skips nothing better.                *)
FunnelIsBest ==
  /\ BestAttempt = << >> \/ BestAttempt \in Attempts
  /\ \A a \in Attempts :
       \/ Len(a) < Len(BestAttempt)
       \/ /\ Len(a) = Len(BestAttempt)
          /\ \A k \in DOMAIN a : trail[BestAttempt[k]].at <= trail[a[k]].at
=============================================================================
