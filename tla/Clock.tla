------------------------------- MODULE Clock -------------------------------
(***************************************************************************)
(* The wall clock the API's components read.  The components that use it   *)
(* extend this module, so that one clock serves all of them.  A tick is as *)
(* long as the component at hand needs it to be: a second of a rate limit, *)
(* five minutes of a job's ticker.                                         *)
(***************************************************************************)
EXTENDS Integers

CONSTANT MaxTime  \* bound on the time that passes

ASSUME ClockAssumption == MaxTime \in Nat

VARIABLE now      \* time.Now()

ClockInit == now = 0

(* Time passes.                                                            *)
Elapse ==
  /\ now < MaxTime
  /\ now' = now + 1
=============================================================================
