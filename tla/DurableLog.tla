----------------------------- MODULE DurableLog -----------------------------
(***************************************************************************)
(* What a write-ahead log promises its caller, without files, offsets or   *)
(* ids: a first-in first-out log of batches that survives restarts.  A     *)
(* batch whose Append succeeded is "sure" and leaves only when its caller  *)
(* releases a prefix that contains it.  A batch whose Append failed may    *)
(* be there or not: it is in doubt until a restart finds it, or until a    *)
(* release tidies the log.                                                 *)
(***************************************************************************)
EXTENDS Naturals, Sequences

CONSTANT Batches

VARIABLE log

Init == log = << >>

Promise(b) == log' = Append(log, [batch |-> b, sure |-> TRUE])

Doubt(b) == log' = Append(log, [batch |-> b, sure |-> FALSE])

(* What lies up to a place is let go.  Beyond it the sure batches stay, in *)
(* their order, and those in doubt go too.                                 *)
SureBeyond(n) == {j \in n + 1 .. Len(log) : log[j].sure}

Release ==
  \E n \in 1 .. Len(log), m \in 0 .. Len(log) :
    \E place \in [1 .. m -> SureBeyond(n)] :
      /\ \A i, j \in 1 .. m : i < j => place[i] < place[j]
      /\ \A j \in SureBeyond(n) : \E i \in 1 .. m : place[i] = j
      /\ log' = [i \in 1 .. m |-> log[place[i]]]

Restart == log' = [i \in 1 .. Len(log) |-> [batch |-> log[i].batch, sure |-> TRUE]]

Next ==
  \/ \E b \in Batches : Promise(b) \/ Doubt(b)
  \/ Release
  \/ Restart

Spec == Init /\ [][Next]_log
=============================================================================
