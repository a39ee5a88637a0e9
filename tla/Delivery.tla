------------------------------ MODULE Delivery ------------------------------
(***************************************************************************)
(* What the ingest pipeline owes its clients: a batch that was accepted is *)
(* owed to the store until it is stored, and everything owed is eventually *)
(* stored.  Storing a batch more than once is allowed, so is storing one   *)
(* that was never accepted (its request failed half way); forgetting one   *)
(* is not.                                                                 *)
(***************************************************************************)
CONSTANT Batches

VARIABLES
  owed,    \* accepted batches the store does not have yet
  stored   \* batches the store has

deliveryVars == <<owed, stored>>

Init == owed \subseteq Batches /\ stored = {}

Accept(b) ==
  /\ b \notin stored
  /\ owed' = owed \union {b}
  /\ UNCHANGED stored

Store(S) ==
  /\ stored' = stored \union S
  /\ owed' = owed \ S

Next == \/ \E b \in Batches : Accept(b)
        \/ \E S \in SUBSET Batches : Store(S)

StoreOne(b) == b \in owed /\ \E S \in SUBSET Batches : b \in S /\ Store(S)

SafeSpec == Init /\ [][Next]_deliveryVars

Spec == SafeSpec /\ \A b \in Batches : WF_deliveryVars(StoreOne(b))
=============================================================================
