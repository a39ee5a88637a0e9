----------------------------- MODULE WALClient -----------------------------
(***************************************************************************)
(* The write-ahead log against the most general caller that uses it as     *)
(* documented by its tests: it appends batches, acknowledges the offset of *)
(* an entry the log currently lists, and may lose its process at any time. *)
(***************************************************************************)
EXTENDS WAL

CONSTANT MaxRestarts   \* bound on process restarts

ASSUME RestartsAssumption == MaxRestarts \in Nat

VARIABLES
  attempted,  \* batches the caller has called Append with (each once)
  promised,   \* batches whose Append returned nil, not yet acknowledged
  released,   \* batches at or below an entry whose Acknowledge returned nil
  restarts    \* restarts so far, up to MaxRestarts

clientVars == <<attempted, promised, released, restarts>>
vars == <<file, fileOpen, entries, nextID, attempted, promised, released, restarts>>

Init ==
  /\ WalInit
  /\ attempted = {}
  /\ promised = {}
  /\ released = {}
  /\ restarts = 0

ClientAppend(b) ==
  /\ b \notin attempted
  /\ attempted' = attempted \union {b}
  /\ \/ AppendOK(b) /\ promised' = promised \union {b}
     \/ AppendFails(b) /\ UNCHANGED promised
  /\ UNCHANGED <<released, restarts>>

(* The caller acknowledges the i-th listed entry: whatever Acknowledge     *)
(* returns, it no longer needs that entry or an earlier one.               *)
UpTo(i) == {entries[j].batch : j \in 1 .. i}

ClientAcknowledge(i) ==
  /\ \/ /\ AcknowledgeOK(entries[i].offset)
        /\ released' = released \union UpTo(i)
     \/ /\ AcknowledgeFails(entries[i].offset)
        /\ UNCHANGED released
  /\ promised' = promised \ UpTo(i)
  /\ UNCHANGED <<attempted, restarts>>

ClientClose ==
  /\ fileOpen
  /\ CloseWAL
  /\ UNCHANGED clientVars

ClientRestart ==
  /\ restarts < MaxRestarts
  /\ restarts' = restarts + 1
  /\ OpenWAL
  /\ UNCHANGED <<attempted, promised, released>>

Next ==
  \/ \E b \in Batches : ClientAppend(b)
  \/ \E i \in 1 .. Len(entries) : ClientAcknowledge(i)
  \/ ClientClose
  \/ ClientRestart

Spec == Init /\ [][Next]_vars
-----------------------------------------------------------------------------
(* Types of all variables.                                                 *)
TypeOK ==
  /\ WalTypeOK
  /\ attempted \subseteq Batches
  /\ promised \subseteq attempted
  /\ released \subseteq attempted
  /\ restarts \in 0 .. MaxRestarts

(* At every moment a crash may strike, and OpenWAL would then list every   *)
(* batch whose Append returned nil and that was not acknowledged           *)
(* (wal.go:97-135 against scanLocked at 160-217).                          *)
PromisedIsRecoverable ==
  \A b \in promised : \E i \in DOMAIN Scan(file) : Scan(file)[i].batch = b

(* Each listed entry sits, intact, at the file position its offset names,  *)
(* and entries are listed in the order of their ids and of their offsets,  *)
(* across rewrites, failed appends and restarts: Acknowledge's prefix scan *)
(* (wal.go:145-148) is exact only then.                                    *)
EntriesMirrorFile ==
  fileOpen =>
    /\ \A i \in DOMAIN entries :
         /\ entries[i].offset < Len(file)
         /\ file[entries[i].offset + 1] =
              [id |-> entries[i].id, batch |-> entries[i].batch, intact |-> TRUE]
    /\ \A i, j \in DOMAIN entries :
         i < j => /\ entries[i].offset < entries[j].offset
                  /\ entries[i].id < entries[j].id

(* No id is handed out twice while a record that bears it may still come   *)
(* back from the file: the batch writer's walIDs set identifies batches by *)
(* id alone (batcher.go:125).                                              *)
IdsAreFresh ==
  /\ \A i \in DOMAIN Scan(file) : Scan(file)[i].id <= nextID
  /\ \A i, j \in DOMAIN Scan(file) : i < j => Scan(file)[i].id < Scan(file)[j].id

(* What was acknowledged with success never comes back, whatever fails or  *)
(* crashes afterwards (wal.go:137-158): no later start writes it again.    *)
ReleasedNeverReturns ==
  \A i \in DOMAIN Scan(file) : Scan(file)[i].batch \notin released

(* The refinement: the intact slots are the abstract log, sure when the    *)
(* running process lists them.                                             *)
Listed(r) == \E i \in DOMAIN entries : entries[i].id = r.id

Slots == [i \in 1 .. IntactPrefix(file) |->
            [batch |-> file[i].batch, sure |-> Listed(file[i])]]

DL == INSTANCE DurableLog WITH log <- Slots

(* The file and the entries together are a durable first-in first-out log: *)
(* a listed batch leaves only as part of a released prefix, in order, and  *)
(* never because of a restart.                                             *)
DurableLogSpec == DL!Spec
=============================================================================
