-------------------------------- MODULE WAL --------------------------------
(***************************************************************************)
(* The ingest write-ahead log, apps/api/internal/ingest/wal.go: one file   *)
(* of length-prefixed, checksummed records, and the entries a running      *)
(* process keeps in memory about them.  Every exported method holds w.mu   *)
(* from beginning to end, so each of them is one step here.                *)
(*                                                                         *)
(* Abstractions: a record occupies one slot of the file, whatever its      *)
(* length, and its byte offset is the number of slots before it (records   *)
(* of equal length); a slot whose bytes are incomplete is not "intact",    *)
(* and it hides every slot behind it from a scan, because the reader       *)
(* then takes the next record's bytes for the rest of the torn one and     *)
(* the checksum cannot match.  rename(2) is atomic and durable.            *)
(*                                                                         *)
(* This module has the state and the operations only.  WALClient runs them *)
(* against an arbitrary caller, BatchWriter against the real one.          *)
(***************************************************************************)
EXTENDS Naturals, Sequences

CONSTANTS
  Batches,         \* what can be written: one element per WriteBatch
  AppendResidues,  \* what a failed Append may leave behind in the file
  AckFaults        \* where a failing rewrite may stop

ASSUME ResiduesAssumption == AppendResidues \subseteq {"none", "torn", "whole"}
ASSUME FaultsAssumption   == AckFaults \subseteq {"kept", "closed", "swapped", "stale"}

VARIABLES
  file,      \* the slots of ingest.wal, in file order
  fileOpen,  \* w.file is a usable descriptor
  entries,   \* w.entries
  nextID     \* w.nextID

walVars == <<file, fileOpen, entries, nextID>>

Record == [id : Nat, batch : Batches, intact : BOOLEAN]
Entry  == [id : Nat, offset : Nat, batch : Batches]

WalTypeOK ==
  /\ file \in Seq(Record)
  /\ fileOpen \in BOOLEAN
  /\ entries \in Seq(Entry)
  /\ nextID \in Nat
-----------------------------------------------------------------------------
(* Seeded defect: a scan whose offsets start before the file.              *)
ScanFromMinusOne(f) == [i \in DOMAIN f |->
                          [id |-> f[i].id, offset |-> i - 2, batch |-> f[i].batch]]

(* scanLocked: the slots up to the first one that is not intact; a scan    *)
(* numbers the offsets afresh from the start of the file.                  *)
IntactPrefix(f) ==
  CHOOSE n \in 0 .. Len(f) : /\ \A i \in 1 .. n : f[i].intact
                             /\ n = Len(f) \/ ~ f[n + 1].intact

Scan(f) == [i \in 1 .. IntactPrefix(f) |->
              [id |-> f[i].id, offset |-> i - 1, batch |-> f[i].batch]]

(* Seeded defect: numbering by the count of entries.                       *)
CountAsID(es) == Len(es)

(* OpenWAL resumes numbering from the last entry the scan returned.        *)
LastID(es) == IF es = << >> THEN 0 ELSE es[Len(es)].id

(* Seeded defect: a rewrite that walks the entries backwards.              *)
RewrittenBackwards(es) ==
  [i \in 1 .. Len(es) |-> [id |-> es[Len(es) + 1 - i].id,
                           batch |-> es[Len(es) + 1 - i].batch, intact |-> TRUE]]

(* What rewriteLocked writes to the temporary file.                        *)
Rewritten(es) == [i \in 1 .. Len(es) |->
                    [id |-> es[i].id, batch |-> es[i].batch, intact |-> TRUE]]

(* Seeded defect: a strict comparison, which keeps the acknowledged entry. *)
AckIndexStrict(offset) ==
  CHOOSE n \in 0 .. Len(entries) :
    /\ \A i \in 1 .. n : entries[i].offset < offset
    /\ n = Len(entries) \/ entries[n + 1].offset >= offset

(* The leading entries Acknowledge drops: it stops at the first entry      *)
(* whose offset is beyond the acknowledged one.                            *)
AckIndex(offset) ==
  CHOOSE n \in 0 .. Len(entries) :
    /\ \A i \in 1 .. n : entries[i].offset <= offset
    /\ n = Len(entries) \/ entries[n + 1].offset > offset

(* Seeded defect: one entry too many is dropped.                           *)
RemainingOneLess(offset) == SubSeq(entries, AckIndex(offset) + 2, Len(entries))

Remaining(offset) == SubSeq(entries, AckIndex(offset) + 1, Len(entries))
-----------------------------------------------------------------------------
WalInit ==
  /\ file = << >>
  /\ fileOpen = TRUE
  /\ entries = << >>
  /\ nextID = 0

(* A new process: OpenWAL scans what the last one left.  A torn tail stays *)
(* in the file, and later records are written behind it.                   *)
OpenWAL ==
  /\ fileOpen' = TRUE
  /\ entries' = Scan(file)
  /\ nextID' = LastID(Scan(file))
  /\ UNCHANGED file

(* Append that returns an entry: the record is written and synced.         *)
AppendOK(b) ==
  /\ fileOpen
  /\ nextID' = nextID + 1
  /\ file' = Append(file, [id |-> nextID + 1, batch |-> b, intact |-> TRUE])
  /\ entries' = Append(entries,
                       [id |-> nextID + 1, offset |-> Len(file), batch |-> b])
  /\ UNCHANGED fileOpen

(* Append that returns an error, or that a crash interrupts.  The id is    *)
(* spent.  Nothing, a part, or all of the record may have reached the file *)
(* (the last when Sync fails); a closed file takes nothing.                *)
AppendFails(b) ==
  /\ nextID' = nextID + 1
  /\ \/ /\ "none" \in AppendResidues \/ ~ fileOpen
        /\ UNCHANGED file
     \/ /\ fileOpen /\ "torn" \in AppendResidues
        /\ file' = Append(file, [id |-> nextID + 1, batch |-> b, intact |-> FALSE])
     \/ /\ fileOpen /\ "whole" \in AppendResidues
        /\ file' = Append(file, [id |-> nextID + 1, batch |-> b, intact |-> TRUE])
  /\ UNCHANGED <<fileOpen, entries>>

(* Seeded defect: the entries keep the offsets of the replaced file.       *)
AcknowledgeWithoutRescan(offset) ==
  /\ fileOpen
  /\ file' = Rewritten(Remaining(offset))
  /\ entries' = Remaining(offset)
  /\ UNCHANGED <<fileOpen, nextID>>

(* Acknowledge that returns nil: nothing to drop, or the file is replaced  *)
(* by the remaining entries and scanned again, which renumbers offsets.    *)
AcknowledgeOK(offset) ==
  \/ /\ AckIndex(offset) = 0
     /\ UNCHANGED walVars
  \/ /\ AckIndex(offset) > 0
     /\ fileOpen
     /\ file' = Rewritten(Remaining(offset))
     /\ entries' = Scan(file')
     /\ UNCHANGED <<fileOpen, nextID>>

(* Acknowledge that returns an error.  "kept": before the swap, or the     *)
(* rename failed and the old file was reopened; a closed file always ends  *)
(* there.  "closed": the descriptor is lost, the old file remains.         *)
(* "swapped": the new file is in place but could not be reopened.          *)
(* "stale": it was reopened, the scan of it failed, w.entries is the old   *)
(* one.                                                                    *)
AcknowledgeFails(offset) ==
  /\ AckIndex(offset) > 0
  /\ \/ /\ "kept" \in AckFaults \/ ~ fileOpen
        /\ UNCHANGED <<file, fileOpen>>
     \/ /\ fileOpen /\ "closed" \in AckFaults
        /\ fileOpen' = FALSE
        /\ UNCHANGED file
     \/ /\ fileOpen /\ "swapped" \in AckFaults
        /\ fileOpen' = FALSE
        /\ file' = Rewritten(Remaining(offset))
     \/ /\ fileOpen /\ "stale" \in AckFaults
        /\ file' = Rewritten(Remaining(offset))
        /\ UNCHANGED fileOpen
  /\ UNCHANGED <<entries, nextID>>

(* Close, called by closeResources on shutdown.                            *)
CloseWAL ==
  /\ fileOpen' = FALSE
  /\ UNCHANGED <<file, entries, nextID>>
=============================================================================
