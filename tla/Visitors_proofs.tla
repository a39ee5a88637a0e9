-------------------------- MODULE Visitors_proofs ---------------------------
(***************************************************************************)
(* Proofs about what is kept of a visitor: the deletion of all of it, the  *)
(* session recorder of the tracker, and the funnels of the dashboard.      *)
(* They hold for any number of deletions, requests, rows and failures, any *)
(* number of pages, chunks and snapshots, and any number of events and     *)
(* steps.                                                                  *)
(***************************************************************************)
EXTENDS Privacy, Replay, Funnel, Lists_proofs

(* Privacy.                                                                *)
VisitorTables == {"events", "replay_sessions", "replay_chunks"}
Rows == VisitorTables \X Nat

Lists == Seq(VisitorTables)

(* What is left of the tables to be counted.                               *)
Remainders ==
  {Tables, <<"replay_sessions", "replay_chunks">>, <<"replay_chunks">>, << >>}

PrivacyTypes ==
  /\ visitorRows \in SUBSET Rows
  /\ doomed \in SUBSET Rows
  /\ absent \in SUBSET ReplayTables
  /\ erasures \in [Erasers -> [open : BOOLEAN, count : Remainders, delete : Lists,
                               before : SUBSET Rows, misread : BOOLEAN]]
  /\ inserting \in [ReplayWriters -> ReplayTables]
  /\ rowsWritten \in Nat

(* A table with a row exists.                                              *)
RowsHaveTables == \A r \in visitorRows : r[1] \notin absent

(* A row that a deletion began with is gone or doomed, or the deletion has *)
(* still to count or to delete the rows of its table.                      *)
Ahead(e, t) == t \in Range(erasures[e].count) \/ t \in Range(erasures[e].delete)

Pursued ==
  \A e \in Erasers : erasures[e].open =>
    \A r \in (erasures[e].before \intersect visitorRows) \ doomed :
      Ahead(e, r[1]) \/ (r[1] \in ReplayTables /\ erasures[e].misread)

(* A row that is written was not there before.                             *)
Numbered ==
  /\ \A r \in visitorRows : r[2] <= rowsWritten
  /\ \A e \in Erasers : \A r \in erasures[e].before : r[2] <= rowsWritten

PrivacyInv == PrivacyTypes /\ RowsHaveTables /\ Numbered /\ Pursued
-----------------------------------------------------------------------------
LEMMA TablesFacts ==
  /\ Tables \in Lists /\ Range(Tables) = VisitorTables
  /\ ReplayTables \subseteq VisitorTables
  /\ \A c \in Remainders \ {<< >>} :
       /\ Head(c) \in VisitorTables /\ Tail(c) \in Remainders
       /\ Range(c) = {Head(c)} \union Range(Tail(c))
       /\ Head(c) \in ReplayTables => "events" \notin Range(c)
  /\ Range(<< >>) = {}
<1>1. \A t \in VisitorTables :
        /\ Range(<<t>>) = {t}
        /\ Tail(<<t>>) = << >> /\ Head(<<t>>) = t
  BY DEF Range
<1>2. /\ Range(Tables) = VisitorTables /\ Head(Tables) = "events"
      /\ Tail(Tables) = <<"replay_sessions", "replay_chunks">>
  <2>1. DOMAIN Tables = 1 .. 3
    BY DEF Tables
  <2>2. 1 .. 3 = {1, 2, 3}
    OBVIOUS
  <2> QED BY <2>1, <2>2 DEF Tables, Range, VisitorTables
<1>3. LET two == <<"replay_sessions", "replay_chunks">>
      IN /\ Range(two) = {"replay_sessions", "replay_chunks"}
         /\ Head(two) = "replay_sessions" /\ Tail(two) = <<"replay_chunks">>
  <2>1. 1 .. 2 = {1, 2}
    OBVIOUS
  <2> QED BY <2>1 DEF Range
<1>4. Tables \in Lists
  BY DEF Tables, Lists, VisitorTables
<1>5. Range(<< >>) = {}
  BY DEF Range
<1>6. \A t \in ReplayTables : t \in VisitorTables /\ t # "events"
  BY DEF ReplayTables, VisitorTables
<1> QED BY <1>1, <1>2, <1>3, <1>4, <1>5, <1>6 DEF Remainders, ReplayTables, VisitorTables

LEMMA ListFacts ==
  ASSUME NEW s \in Lists
  PROVE  /\ \A t \in VisitorTables : Append(s, t) \in Lists
                                     /\ Range(Append(s, t)) = Range(s) \union {t}
         /\ s # << >> => /\ Tail(s) \in Lists /\ Head(s) \in VisitorTables
                         /\ Range(s) = {Head(s)} \union Range(Tail(s))
         /\ EventsOnly(s) \in Lists
         /\ Range(EventsOnly(s)) = Range(s) \intersect {"events"}
<1>1. ASSUME NEW t \in VisitorTables
      PROVE  Append(s, t) \in Lists /\ Range(Append(s, t)) = Range(s) \union {t}
  <2>1. Append(s, t) \in Lists
    BY DEF Lists
  <2>2. DOMAIN s = 1 .. Len(s) /\ DOMAIN Append(s, t) = 1 .. Len(s) + 1 /\ Len(s) \in Nat
    BY DEF Lists
  <2>3. /\ \A i \in 1 .. Len(s) : Append(s, t)[i] = s[i]
        /\ Append(s, t)[Len(s) + 1] = t
    BY DEF Lists
  <2>4. 1 .. Len(s) + 1 = (1 .. Len(s)) \union {Len(s) + 1}
    BY <2>2
  <2> QED BY <2>1, <2>2, <2>3, <2>4 DEF Range
<1>2. ASSUME s # << >>
      PROVE  /\ Tail(s) \in Lists /\ Head(s) \in VisitorTables
             /\ Range(s) = {Head(s)} \union Range(Tail(s))
  <2>1. Len(s) \in Nat \ {0} /\ DOMAIN s = 1 .. Len(s)
    BY <1>2 DEF Lists
  <2>2. /\ Tail(s) \in Lists /\ Head(s) \in VisitorTables /\ Head(s) = s[1]
        /\ DOMAIN Tail(s) = 1 .. Len(s) - 1
        /\ \A i \in 1 .. Len(s) - 1 : Tail(s)[i] = s[i + 1]
    BY <1>2, <2>1 DEF Lists
  <2>3. Range(s) \subseteq {Head(s)} \union Range(Tail(s))
    <3> SUFFICES ASSUME NEW i \in 1 .. Len(s)
                 PROVE  s[i] \in {Head(s)} \union Range(Tail(s))
      BY <2>1 DEF Range
    <3>1. CASE i = 1
      BY <2>2, <3>1
    <3>2. CASE i # 1
      <4>1. i - 1 \in 1 .. Len(s) - 1 /\ Tail(s)[i - 1] = s[i]
        BY <2>1, <2>2, <3>2
      <4> QED BY <2>2, <4>1 DEF Range
    <3> QED BY <3>1, <3>2
  <2>4. Range(Tail(s)) \subseteq Range(s)
    BY <2>1, <2>2 DEF Range
  <2>5. Head(s) \in Range(s)
    BY <2>1, <2>2 DEF Range
  <2> QED BY <2>2, <2>3, <2>4, <2>5
<1>3. /\ <<"events">> \in Lists /\ Range(<<"events">>) = {"events"}
      /\ << >> \in Lists /\ Range(<< >>) = {}
  BY DEF Lists, Range, VisitorTables
<1> QED BY <1>1, <1>2, <1>3 DEF EventsOnly
-----------------------------------------------------------------------------
LEMMA PrivacyInitially == PrivacyInit => PrivacyInv
<1> SUFFICES ASSUME PrivacyInit PROVE PrivacyInv
  OBVIOUS
<1>1. NoErasure \in [open : BOOLEAN, count : Remainders, delete : Lists,
                     before : SUBSET Rows, misread : BOOLEAN]
  BY DEF NoErasure, Remainders, Lists
<1>2. PrivacyTypes
  BY <1>1 DEF PrivacyInit, PrivacyTypes, ReplayTables
<1>3. RowsHaveTables /\ Numbered /\ Pursued
  BY DEF PrivacyInit, RowsHaveTables, Numbered, Pursued, NoErasure
<1> QED BY <1>2, <1>3 DEF PrivacyInv

(* The steps that leave the deletions alone: a row is written, to a table  *)
(* that is there by then, or doomed rows are deleted.                      *)
LEMMA RowsStep ==
  ASSUME PrivacyInv, UNCHANGED erasures,
         visitorRows' \in SUBSET Rows, doomed' \in SUBSET Rows, absent' \in SUBSET absent,
         inserting' \in [ReplayWriters -> ReplayTables],
         rowsWritten' \in Nat, rowsWritten <= rowsWritten',
         \A r \in visitorRows' \ visitorRows :
           r[1] \notin absent' /\ rowsWritten < r[2] /\ r[2] <= rowsWritten',
         \A r \in visitorRows' : r \in doomed => r \in doomed'
  PROVE  PrivacyInv'
<1> USE DEF PrivacyInv
<1>1. PrivacyTypes'
  BY DEF PrivacyTypes
<1>2. RowsHaveTables'
  BY DEF RowsHaveTables
<1>3. /\ \A r \in visitorRows \union visitorRows' : r \in Rows
      /\ \A e \in Erasers : erasures[e].before \subseteq Rows
  BY DEF PrivacyTypes
<1>4. \A r \in Rows : r[2] \in Nat
  BY DEF Rows
<1>5. Numbered'
  BY <1>3, <1>4 DEF Numbered, PrivacyTypes
<1>6. Pursued'
  <2> SUFFICES ASSUME NEW e \in Erasers, erasures[e].open,
                      NEW r \in (erasures[e].before \intersect visitorRows') \ doomed'
               PROVE  Ahead(e, r[1]) \/ (r[1] \in ReplayTables /\ erasures[e].misread)
    BY DEF Pursued, Ahead
  <2>1. r[2] \in Nat /\ rowsWritten \in Nat /\ r[2] <= rowsWritten
    BY <1>3, <1>4 DEF Numbered, PrivacyTypes
  <2>2. r \in visitorRows
    BY <2>1
  <2> QED BY <2>2 DEF Pursued
<1> QED BY <1>1, <1>2, <1>5, <1>6

LEMMA WrittenRow ==
  ASSUME PrivacyInv, NEW t \in VisitorTables, RowWritten(t)
  PROVE  /\ visitorRows' \in SUBSET Rows /\ rowsWritten' = rowsWritten + 1
         /\ rowsWritten' \in Nat /\ rowsWritten < rowsWritten'
         /\ visitorRows \subseteq visitorRows'
         /\ \A r \in visitorRows' \ visitorRows :
              r[1] = t /\ rowsWritten < r[2] /\ r[2] <= rowsWritten'
<1>1. rowsWritten \in Nat /\ visitorRows \in SUBSET Rows
  BY DEF PrivacyInv, PrivacyTypes
<1>2. <<t, rowsWritten + 1>> \in Rows
  BY <1>1 DEF Rows
<1> QED BY <1>1, <1>2 DEF RowWritten

LEMMA WriteEventsStep ==
  ASSUME PrivacyInv, WriteEvents
  PROVE  PrivacyInv'
<1>1. "events" \in VisitorTables /\ RowWritten("events")
  BY DEF VisitorTables, WriteEvents
<1>2. "events" \notin absent
  BY DEF PrivacyInv, PrivacyTypes, ReplayTables
<1> QED BY <1>1, <1>2, WrittenRow, RowsStep DEF WriteEvents, PrivacyInv, PrivacyTypes

LEMMA InsertReplayStep ==
  ASSUME PrivacyInv, NEW w \in ReplayWriters, InsertReplay(w)
  PROVE  PrivacyInv'
<1> DEFINE t == inserting[w]
           other == CHOOSE x \in ReplayTables : x # t
<1>1. t \in ReplayTables /\ t \in VisitorTables
  BY TablesFacts DEF PrivacyInv, PrivacyTypes
<1>2. other \in ReplayTables
  <2>1. \E x \in ReplayTables : x # t
    BY DEF ReplayTables
  <2> QED BY <2>1
<1>3. inserting' \in [ReplayWriters -> ReplayTables]
  BY <1>2 DEF InsertReplay, PrivacyInv, PrivacyTypes
<1>4. absent' \in SUBSET absent /\ t \notin absent'
  BY DEF InsertReplay
<1>5. RowWritten(t) /\ UNCHANGED <<doomed, erasures>>
  BY DEF InsertReplay
<1>6. doomed' \in SUBSET Rows
  BY <1>5 DEF PrivacyInv, PrivacyTypes
<1> HIDE DEF t, other
<1> QED BY <1>1, <1>3, <1>4, <1>5, <1>6, WrittenRow, RowsStep DEF PrivacyInv, PrivacyTypes

LEMMA InsertReplayFailsStep ==
  ASSUME PrivacyInv, NEW w \in ReplayWriters, InsertReplayFails(w)
  PROVE  PrivacyInv'
<1>1. absent' \in SUBSET absent /\ UNCHANGED <<visitorRows, doomed, erasures, rowsWritten>>
  BY DEF InsertReplayFails
<1>2. inserting' \in [ReplayWriters -> ReplayTables]
  BY DEF InsertReplayFails, PrivacyInv, PrivacyTypes, ReplayTables
<1> QED BY <1>1, <1>2, RowsStep DEF PrivacyInv, PrivacyTypes

LEMMA MutateStep ==
  ASSUME PrivacyInv, NEW t \in VisitorTables, Mutate(t)
  PROVE  PrivacyInv'
<1>1. visitorRows' \subseteq visitorRows /\ doomed' \subseteq doomed
  BY DEF Mutate
<1>2. \A r \in visitorRows' : r \in doomed => r \in doomed'
  BY DEF Mutate, RowsOf
<1>3. UNCHANGED <<absent, erasures, inserting, rowsWritten>>
  BY DEF Mutate
<1> QED BY <1>1, <1>2, <1>3, RowsStep DEF PrivacyInv, PrivacyTypes
-----------------------------------------------------------------------------
Erasures == [open : BOOLEAN, count : Remainders, delete : Lists,
             before : SUBSET Rows, misread : BOOLEAN]

(* The steps of one deletion, which becomes "next" and may doom rows.      *)
LEMMA ErasureStep ==
  ASSUME PrivacyInv, NEW e \in Erasers, NEW next \in Erasures,
         erasures' = [erasures EXCEPT ![e] = next],
         UNCHANGED <<visitorRows, absent, inserting, rowsWritten>>,
         doomed \subseteq doomed', doomed' \in SUBSET Rows,
         \A r \in next.before : r[2] <= rowsWritten,
         next.open =>
           \A r \in (next.before \intersect visitorRows) \ doomed' :
             \/ r[1] \in Range(next.count) \/ r[1] \in Range(next.delete)
             \/ r[1] \in ReplayTables /\ next.misread
  PROVE  PrivacyInv'
<1> USE DEF PrivacyInv
<1>1. /\ erasures'[e] = next
      /\ \A d \in Erasers \ {e} : erasures'[d] = erasures[d]
  BY DEF PrivacyTypes
<1>2. PrivacyTypes'
  BY DEF PrivacyTypes, Erasures
<1>3. RowsHaveTables'
  BY DEF RowsHaveTables
<1>4. Numbered'
  BY <1>1 DEF Numbered
<1>5. Pursued'
  <2> SUFFICES ASSUME NEW d \in Erasers, erasures'[d].open,
                      NEW r \in (erasures'[d].before \intersect visitorRows) \ doomed'
               PROVE  \/ r[1] \in Range(erasures'[d].count)
                      \/ r[1] \in Range(erasures'[d].delete)
                      \/ r[1] \in ReplayTables /\ erasures'[d].misread
    BY DEF Pursued, Ahead
  <2>1. CASE d = e
    BY <1>1, <2>1
  <2>2. CASE d # e
    BY <1>1, <2>2 DEF Pursued, Ahead
  <2> QED BY <2>1, <2>2
<1> QED BY <1>2, <1>3, <1>4, <1>5

LEMMA ErasureFacts ==
  ASSUME PrivacyInv, NEW e \in Erasers
  PROVE  /\ erasures[e] \in Erasures
         /\ \A r \in erasures[e].before : r[2] <= rowsWritten
         /\ visitorRows \in SUBSET Rows /\ doomed \in SUBSET Rows
         /\ \A r \in Rows : r[1] \in VisitorTables
         /\ erasures[e].open =>
              \A r \in (erasures[e].before \intersect visitorRows) \ doomed :
                \/ r[1] \in Range(erasures[e].count)
                \/ r[1] \in Range(erasures[e].delete)
                \/ r[1] \in ReplayTables /\ erasures[e].misread
BY DEF PrivacyInv, PrivacyTypes, Erasures, Numbered, Pursued, Ahead, Rows

LEMMA EraseBeginStep ==
  ASSUME PrivacyInv, NEW e \in Erasers, EraseBegin(e)
  PROVE  PrivacyInv'
<1> DEFINE next == [NoErasure EXCEPT !.open = TRUE, !.count = Tables, !.before = visitorRows]
<1>1. next \in Erasures
  <2>1. NoErasure \in Erasures
    BY DEF Erasures, NoErasure, Remainders, Lists
  <2>2. Tables \in Remainders /\ visitorRows \in SUBSET Rows
    BY DEF Remainders, PrivacyInv, PrivacyTypes
  <2> QED BY <2>1, <2>2 DEF Erasures
<1>2. next.before = visitorRows /\ next.count = Tables
  BY DEF NoErasure
<1>3. \A r \in visitorRows : r[1] \in Range(next.count)
  BY <1>2, TablesFacts, ErasureFacts
<1>4. erasures' = [erasures EXCEPT ![e] = next]
  BY DEF EraseBegin
<1>5. \A r \in next.before : r[2] <= rowsWritten
  BY <1>2 DEF PrivacyInv, Numbered
<1>6. doomed' = doomed /\ UNCHANGED <<visitorRows, absent, inserting, rowsWritten>>
  BY DEF EraseBegin
<1> HIDE DEF next
<1> QED BY <1>1, <1>2, <1>3, <1>4, <1>5, <1>6, ErasureStep, ErasureFacts

LEMMA CountRowsStep ==
  ASSUME PrivacyInv, NEW e \in Erasers, CountRows(e)
  PROVE  PrivacyInv'
<1> DEFINE old == erasures[e]
           t == Head(old.count)
           toDelete == Counted(old.delete, t)
           next == [old EXCEPT !.count = Tail(@), !.delete = toDelete]
<1>1. old \in Erasures
  BY ErasureFacts
<1>2. /\ old.count \in Remainders \ {<< >>}
      /\ t \in VisitorTables /\ Tail(old.count) \in Remainders
      /\ Range(old.count) = {t} \union Range(Tail(old.count))
  BY <1>1, TablesFacts DEF CountRows, Erasures
<1>3. toDelete \in Lists /\ Range(old.delete) \subseteq Range(toDelete)
  BY <1>1, <1>2, ListFacts DEF Counted, Erasures
<1>4. \A r \in visitorRows : r[1] = t => t \in Range(toDelete)
  <2> SUFFICES ASSUME NEW r \in visitorRows, r[1] = t PROVE t \in Range(toDelete)
    OBVIOUS
  <2>1. RowsOf(t) # {}
    BY DEF RowsOf
  <2>2. toDelete = Append(old.delete, t) /\ old.delete \in Lists
    BY <1>1, <2>1 DEF Counted, Erasures
  <2>3. Range(Append(old.delete, t)) = Range(old.delete) \union {t}
    BY <1>2, <2>2, ListFacts
  <2> QED BY <2>2, <2>3
<1>5. next \in Erasures /\ next.before = old.before /\ next.misread = old.misread
      /\ next.open = old.open /\ next.count = Tail(old.count) /\ next.delete = toDelete
  BY <1>1, <1>2, <1>3 DEF Erasures
<1>6. erasures' = [erasures EXCEPT ![e] = next]
  BY <1>1 DEF CountRows, PrivacyInv, PrivacyTypes
<1>7. doomed' = doomed /\ UNCHANGED <<visitorRows, absent, inserting, rowsWritten>>
  BY DEF CountRows
<1>8. next.open =>
        \A r \in (next.before \intersect visitorRows) \ doomed :
          \/ r[1] \in Range(next.count) \/ r[1] \in Range(next.delete)
          \/ r[1] \in ReplayTables /\ next.misread
  BY <1>2, <1>3, <1>4, <1>5, ErasureFacts
<1> HIDE DEF next, old, t, toDelete
<1> QED BY <1>5, <1>6, <1>7, <1>8, ErasureStep, ErasureFacts DEF old

LEMMA CountTakenForMissingStep ==
  ASSUME PrivacyInv, NEW e \in Erasers, CountTakenForMissing(e)
  PROVE  PrivacyInv'
<1> DEFINE old == erasures[e]
           next == [old EXCEPT !.count = << >>, !.delete = EventsOnly(@),
                               !.misread = absent # ReplayTables]
<1>1. old \in Erasures
  BY ErasureFacts
<1>2. old.count \in Remainders \ {<< >>} /\ "events" \notin Range(old.count)
  BY <1>1, TablesFacts DEF CountTakenForMissing, Erasures
<1>3. EventsOnly(old.delete) \in Lists
      /\ Range(EventsOnly(old.delete)) = Range(old.delete) \intersect {"events"}
  BY <1>1, ListFacts DEF Erasures
<1>4. /\ next \in Erasures /\ next.before = old.before /\ next.open = old.open
      /\ next.delete = EventsOnly(old.delete) /\ next.misread = (absent # ReplayTables)
  BY <1>1, <1>3 DEF Erasures, Remainders
<1>5. erasures' = [erasures EXCEPT ![e] = next]
  BY <1>1 DEF CountTakenForMissing, PrivacyInv, PrivacyTypes
<1>6. doomed' = doomed /\ UNCHANGED <<visitorRows, absent, inserting, rowsWritten>>
  BY DEF CountTakenForMissing
<1>7. \A r \in visitorRows : r[1] = "events" \/ (r[1] \in ReplayTables /\ absent # ReplayTables)
  BY ErasureFacts DEF PrivacyInv, RowsHaveTables, VisitorTables, ReplayTables
<1>8. next.open =>
        \A r \in (next.before \intersect visitorRows) \ doomed :
          \/ r[1] \in Range(next.delete)
          \/ r[1] \in ReplayTables /\ next.misread
  <2> SUFFICES ASSUME next.open, NEW r \in (next.before \intersect visitorRows) \ doomed,
                      r[1] = "events"
               PROVE  r[1] \in Range(next.delete)
    BY <1>4, <1>7
  <2>1. r[1] \in Range(old.delete)
    BY <1>2, <1>4, ErasureFacts DEF ReplayTables
  <2> QED BY <1>3, <1>4, <2>1
<1> HIDE DEF next, old
<1> QED BY <1>4, <1>5, <1>6, <1>8, ErasureStep, ErasureFacts DEF old

LEMMA DeleteStep ==
  ASSUME PrivacyInv, NEW e \in Erasers, DeleteRows(e) \/ DeleteTakenForMissing(e)
  PROVE  PrivacyInv'
<1> DEFINE old == erasures[e]
           t == Head(old.delete)
           misread == old.misread \/ DeleteTakenForMissing(e)
           next == [old EXCEPT !.delete = Tail(@), !.misread = misread]
<1>1. old \in Erasures /\ old.count = << >> /\ old.delete # << >>
  BY ErasureFacts DEF DeleteRows, DeleteTakenForMissing
<1>2. Tail(old.delete) \in Lists /\ Range(old.delete) = {t} \union Range(Tail(old.delete))
  BY <1>1, ListFacts DEF Erasures
<1>3. /\ next \in Erasures /\ next.before = old.before /\ next.open = old.open
      /\ next.count = << >> /\ next.delete = Tail(old.delete) /\ next.misread = misread
  BY <1>1, <1>2 DEF Erasures
<1>4. erasures' = [erasures EXCEPT ![e] = next]
  <2>1. CASE DeleteRows(e) /\ ~ DeleteTakenForMissing(e)
    <3>1. next = [old EXCEPT !.delete = Tail(@)]
      BY <1>1, <2>1 DEF Erasures
    <3> QED BY <2>1, <3>1 DEF DeleteRows, PrivacyInv, PrivacyTypes
  <2>2. CASE DeleteTakenForMissing(e)
    <3>1. next = [old EXCEPT !.delete = Tail(@), !.misread = TRUE]
      BY <1>1, <2>2 DEF Erasures
    <3> QED BY <2>2, <3>1 DEF DeleteTakenForMissing, PrivacyInv, PrivacyTypes
  <2> QED BY <2>1, <2>2
<1>5. /\ UNCHANGED <<visitorRows, absent, inserting, rowsWritten>>
      /\ doomed \subseteq doomed' /\ doomed' \in SUBSET Rows
  BY ErasureFacts DEF DeleteRows, DeleteTakenForMissing, RowsOf
<1>6. \A r \in visitorRows \ doomed' : r[1] = t => r[1] \in ReplayTables /\ misread
  BY DEF DeleteRows, DeleteTakenForMissing, RowsOf
<1>7. next.open =>
        \A r \in (next.before \intersect visitorRows) \ doomed' :
          \/ r[1] \in Range(next.delete)
          \/ r[1] \in ReplayTables /\ next.misread
  BY <1>1, <1>2, <1>3, <1>5, <1>6, ErasureFacts, TablesFacts
<1> HIDE DEF next, old, t, misread
<1> QED BY <1>3, <1>4, <1>5, <1>7, ErasureStep, ErasureFacts DEF old

LEMMA EraseEndStep ==
  ASSUME PrivacyInv, NEW e \in Erasers, EraseEnd(e)
  PROVE  PrivacyInv'
<1>1. NoErasure \in Erasures /\ ~ NoErasure.open /\ NoErasure.before = {}
  BY DEF Erasures, NoErasure, Remainders, Lists
<1>2. /\ erasures' = [erasures EXCEPT ![e] = NoErasure]
      /\ UNCHANGED <<visitorRows, doomed, absent, inserting, rowsWritten>>
  BY DEF EraseEnd
<1> QED BY <1>1, <1>2, ErasureStep, ErasureFacts
-----------------------------------------------------------------------------
LEMMA PrivacyStep ==
  ASSUME PrivacyInv, [PrivacyNext]_privacyVars
  PROVE  PrivacyInv'
<1>1. CASE WriteEvents
  BY <1>1, WriteEventsStep
<1>2. ASSUME NEW w \in ReplayWriters, InsertReplay(w) \/ InsertReplayFails(w)
      PROVE  PrivacyInv'
  BY <1>2, InsertReplayStep, InsertReplayFailsStep
<1>3. ASSUME NEW t \in Range(Tables), Mutate(t)
      PROVE  PrivacyInv'
  BY <1>3, MutateStep, TablesFacts
<1>4. ASSUME NEW e \in Erasers,
             \/ EraseBegin(e) \/ CountRows(e) \/ CountTakenForMissing(e)
             \/ DeleteRows(e) \/ DeleteTakenForMissing(e) \/ EraseEnd(e)
      PROVE  PrivacyInv'
  BY <1>4, EraseBeginStep, CountRowsStep, CountTakenForMissingStep, DeleteStep, EraseEndStep
<1>5. CASE UNCHANGED privacyVars
  <2>1. UNCHANGED <<visitorRows, doomed, absent, erasures, inserting, rowsWritten>>
    BY <1>5 DEF privacyVars
  <2> QED BY <2>1 DEF PrivacyInv, PrivacyTypes, RowsHaveTables, Numbered, Pursued, Ahead
<1> QED BY <1>1, <1>2, <1>3, <1>4, <1>5 DEF PrivacyNext

(* A deletion that answers with success leaves none of the rows it began   *)
(* with, for any number of deletions, replay requests, rows and failures,  *)
(* unless it took an error for a missing table (DeleteVisitor).            *)
THEOREM ErasedHolds == PrivacySpec => []Erased
<1>1. PrivacyInv => Erased
  <2> SUFFICES ASSUME PrivacyInv, NEW e \in Erasers, erasures[e].open, AllAsked(e),
                      NEW r \in (erasures[e].before \intersect visitorRows) \ doomed
               PROVE  r[1] \in ReplayTables /\ erasures[e].misread
    BY DEF Erased
  <2>1. Range(erasures[e].count) = {} /\ Range(erasures[e].delete) = {}
    BY TablesFacts DEF AllAsked
  <2> QED BY <2>1, ErasureFacts
<1> QED BY <1>1, PrivacyInitially, PrivacyStep, PTL DEF PrivacySpec
-----------------------------------------------------------------------------
(* The session recorder.                                                   *)
Recorders ==
  [ page : Nat, based : BOOLEAN, events : Nat, first : Nat, index : Nat,
    requests : Seq(SUBSET Nat), exposed : SUBSET Nat, chunks : Seq(Nat),
    mutations : Nat, open : BOOLEAN, stopped : BOOLEAN, flushTimer : BOOLEAN,
    mutationTimer : BOOLEAN, snapshotTimer : BOOLEAN,
    captures : [init : Nat, route : Nat, overflow : Nat],
    saved : Nat, orphans : BOOLEAN, acknowledged : Nat ]

(* What holds within the steps too: mutations wait in an open window only  *)
(* over a snapshot of their route, no index is lost, and sessionStorage is *)
(* between what was acknowledged and what was cut.                         *)
Sound(r, written) ==
  /\ r \in Recorders
  /\ ~r.orphans
  /\ r.open /\ ~r.stopped /\ r.mutations # 0 => r.based
  /\ r.first .. r.index \subseteq written \union Chunks(r.chunks) \union r.exposed
  /\ Chunks(r.chunks) \subseteq 0 .. r.index
  /\ \A i \in DOMAIN r.requests : r.requests[i] \subseteq 0 .. r.index
  /\ r.acknowledged <= r.saved /\ r.saved <= r.index

(* Between the steps the window is open only over a snapshot.              *)
Based(r) == r.open /\ ~r.stopped => r.based

ReplayInv ==
  /\ Sound(recorder, stored)
  /\ Based(recorder)

LEMMA ChunksFacts ==
  ASSUME NEW S, NEW c \in Seq(S), NEW x \in S
  PROVE  /\ Append(c, x) \in Seq(S)
         /\ Chunks(Append(c, x)) = Chunks(c) \union {x}
         /\ Tail(Append(c, x)) \in Seq(S)
         /\ Head(Append(c, x)) \in S
         /\ Chunks(c) \subseteq S
         /\ Chunks(Append(c, x))
              = Chunks(Tail(Append(c, x))) \union {Head(Append(c, x))}
<1>1. \A d \in Seq(S) : Chunks(d) = {d[i] : i \in 1 .. Len(d)} /\ Len(d) \in Nat
  BY LenProperties DEF Chunks
<1>2. /\ Append(c, x) \in Seq(S) /\ Len(Append(c, x)) = Len(c) + 1
      /\ \A i \in 1 .. Len(c) : Append(c, x)[i] = c[i]
      /\ Append(c, x)[Len(c) + 1] = x
  OBVIOUS
<1>3. Chunks(Append(c, x)) = Chunks(c) \union {x}
  <2>1. \A i \in 1 .. Len(c) + 1 : i = Len(c) + 1 \/ i \in 1 .. Len(c)
    BY <1>1
  <2>2. Len(c) + 1 \in 1 .. Len(c) + 1 /\ \A i \in 1 .. Len(c) : i \in 1 .. Len(c) + 1
    BY <1>1
  <2>3. Chunks(Append(c, x)) = {Append(c, x)[i] : i \in 1 .. Len(c) + 1}
    BY <1>1, <1>2
  <2>4. Chunks(c) = {c[i] : i \in 1 .. Len(c)}
    BY <1>1
  <2> QED BY <1>2, <2>1, <2>2, <2>3, <2>4
<1> DEFINE d == Append(c, x)
<1>4. /\ Head(d) = d[1] /\ Head(d) \in S /\ Tail(d) \in Seq(S)
      /\ Len(Tail(d)) = Len(d) - 1
      /\ \A i \in 1 .. Len(Tail(d)) : Tail(d)[i] = d[i + 1]
  <2>1. d \in Seq(S) /\ d # << >>
    BY <1>1, <1>2
  <2> HIDE DEF d
  <2> QED BY <2>1, HeadTailProperties
<1>5. d \in Seq(S) /\ Len(d) \in Nat \ {0}
  BY <1>1, <1>2
<1> HIDE DEF d
<1>6. Chunks(d) = Chunks(Tail(d)) \union {Head(d)}
  <2>1. ASSUME NEW y \in Chunks(d) PROVE y \in Chunks(Tail(d)) \union {Head(d)}
    <3>1. PICK i \in 1 .. Len(d) : y = d[i]
      BY <1>1, <1>5
    <3>2. CASE i = 1
      BY <1>4, <3>1, <3>2
    <3>3. CASE i # 1
      <4>1. i - 1 \in 1 .. Len(Tail(d)) /\ i - 1 + 1 = i
        BY <1>4, <1>5, <3>3
      <4>2. y = Tail(d)[i - 1]
        BY <1>4, <3>1, <4>1
      <4> QED BY <1>1, <1>4, <4>1, <4>2
    <3> QED BY <3>2, <3>3
  <2>2. ASSUME NEW y \in Chunks(Tail(d)) PROVE y \in Chunks(d)
    <3>1. PICK i \in 1 .. Len(Tail(d)) : y = Tail(d)[i]
      BY <1>1, <1>4
    <3>2. i + 1 \in 1 .. Len(d) /\ y = d[i + 1]
      BY <1>4, <1>5, <3>1
    <3> QED BY <1>1, <1>5, <3>2
  <2>3. Head(d) \in Chunks(d)
    <3>1. 1 \in 1 .. Len(d)
      BY <1>5
    <3> QED BY <1>1, <1>4, <1>5, <3>1
  <2> QED BY <2>1, <2>2, <2>3
<1>7. Chunks(c) \subseteq S
  BY <1>1, ElementOfSeq
<1> QED BY <1>2, <1>3, <1>4, <1>5, <1>6, <1>7 DEF d

(* One more event in the chunk under construction.                         *)
LEMMA AddedSound ==
  ASSUME NEW r, NEW s, Sound(r, s), NEW type,
         type = "route" => r.mutations = 0, type = "mutation" => r.based
  PROVE  /\ Sound(Added(r, type), s)
         /\ Added(r, type).open = r.open /\ Added(r, type).stopped = r.stopped
         /\ Added(r, type).mutations = r.mutations
         /\ Added(r, type).based = (type = "full_snapshot" \/ (r.based /\ type # "route"))
<1> DEFINE a == Added(r, type)
<1>1. r \in Recorders /\ r.events + 1 \in Nat
  BY DEF Sound, Recorders
<1>2. a = [r EXCEPT !.events = r.events + 1,
                    !.based = (type = "full_snapshot" \/ (r.based /\ type # "route")),
                    !.orphans = (r.orphans \/ (type = "mutation" /\ ~r.based))]
  BY DEF Added
<1> HIDE DEF a
<1>3. /\ a.events = r.events + 1
      /\ a.based = (type = "full_snapshot" \/ (r.based /\ type # "route"))
      /\ a.orphans = (r.orphans \/ (type = "mutation" /\ ~r.based))
      /\ a.open = r.open /\ a.stopped = r.stopped /\ a.mutations = r.mutations
      /\ a.first = r.first /\ a.index = r.index /\ a.chunks = r.chunks
      /\ a.exposed = r.exposed /\ a.requests = r.requests
      /\ a.acknowledged = r.acknowledged /\ a.saved = r.saved
  BY <1>1, <1>2 DEF Recorders
<1>4. a \in Recorders
  BY ZenonT(30), <1>1, <1>2 DEF Recorders
<1>5. ~a.orphans /\ (a.open /\ ~a.stopped /\ a.mutations # 0 => a.based)
  BY <1>3 DEF Sound
<1> QED BY <1>3, <1>4, <1>5 DEF Sound, a

LEMMA CutSound ==
  ASSUME NEW r, NEW s, Sound(r, s)
  PROVE  /\ Sound(Cut(r), s)
         /\ Cut(r).open = r.open /\ Cut(r).stopped = r.stopped
         /\ Cut(r).mutations = r.mutations /\ Cut(r).based = r.based
<1>1. CASE r.events = 0
  BY <1>1 DEF Cut
<1>2. CASE r.events # 0
  <2> DEFINE all == Append(r.chunks, r.index + 1)
             full == Len(all) > MaxPendingChunks
             left == IF full THEN Tail(all) ELSE all
             lost == IF full THEN r.exposed \union {Head(all)} ELSE r.exposed
             c == [r EXCEPT !.events = 0, !.index = r.index + 1, !.chunks = left,
                            !.exposed = lost]
  <2>1. Cut(r) = c
    BY <1>2 DEF Cut
  <2>2. /\ r \in Recorders /\ r.index \in Nat /\ r.index + 1 \in Nat /\ r.chunks \in Seq(Nat)
        /\ r.exposed \in SUBSET Nat /\ r.first \in Nat /\ r.saved \in Nat
        /\ r.acknowledged \in Nat
    BY DEF Sound, Recorders
  <2>3. /\ all \in Seq(Nat) /\ Tail(all) \in Seq(Nat) /\ Head(all) \in Nat
        /\ Chunks(all) = Chunks(r.chunks) \union {r.index + 1}
        /\ Chunks(all) = Chunks(Tail(all)) \union {Head(all)}
    <3> DEFINE old == r.chunks
               new == r.index + 1
    <3>1. old \in Seq(Nat) /\ new \in Nat
      BY <2>2
    <3> HIDE DEF old, new
    <3>2. /\ Append(old, new) \in Seq(Nat)
          /\ Chunks(Append(old, new)) = Chunks(old) \union {new}
          /\ Tail(Append(old, new)) \in Seq(Nat)
          /\ Head(Append(old, new)) \in Nat
          /\ Chunks(old) \subseteq Nat
          /\ Chunks(Append(old, new))
               = Chunks(Tail(Append(old, new))) \union {Head(Append(old, new))}
      BY ONLY <3>1, ChunksFacts, SMTT(20)
    <3> QED BY <3>2 DEF old, new
  <2> HIDE DEF all, full
  <2>4. /\ left \in Seq(Nat) /\ lost \in SUBSET Nat
        /\ Chunks(left) \subseteq Chunks(r.chunks) \union {r.index + 1}
        /\ Chunks(left) \union lost = Chunks(r.chunks) \union {r.index + 1} \union r.exposed
    BY <2>2, <2>3
  <2> HIDE DEF left, lost
  <2>5. /\ c \in Recorders
        /\ c.index = r.index + 1 /\ c.chunks = left /\ c.exposed = lost
        /\ c.open = r.open /\ c.stopped = r.stopped /\ c.mutations = r.mutations
        /\ c.based = r.based /\ c.orphans = r.orphans /\ c.first = r.first
        /\ c.requests = r.requests /\ c.acknowledged = r.acknowledged /\ c.saved = r.saved
    BY <2>2, <2>4 DEF Recorders
  <2> HIDE DEF c
  <2>6. c.first .. c.index \subseteq s \union Chunks(left) \union lost
    <3>1. r.first .. r.index \subseteq s \union Chunks(r.chunks) \union r.exposed
      BY DEF Sound
    <3>2. \A x \in r.first .. r.index + 1 : x \in r.first .. r.index \/ x = r.index + 1
      BY <2>2
    <3> QED BY <2>4, <2>5, <3>1, <3>2
  <2>7. \A x \in 0 .. r.index : x \in 0 .. r.index + 1
    BY <2>2
  <2>8. Chunks(left) \subseteq 0 .. c.index
    <3>1. r.index + 1 \in 0 .. r.index + 1 /\ Chunks(r.chunks) \subseteq 0 .. r.index
      BY <2>2 DEF Sound
    <3> QED BY <2>4, <2>5, <2>7, <3>1
  <2>9. \A i \in DOMAIN c.requests : c.requests[i] \subseteq 0 .. c.index
    BY <2>5, <2>7 DEF Sound
  <2>10. c.acknowledged <= c.saved /\ c.saved <= c.index
    BY <2>2, <2>5 DEF Sound
  <2>11. ~c.orphans /\ (c.open /\ ~c.stopped /\ c.mutations # 0 => c.based)
    BY <2>5 DEF Sound
  <2> QED BY <2>1, <2>5, <2>6, <2>8, <2>9, <2>10, <2>11 DEF Sound
<1> QED BY <1>1, <1>2

LEMMA SendSound ==
  ASSUME NEW r, NEW s, Sound(r, s)
  PROVE  /\ Sound(Send(r), s)
         /\ Send(r).open = r.open /\ Send(r).stopped = r.stopped
         /\ Send(r).mutations = r.mutations /\ Send(r).based = r.based
         /\ Send(r).chunks = r.chunks
         /\ Chunks(r.chunks) # {} => Len(Send(r).requests) \in Nat \ {0}
<1>1. CASE r.chunks = << >>
  <2>1. Chunks(r.chunks) = {}
    BY <1>1 DEF Chunks
  <2> QED BY <1>1, <2>1 DEF Send
<1>2. CASE r.chunks # << >>
  <2> DEFINE more == Append(r.requests, Chunks(r.chunks))
             c == [r EXCEPT !.requests = more]
  <2>1. Send(r) = c
    BY <1>2 DEF Send
  <2>2. /\ r \in Recorders /\ r.requests \in Seq(SUBSET Nat) /\ r.chunks \in Seq(Nat)
    BY DEF Sound, Recorders
  <2>3. Chunks(r.chunks) \in SUBSET Nat
    BY <2>2, ElementOfSeq, LenProperties DEF Chunks
  <2>4. /\ more \in Seq(SUBSET Nat) /\ Len(more) = Len(r.requests) + 1
        /\ DOMAIN more = 1 .. Len(more) /\ DOMAIN r.requests = 1 .. Len(r.requests)
        /\ \A i \in 1 .. Len(r.requests) : more[i] = r.requests[i]
        /\ more[Len(r.requests) + 1] = Chunks(r.chunks) /\ Len(r.requests) \in Nat
    BY <2>2, <2>3, LenProperties
  <2> HIDE DEF more
  <2>5. /\ c \in Recorders /\ c.requests = more
        /\ c.open = r.open /\ c.stopped = r.stopped /\ c.mutations = r.mutations
        /\ c.based = r.based /\ c.orphans = r.orphans /\ c.first = r.first
        /\ c.index = r.index /\ c.chunks = r.chunks /\ c.exposed = r.exposed
        /\ c.acknowledged = r.acknowledged /\ c.saved = r.saved
    BY <2>2, <2>4 DEF Recorders
  <2> HIDE DEF c
  <2>6. \A i \in DOMAIN c.requests : c.requests[i] \subseteq 0 .. c.index
    <3> SUFFICES ASSUME NEW i \in 1 .. Len(r.requests) + 1 PROVE more[i] \subseteq 0 .. r.index
      BY <2>4, <2>5
    <3>1. CASE i = Len(r.requests) + 1
      BY <2>4, <3>1 DEF Sound
    <3>2. CASE i # Len(r.requests) + 1
      <4>1. i \in 1 .. Len(r.requests)
        BY <2>4, <3>2
      <4> QED BY <2>4, <4>1 DEF Sound
    <3> QED BY <3>1, <3>2
  <2>7. Sound(c, s)
    BY <2>5, <2>6 DEF Sound
  <2>8. Len(c.requests) \in Nat \ {0}
    BY <2>4, <2>5
  <2> QED BY <2>1, <2>5, <2>7, <2>8
<1> QED BY <1>1, <1>2

(* Timers, captures and what waits to be recorded do not touch the chunks. *)
SameChunks(r, q) ==
  /\ q.orphans = r.orphans /\ q.based = r.based
  /\ q.first = r.first /\ q.index = r.index /\ q.chunks = r.chunks
  /\ q.requests = r.requests /\ q.exposed = r.exposed
  /\ q.saved = r.saved /\ q.acknowledged = r.acknowledged

LEMMA Beside ==
  ASSUME NEW r, NEW s, Sound(r, s), NEW q \in Recorders, SameChunks(r, q),
         q.open /\ ~q.stopped /\ q.mutations # 0 => q.based
  PROVE  Sound(q, s)
BY DEF Sound, SameChunks

(* What a step of flush leaves alone.                                      *)
Alike(r, q) == q.open = r.open /\ q.stopped = r.stopped /\ q.based = r.based

LEMMA TimedSound ==
  ASSUME NEW r, NEW s, Sound(r, s)
  PROVE  /\ Sound(Timed(r), s) /\ Alike(r, Timed(r)) /\ Timed(r).mutations = r.mutations
         /\ Sound(Untimed(r), s) /\ Alike(r, Untimed(r)) /\ Untimed(r).mutations = r.mutations
<1>1. r \in Recorders
  BY DEF Sound
<1>2. ASSUME NEW f \in BOOLEAN
      PROVE  /\ Sound([r EXCEPT !.flushTimer = f], s)
             /\ Alike(r, [r EXCEPT !.flushTimer = f])
             /\ [r EXCEPT !.flushTimer = f].mutations = r.mutations
  <2> DEFINE q == [r EXCEPT !.flushTimer = f]
  <2>1. q \in Recorders
    BY <1>1 DEF Recorders
  <2>2. /\ q.orphans = r.orphans /\ q.first = r.first /\ q.index = r.index
        /\ q.requests = r.requests /\ q.exposed = r.exposed /\ q.chunks = r.chunks
        /\ q.saved = r.saved /\ q.acknowledged = r.acknowledged
        /\ q.open = r.open /\ q.stopped = r.stopped /\ q.mutations = r.mutations
        /\ q.based = r.based
    BY <1>1 DEF Recorders
  <2> HIDE DEF q
  <2>3. q.open /\ ~q.stopped /\ q.mutations # 0 => q.based
    BY <2>2 DEF Sound
  <2>4. Sound(q, s)
    BY <2>1, <2>2, <2>3, Beside DEF SameChunks
  <2> QED BY <2>2, <2>4 DEF q, Alike
<1> QED BY <1>2 DEF Timed, Untimed

LEMMA MutationsFlushedSound ==
  ASSUME NEW r, NEW s, Sound(r, s)
  PROVE  /\ Sound(MutationsFlushed(r), s) /\ Alike(r, MutationsFlushed(r))
         /\ MutationsFlushed(r).mutations = 0
<1> DEFINE none == [r EXCEPT !.mutations = 0]
           some == Added(none, "mutation")
           cut == Cut(Untimed(some))
<1>1. r \in Recorders
  BY DEF Sound
<1>2. /\ none \in Recorders
      /\ none.orphans = r.orphans /\ none.first = r.first /\ none.index = r.index
      /\ none.requests = r.requests /\ none.exposed = r.exposed /\ none.chunks = r.chunks
      /\ none.saved = r.saved /\ none.acknowledged = r.acknowledged
      /\ none.open = r.open /\ none.stopped = r.stopped /\ none.mutations = 0
      /\ none.based = r.based
  BY <1>1 DEF Recorders
<1>3. MutationsFlushed(r)
        = IF r.mutations = 0 \/ r.stopped \/ ~r.open THEN none
          ELSE IF some.events >= MaxChunkEvents THEN Send(cut) ELSE Timed(some)
  BY DEF MutationsFlushed
<1> HIDE DEF none
<1>4. Sound(none, s)
  BY <1>2, Beside DEF SameChunks
<1>5. CASE r.mutations = 0 \/ r.stopped \/ ~r.open
  BY <1>2, <1>3, <1>4, <1>5 DEF Alike
<1>6. CASE ~ (r.mutations = 0 \/ r.stopped \/ ~r.open)
  <2>1. r.based /\ r.open \in BOOLEAN /\ r.stopped \in BOOLEAN
    BY <1>1, <1>6 DEF Sound, Recorders
  <2>2. /\ Sound(some, s) /\ some.open = none.open /\ some.stopped = none.stopped
        /\ some.mutations = none.mutations /\ some.based
    <3>1. none.based /\ "mutation" # "route" /\ "mutation" # "full_snapshot"
      BY <1>2, <2>1
    <3>2. /\ Sound(some, s) /\ some.open = none.open /\ some.stopped = none.stopped
          /\ some.mutations = none.mutations
          /\ some.based = ("mutation" = "full_snapshot" \/ (none.based /\ "mutation" # "route"))
      BY ONLY <1>4, <3>1, AddedSound
    <3> QED BY <3>1, <3>2
  <2> HIDE DEF some
  <2>3. /\ Sound(Timed(some), s) /\ Alike(some, Timed(some)) /\ Timed(some).mutations = 0
        /\ Sound(Untimed(some), s) /\ Alike(some, Untimed(some))
        /\ Untimed(some).mutations = 0
    BY <1>2, <2>2, TimedSound
  <2>4. Sound(cut, s) /\ Alike(some, cut) /\ cut.mutations = 0
    BY <2>3, CutSound DEF Alike
  <2> HIDE DEF cut
  <2>5. Sound(Send(cut), s) /\ Alike(some, Send(cut)) /\ Send(cut).mutations = 0
    BY <2>4, SendSound DEF Alike
  <2>6. some.based = r.based
    BY <1>1, <2>1, <2>2 DEF Sound, Recorders
  <2>7. \A q : Alike(some, q) => Alike(r, q)
    BY <1>2, <2>2, <2>6 DEF Alike
  <2> QED BY <1>3, <1>6, <2>3, <2>5, <2>7
<1> QED BY <1>5, <1>6

LEMMA FlushedSound ==
  ASSUME NEW r, NEW s, Sound(r, s)
  PROVE  /\ Sound(Flushed(r), s) /\ Alike(r, Flushed(r)) /\ Flushed(r).mutations = 0
         /\ Chunks(Flushed(r).chunks) # {} => Len(Flushed(r).requests) \in Nat \ {0}
<1> DEFINE u == Untimed(r)
           m == MutationsFlushed(u)
           c == Cut(m)
<1>1. Sound(u, s) /\ Alike(r, u)
  BY TimedSound
<1> HIDE DEF u
<1>2. Sound(m, s) /\ Alike(u, m) /\ m.mutations = 0
  BY <1>1, MutationsFlushedSound
<1> HIDE DEF m
<1>3. Sound(c, s) /\ Alike(m, c) /\ c.mutations = 0
  BY <1>2, CutSound DEF Alike
<1> HIDE DEF c
<1>4. /\ Sound(Send(c), s) /\ Alike(c, Send(c)) /\ Send(c).mutations = 0
      /\ Chunks(Send(c).chunks) # {} => Len(Send(c).requests) \in Nat \ {0}
  BY <1>3, SendSound DEF Alike
<1>5. Flushed(r) = Send(c)
  BY DEF Flushed, c, m, u
<1> QED BY <1>1, <1>2, <1>3, <1>4, <1>5 DEF Alike

LEMMA QueuedSound ==
  ASSUME NEW r, NEW s, Sound(r, s), NEW type, type # "mutation",
         type = "route" => r.mutations = 0
  PROVE  /\ Sound(Queued(r, type), s)
         /\ Queued(r, type).open = r.open /\ Queued(r, type).stopped = r.stopped
         /\ Queued(r, type).mutations = r.mutations \/ Queued(r, type).mutations = 0
         /\ r.stopped => Queued(r, type).based = r.based
         /\ ~r.stopped => Queued(r, type).based
                            = (type = "full_snapshot" \/ (r.based /\ type # "route"))
<1> DEFINE more == Added(r, type)
<1>1. Queued(r, type) = IF r.stopped THEN r
                        ELSE IF more.events >= MaxChunkEvents THEN Flushed(more)
                        ELSE Timed(more)
  BY DEF Queued
<1>2. CASE r.stopped
  BY <1>1, <1>2
<1>3. CASE ~r.stopped
  <2>1. /\ Sound(more, s) /\ more.open = r.open /\ more.stopped = r.stopped
        /\ more.mutations = r.mutations
        /\ more.based = (type = "full_snapshot" \/ (r.based /\ type # "route"))
    BY AddedSound
  <2> HIDE DEF more
  <2>2. Sound(Timed(more), s) /\ Alike(more, Timed(more))
        /\ Timed(more).mutations = more.mutations
    BY <2>1, TimedSound
  <2>3. Sound(Flushed(more), s) /\ Alike(more, Flushed(more)) /\ Flushed(more).mutations = 0
    BY <2>1, FlushedSound
  <2>4. \/ Queued(r, type) = Flushed(more)
        \/ Queued(r, type) = Timed(more)
    BY <1>1, <1>3
  <2>5. CASE Queued(r, type) = Flushed(more)
    BY <1>3, <2>1, <2>3, <2>5 DEF Alike
  <2>6. CASE Queued(r, type) = Timed(more)
    BY <1>3, <2>1, <2>2, <2>6 DEF Alike
  <2> QED BY <2>4, <2>5, <2>6
<1> QED BY <1>2, <1>3

LEMMA MaxFacts ==
  ASSUME NEW N \in Nat, NEW T \in SUBSET (0 .. N), T # {}
  PROVE  Max(T) \in T
<1>1. PICK n \in T : \A m \in T : m <= n
  BY Latest
<1>2. \A m \in T : n >= m
  <2>1. \A m \in T : m \in 0 .. N
    OBVIOUS
  <2> QED BY <1>1, <2>1
<1> QED BY <1>2 DEF Max

(* The answer to a request empties the list of chunks.                     *)
LEMMA SucceededSound ==
  ASSUME NEW r, NEW s, Sound(r, s), NEW sent \in SUBSET (0 .. r.index),
         sent \subseteq s \union r.exposed
  PROVE  Sound(Succeeded(r, sent), s) /\ Alike(r, Succeeded(r, sent))
         /\ Succeeded(r, sent).mutations = r.mutations
<1> DEFINE top == Max(sent \union {r.acknowledged})
           lost == r.exposed \union (Chunks(r.chunks) \ sent)
           c == [r EXCEPT !.chunks = << >>, !.saved = r.index, !.acknowledged = top,
                          !.exposed = lost]
<1>1. c = Succeeded(r, sent)
  BY DEF Succeeded
<1>2. /\ r \in Recorders /\ r.index \in Nat /\ r.saved \in Nat /\ r.acknowledged \in Nat
      /\ r.chunks \in Seq(Nat) /\ r.exposed \in SUBSET Nat
  BY DEF Sound, Recorders
<1>3. top \in 0 .. r.index
  <2> DEFINE T == sent \union {r.acknowledged}
  <2>1. T \in SUBSET (0 .. r.index) /\ T # {}
    <3>1. r.acknowledged \in 0 .. r.index
      BY <1>2 DEF Sound
    <3> QED BY <3>1
  <2> HIDE DEF T
  <2>2. Max(T) \in T
    BY <1>2, <2>1, MaxFacts
  <2> QED BY <2>1, <2>2 DEF T
<1>4. lost \in SUBSET Nat
  <2>1. Chunks(r.chunks) \subseteq 0 .. r.index
    BY DEF Sound
  <2> QED BY <1>2, <2>1
<1> HIDE DEF top, lost
<1>5. /\ c \in Recorders
      /\ c.chunks = << >> /\ c.saved = r.index /\ c.acknowledged = top /\ c.exposed = lost
      /\ c.open = r.open /\ c.stopped = r.stopped /\ c.mutations = r.mutations
      /\ c.based = r.based /\ c.orphans = r.orphans /\ c.first = r.first
      /\ c.index = r.index /\ c.requests = r.requests
  <2>1. top \in Nat /\ << >> \in Seq(Nat)
    BY <1>2, <1>3
  <2> QED BY <1>2, <1>4, <2>1 DEF Recorders
<1> HIDE DEF c
<1>6. Chunks(c.chunks) = {}
  BY <1>5 DEF Chunks
<1>7. c.first .. c.index \subseteq s \union Chunks(c.chunks) \union c.exposed
  <2>1. r.first .. r.index \subseteq s \union Chunks(r.chunks) \union r.exposed
    BY DEF Sound
  <2> QED BY <1>5, <2>1 DEF lost
<1>8. c.acknowledged <= c.saved /\ c.saved <= c.index
  BY <1>2, <1>3, <1>5
<1>9. Sound(c, s)
  BY <1>5, <1>6, <1>7, <1>8 DEF Sound
<1> QED BY <1>1, <1>5, <1>9 DEF Alike

(* Requests leave the list of those that are awaited.                      *)
LEMMA FewerSound ==
  ASSUME NEW r, NEW s, Sound(r, s), NEW q \in Seq(SUBSET Nat),
         \A i \in DOMAIN q : \E j \in DOMAIN r.requests : q[i] = r.requests[j]
  PROVE  /\ Sound([r EXCEPT !.requests = q], s) /\ Alike(r, [r EXCEPT !.requests = q])
         /\ [r EXCEPT !.requests = q].index = r.index
         /\ [r EXCEPT !.requests = q].exposed = r.exposed
         /\ [r EXCEPT !.requests = q].chunks = r.chunks
         /\ [r EXCEPT !.requests = q].mutations = r.mutations
<1> DEFINE c == [r EXCEPT !.requests = q]
<1>1. r \in Recorders
  BY DEF Sound
<1>2. /\ c \in Recorders /\ c.requests = q
      /\ c.orphans = r.orphans /\ c.first = r.first /\ c.index = r.index
      /\ c.exposed = r.exposed /\ c.chunks = r.chunks
      /\ c.saved = r.saved /\ c.acknowledged = r.acknowledged
      /\ c.open = r.open /\ c.stopped = r.stopped /\ c.mutations = r.mutations
      /\ c.based = r.based
  BY <1>1 DEF Recorders
<1> HIDE DEF c
<1>3. Sound(c, s)
  BY <1>2 DEF Sound
<1> QED BY <1>2, <1>3 DEF c, Alike

LEMMA BooleanParts ==
  ASSUME NEW r \in Recorders
  PROVE  r.open \in BOOLEAN /\ r.stopped \in BOOLEAN /\ r.based \in BOOLEAN
BY DEF Recorders

(* A page begins where sessionStorage says, with nothing of the last one.  *)
LEMMA StartedSound ==
  ASSUME NEW r \in Recorders, ~r.orphans, r.acknowledged <= r.saved, NEW t
  PROVE  Sound(Started(r), t) /\ ~Started(r).open /\ Started(r).mutations = 0
<1> DEFINE c == Started(r)
<1>1. r.page + 1 \in Nat /\ r.saved \in Nat /\ r.saved + 1 \in Nat
      /\ r.acknowledged \in Nat
  BY DEF Recorders
<1>2. << >> \in Seq(SUBSET Nat) /\ << >> \in Seq(Nat)
  OBVIOUS
<1>3. c \in Recorders
  BY ZenonT(30), <1>1, <1>2 DEF Recorders, Started
<1>4. /\ c.orphans = r.orphans /\ c.first = r.saved + 1 /\ c.index = r.saved
      /\ c.requests = << >> /\ c.chunks = << >> /\ c.saved = r.saved
      /\ c.acknowledged = r.acknowledged /\ c.open = FALSE /\ c.mutations = 0
  BY <1>1 DEF Recorders, Started
<1> HIDE DEF c
<1>5. c.first .. c.index = {} /\ DOMAIN c.requests = {} /\ Chunks(c.chunks) = {}
  BY <1>1, <1>4 DEF Chunks
<1>6. Sound(c, t)
  BY <1>1, <1>3, <1>4, <1>5 DEF Sound
<1> QED BY <1>4, <1>6 DEF c

LEMMA ReplayInit_Inv == ReplayInit => ReplayInv
<1> SUFFICES ASSUME ReplayInit PROVE ReplayInv
  OBVIOUS
<1>1. << >> \in Seq(SUBSET Nat) /\ << >> \in Seq(Nat)
  OBVIOUS
<1>2. /\ NoPage \in Recorders /\ ~NoPage.orphans
      /\ NoPage.acknowledged = 0 /\ NoPage.saved = 0
  BY <1>1 DEF NoPage, Recorders
<1>3. Sound(Started(NoPage), stored) /\ ~Started(NoPage).open
  <2>1. NoPage.acknowledged <= NoPage.saved
    BY <1>2
  <2> QED BY <1>2, <2>1, StartedSound
<1> QED BY <1>3 DEF ReplayInit, ReplayInv, Based

LEMMA Visitor_Inv == ReplayInv /\ Visitor => ReplayInv'
<1> SUFFICES ASSUME ReplayInv, Visitor PROVE ReplayInv'
  OBVIOUS
<1>1. Sound(recorder, stored) /\ Based(recorder) /\ stored' = stored
      /\ ~recorder.stopped /\ recorder \in Recorders
  BY DEF ReplayInv, Visitor, Hooked, Sound
<1>2. /\ Sound(Queued(recorder, "input"), stored)
      /\ Alike(recorder, Queued(recorder, "input"))
  <2>1. "input" # "route" /\ "input" # "full_snapshot" /\ "input" # "mutation"
    OBVIOUS
  <2> DEFINE q == Queued(recorder, "input")
  <2>2. /\ Sound(q, stored)
        /\ q.open = recorder.open /\ q.stopped = recorder.stopped
        /\ q.based = ("input" = "full_snapshot" \/ (recorder.based /\ "input" # "route"))
    BY <1>1, <2>1, QueuedSound
  <2> HIDE DEF q
  <2>3. q.based = recorder.based
    BY <1>1, <2>1, <2>2, BooleanParts
  <2> QED BY <2>2, <2>3 DEF Alike, q
<1>3. CASE recorder' = Queued(recorder, "input")
  BY <1>1, <1>2, <1>3 DEF ReplayInv, Based, Alike
<1>4. CASE recorder' = Routed(recorder)
  <2> DEFINE f == Flushed(recorder)
             q == Queued(f, "route")
             c == [q EXCEPT !.open = FALSE, !.mutations = 0, !.mutationTimer = FALSE,
                            !.snapshotTimer = TRUE]
  <2>1. Sound(f, stored) /\ f.mutations = 0
    BY <1>1, FlushedSound
  <2> HIDE DEF f
  <2>2. Sound(q, stored)
    <3>1. "route" # "mutation"
      OBVIOUS
    <3> QED BY <2>1, <3>1, QueuedSound
  <2>3. recorder' = c
    BY <1>4 DEF Routed, f
  <2> HIDE DEF q
  <2>4. c \in Recorders /\ SameChunks(q, c) /\ c.open = FALSE
    BY <2>2 DEF Sound, Recorders, SameChunks
  <2> HIDE DEF c
  <2>5. Sound(c, stored)
    BY <2>2, <2>4, Beside
  <2> QED BY <1>1, <2>3, <2>4, <2>5 DEF ReplayInv, Based
<1>5. CASE recorder' = [Queued(recorder, "input") EXCEPT !.snapshotTimer = TRUE]
  <2> DEFINE q == Queued(recorder, "input")
             c == [q EXCEPT !.snapshotTimer = TRUE]
  <2> HIDE DEF q
  <2>1. /\ c \in Recorders /\ SameChunks(q, c) /\ c.open = q.open
        /\ c.stopped = q.stopped /\ c.mutations = q.mutations
    BY <1>2 DEF Sound, Recorders, SameChunks, q
  <2> HIDE DEF c
  <2>2. Sound(c, stored)
    <3>1. c.open /\ ~c.stopped /\ c.mutations # 0 => c.based
      BY <1>2, <2>1 DEF Sound, SameChunks, q
    <3> QED BY <1>2, <2>1, <3>1, Beside DEF q
  <2>3. Based(c)
    BY <1>1, <1>2, <2>1 DEF Based, Alike, SameChunks, q
  <2> QED BY <1>1, <1>5, <2>2, <2>3 DEF ReplayInv, c, q
<1>6. CASE recorder.open /\ recorder' = Observed(recorder)
  <2>0. recorder.based /\ recorder.mutations + 1 \in Nat
    BY <1>1, <1>6 DEF Based, Recorders
  <2> DEFINE a == [recorder EXCEPT !.mutations = recorder.mutations + 1, !.mutationTimer = FALSE]
             f == MutationsFlushed(a)
             b == [recorder EXCEPT !.mutations = recorder.mutations + 1, !.mutationTimer = TRUE]
             c == [f EXCEPT !.captures.overflow = f.captures.overflow + 1]
  <2>1. /\ a \in Recorders /\ SameChunks(recorder, a)
        /\ a.open = recorder.open /\ a.stopped = recorder.stopped
        /\ b \in Recorders /\ SameChunks(recorder, b)
        /\ b.open = recorder.open /\ b.stopped = recorder.stopped
    BY <1>1, <2>0 DEF Recorders, SameChunks
  <2>2. recorder' = c \/ recorder' = b
    BY <1>6 DEF Observed
  <2> HIDE DEF a, b
  <2>3. Sound(a, stored) /\ Sound(b, stored) /\ Based(a) /\ Based(b)
    <3>1. a.based /\ b.based
      BY <2>0, <2>1 DEF SameChunks
    <3> QED BY <1>1, <2>1, <3>1, Beside DEF Based
  <2>4. Sound(f, stored) /\ Alike(a, f) /\ f.mutations = 0
    BY <2>3, MutationsFlushedSound
  <2> HIDE DEF f
  <2>5. f \in Recorders /\ f.captures.overflow + 1 \in Nat
    BY <2>4 DEF Sound, Recorders
  <2>6. c \in Recorders /\ SameChunks(f, c)
        /\ c.open = f.open /\ c.stopped = f.stopped /\ c.mutations = f.mutations
    BY <2>5 DEF Recorders, SameChunks
  <2> HIDE DEF c
  <2>7. Sound(c, stored)
    BY <2>4, <2>6, Beside
  <2>8. Based(c)
    BY <2>3, <2>4, <2>6 DEF Based, Alike, SameChunks
  <2> QED BY <1>1, <2>2, <2>3, <2>7, <2>8 DEF ReplayInv
<1> QED BY <1>3, <1>4, <1>5, <1>6 DEF Visitor, Input

LEMMA ExposedSound ==
  ASSUME NEW r, NEW s, Sound(r, s), NEW x \in SUBSET Nat
  PROVE  LET c == [r EXCEPT !.exposed = r.exposed \union x]
         IN /\ Sound(c, s) /\ Alike(r, c)
            /\ c.index = r.index /\ c.chunks = r.chunks /\ c.exposed = r.exposed \union x
<1> DEFINE c == [r EXCEPT !.exposed = r.exposed \union x]
<1>1. r \in Recorders
  BY DEF Sound
<1>2. /\ c \in Recorders /\ c.requests = r.requests
      /\ c.orphans = r.orphans /\ c.first = r.first /\ c.index = r.index
      /\ c.exposed = r.exposed \union x /\ c.chunks = r.chunks
      /\ c.saved = r.saved /\ c.acknowledged = r.acknowledged
      /\ c.open = r.open /\ c.stopped = r.stopped /\ c.mutations = r.mutations
      /\ c.based = r.based
  BY <1>1 DEF Recorders
<1> HIDE DEF c
<1>3. c.first .. c.index \subseteq s \union Chunks(c.chunks) \union c.exposed
  BY <1>2 DEF Sound
<1>4. Sound(c, s)
  BY <1>2, <1>3 DEF Sound
<1> QED BY <1>2, <1>4 DEF c, Alike

LEMMA HiddenSound ==
  ASSUME NEW r, NEW s, Sound(r, s), NEW beacon \in BOOLEAN
  PROVE  Sound(FlushedHidden(r, beacon), s) /\ Alike(r, FlushedHidden(r, beacon))
<1> DEFINE f == Flushed(r)
           sent == Chunks(f.chunks)
           q == Front(f.requests)
           g == [f EXCEPT !.requests = q]
           h == [f EXCEPT !.requests = q, !.exposed = f.exposed \union sent]
<1>1. /\ Sound(f, s) /\ Alike(r, f)
      /\ sent # {} => Len(f.requests) \in Nat \ {0}
  BY FlushedSound
<1>2. FlushedHidden(r, beacon) = IF beacon /\ sent # {} THEN Succeeded(h, sent) ELSE f
  BY DEF FlushedHidden
<1> HIDE DEF f
<1>3. CASE ~ (beacon /\ sent # {})
  BY <1>1, <1>2, <1>3
<1>4. CASE beacon /\ sent # {}
  <2>1. /\ f \in Recorders /\ f.requests \in Seq(SUBSET Nat) /\ f.index \in Nat
        /\ Len(f.requests) \in Nat \ {0} /\ sent \subseteq 0 .. f.index
        /\ f.exposed \in SUBSET Nat
    BY <1>1, <1>4 DEF Sound, Recorders
  <2>2. /\ q \in Seq(SUBSET Nat)
        /\ \A i \in DOMAIN q : \E j \in DOMAIN f.requests : q[i] = f.requests[j]
    <3> DEFINE all == f.requests
               n == Len(all) - 1
    <3>1. all \in Seq(SUBSET Nat) /\ n \in 0 .. Len(all) /\ DOMAIN all = 1 .. Len(all)
          /\ q = SubSeq(all, 1, n)
      BY <2>1, LenProperties DEF Front
    <3> HIDE DEF all, n
    <3>2. /\ SubSeq(all, 1, n) \in Seq(SUBSET Nat) /\ DOMAIN SubSeq(all, 1, n) = 1 .. n
          /\ \A i \in 1 .. n : SubSeq(all, 1, n)[i] = all[i]
      BY <3>1, PrefixFacts
    <3>3. \A i \in 1 .. n : i \in 1 .. Len(all)
      BY <3>1
    <3> QED BY <3>1, <3>2, <3>3 DEF all
  <2> HIDE DEF q
  <2>3. /\ Sound(g, s) /\ Alike(f, g) /\ g.index = f.index /\ g.chunks = f.chunks
        /\ g.exposed = f.exposed
    BY <1>1, <2>2, FewerSound
  <2>4. h = [g EXCEPT !.exposed = g.exposed \union sent]
    BY <2>1, <2>2, <2>3 DEF Recorders
  <2> HIDE DEF g, h
  <2>5. sent \in SUBSET Nat
    BY <2>1
  <2>6. Sound(h, s) /\ Alike(g, h) /\ h.index = g.index /\ h.exposed = g.exposed \union sent
    BY <2>3, <2>4, <2>5, ExposedSound
  <2>7. sent \in SUBSET (0 .. h.index) /\ sent \subseteq s \union h.exposed
    BY <2>1, <2>3, <2>6
  <2> HIDE DEF sent
  <2>8. Sound(Succeeded(h, sent), s) /\ Alike(h, Succeeded(h, sent))
    BY <2>6, <2>7, SucceededSound
  <2> QED BY <1>1, <1>2, <1>4, <2>3, <2>6, <2>8 DEF Alike
<1> QED BY <1>3, <1>4

LEMMA Hidden_Inv == ReplayInv /\ Hidden => ReplayInv'
<1> SUFFICES ASSUME ReplayInv, Hidden PROVE ReplayInv'
  OBVIOUS
<1>1. stored' = stored /\ Sound(recorder, stored) /\ Based(recorder)
  BY DEF Hidden, ReplayInv
<1>2. PICK beacon \in BOOLEAN, leaves \in BOOLEAN :
        recorder' = IF ~leaves THEN FlushedHidden(recorder, beacon)
                    ELSE [FlushedHidden(recorder, beacon) EXCEPT
                            !.stopped = TRUE, !.flushTimer = FALSE,
                            !.mutationTimer = FALSE, !.snapshotTimer = FALSE]
  BY DEF Hidden, Input
<1> DEFINE f == FlushedHidden(recorder, beacon)
           c == [f EXCEPT !.stopped = TRUE, !.flushTimer = FALSE,
                          !.mutationTimer = FALSE, !.snapshotTimer = FALSE]
<1>3. Sound(f, stored) /\ Alike(recorder, f)
  BY <1>1, HiddenSound
<1> HIDE DEF f
<1>4. c \in Recorders /\ SameChunks(f, c) /\ c.stopped = TRUE
  BY <1>3 DEF Sound, Recorders, SameChunks
<1> HIDE DEF c
<1>5. Sound(c, stored) /\ Based(c)
  BY <1>3, <1>4, Beside DEF Based
<1>6. recorder' = f \/ recorder' = c
  BY <1>2 DEF f, c
<1>7. Based(f)
  BY <1>1, <1>3 DEF Based, Alike
<1> QED BY <1>1, <1>3, <1>5, <1>6, <1>7 DEF ReplayInv

LEMMA LoadPage_Inv == ReplayInv /\ LoadPage => ReplayInv'
<1> SUFFICES ASSUME ReplayInv, LoadPage PROVE ReplayInv'
  OBVIOUS
<1> DEFINE b == Started(recorder)
           q == Queued(b, "route")
<1>1. recorder \in Recorders /\ ~recorder.orphans /\ recorder.acknowledged <= recorder.saved
  BY DEF ReplayInv, Sound
<1>2. Sound(b, stored') /\ ~b.open /\ b.mutations = 0
  BY <1>1, StartedSound
<1> HIDE DEF b
<1>3. Sound(q, stored') /\ q.open = b.open
  <2>1. "route" # "mutation"
    OBVIOUS
  <2> QED BY <1>2, <2>1, QueuedSound
<1>4. recorder' = b \/ recorder' = q
  BY DEF LoadPage, Input, b
<1> QED BY <1>2, <1>3, <1>4 DEF ReplayInv, Based

LEMMA Timers_Inv == ReplayInv /\ (FlushTimer \/ MutationTimer \/ SnapshotTimer) => ReplayInv'
<1> SUFFICES ASSUME ReplayInv, FlushTimer \/ MutationTimer \/ SnapshotTimer PROVE ReplayInv'
  OBVIOUS
<1>1. stored' = stored /\ Sound(recorder, stored) /\ Based(recorder) /\ recorder \in Recorders
  BY DEF FlushTimer, MutationTimer, SnapshotTimer, Internal, ReplayInv, Sound
<1>2. CASE FlushTimer
  <2>1. recorder' = Flushed(recorder)
    BY <1>2 DEF FlushTimer, Internal
  <2> QED BY <1>1, <2>1, FlushedSound DEF ReplayInv, Based, Alike
<1>3. CASE MutationTimer
  <2> DEFINE a == [recorder EXCEPT !.mutationTimer = FALSE]
  <2>1. recorder' = MutationsFlushed(a)
    BY <1>3 DEF MutationTimer, Internal
  <2>2. /\ a \in Recorders /\ SameChunks(recorder, a) /\ a.open = recorder.open
        /\ a.stopped = recorder.stopped
    BY <1>1 DEF Recorders, SameChunks
  <2> HIDE DEF a
  <2>3. Sound(a, stored) /\ Based(a)
    BY <1>1, <2>2, Beside DEF Based, SameChunks
  <2> QED BY <1>1, <2>1, <2>3, MutationsFlushedSound DEF ReplayInv, Based, Alike
<1>4. CASE SnapshotTimer
  <2> DEFINE a == [recorder EXCEPT !.snapshotTimer = FALSE, !.mutations = 0,
                     !.mutationTimer = FALSE,
                     !.captures.route = recorder.captures.route + 1]
  <2>1. recorder' = a /\ recorder.captures.route + 1 \in Nat
    BY <1>1, <1>4 DEF SnapshotTimer, Internal, Recorders
  <2>2. /\ a \in Recorders /\ SameChunks(recorder, a) /\ a.open = recorder.open
        /\ a.stopped = recorder.stopped
    BY <1>1, <2>1 DEF Recorders, SameChunks
  <2> HIDE DEF a
  <2>3. Sound(a, stored) /\ Based(a)
    BY <1>1, <2>2, Beside DEF Based, SameChunks
  <2> QED BY <1>1, <2>1, <2>3 DEF ReplayInv
<1> QED BY <1>2, <1>3, <1>4

LEMMA LayoutStable_Inv ==
  ASSUME ReplayInv, NEW reason \in {"init", "route", "overflow"}, LayoutStable(reason)
  PROVE  ReplayInv'
<1> DEFINE a == [recorder EXCEPT !.captures[reason] = recorder.captures[reason] - 1]
           q == Queued(a, "full_snapshot")
           c == [q EXCEPT !.open = q.open \/ reason # "overflow"]
<1>1. stored' = stored /\ Sound(recorder, stored) /\ Based(recorder) /\ recorder \in Recorders
  BY DEF LayoutStable, Internal, ReplayInv, Sound
<1>2. recorder' = c
  BY DEF LayoutStable, Internal
<1>3. recorder.captures[reason] - 1 \in Nat
  BY <1>1 DEF LayoutStable, Recorders
<1>4. /\ a \in Recorders /\ SameChunks(recorder, a) /\ a.open = recorder.open
      /\ a.stopped = recorder.stopped
  BY <1>1, <1>3 DEF Recorders, SameChunks
<1> HIDE DEF a
<1>5. Sound(a, stored) /\ Based(a)
  BY <1>1, <1>4, Beside DEF Based, SameChunks
<1>6. /\ Sound(q, stored) /\ q.open = a.open /\ q.stopped = a.stopped
      /\ ~a.stopped => q.based
  <2>1. "full_snapshot" # "mutation" /\ "full_snapshot" # "route"
    OBVIOUS
  <2>2. /\ Sound(q, stored) /\ q.open = a.open /\ q.stopped = a.stopped
        /\ ~a.stopped => q.based = ("full_snapshot" = "full_snapshot"
                                      \/ (a.based /\ "full_snapshot" # "route"))
    BY <1>5, <2>1, QueuedSound
  <2> HIDE DEF q
  <2> QED BY <2>2
<1> HIDE DEF q
<1>7. c \in Recorders /\ SameChunks(q, c) /\ c.stopped = q.stopped
  <2>1. q \in Recorders /\ q.open \in BOOLEAN
    BY <1>6 DEF Sound, Recorders
  <2> QED BY <2>1 DEF Recorders, SameChunks
<1> HIDE DEF c
<1>8. ~c.stopped => c.based
  BY <1>6, <1>7 DEF SameChunks
<1>9. Sound(c, stored)
  BY <1>6, <1>7, <1>8, Beside
<1> QED BY <1>1, <1>2, <1>8, <1>9 DEF ReplayInv, Based

LEMMA Write_Inv ==
  ASSUME ReplayInv, NEW i \in DOMAIN recorder.requests, Write(i)
  PROVE  ReplayInv'
<1>1. recorder' = recorder /\ stored \subseteq stored'
  BY DEF Write
<1> QED BY <1>1 DEF ReplayInv, Sound, Based

LEMMA AnsweredSound ==
  ASSUME ReplayInv, NEW i \in DOMAIN recorder.requests
  PROVE  /\ Sound(Answered(i), stored) /\ Alike(recorder, Answered(i))
         /\ Answered(i).index = recorder.index
<1> DEFINE all == recorder.requests
           p == SubSeq(all, 1, i - 1)
           t == SubSeq(all, i + 1, Len(all))
           q == RemoveAt(all, i)
<1>1. /\ Sound(recorder, stored) /\ all \in Seq(SUBSET Nat) /\ Len(all) \in Nat
      /\ DOMAIN all = 1 .. Len(all) /\ i \in 1 .. Len(all)
  BY LenProperties DEF ReplayInv, Sound, Recorders
<1>2. Answered(i) = [recorder EXCEPT !.requests = q] /\ q = p \o t
  BY DEF Answered, RemoveAt
<1> HIDE DEF all
<1>3. /\ p \in Seq(SUBSET Nat) /\ Len(p) = i - 1 /\ \A j \in 1 .. i - 1 : p[j] = all[j]
      /\ t \in Seq(SUBSET Nat) /\ Len(t) = Len(all) - i
      /\ \A j \in 1 .. Len(all) - i : t[j] = all[i + j]
  <2>1. i - 1 \in 0 .. Len(all)
    BY <1>1
  <2> QED BY SMTT(30), <1>1, <2>1, PrefixFacts, SuffixFacts
<1> HIDE DEF p, t
<1>4. /\ q \in Seq(SUBSET Nat) /\ Len(q) = Len(p) + Len(t)
      /\ \A j \in 1 .. Len(p) + Len(t) : q[j] = IF j <= Len(p) THEN p[j] ELSE t[j - Len(p)]
  <2> HIDE DEF q
  <2>1. q = p \o t /\ p \in Seq(SUBSET Nat) /\ t \in Seq(SUBSET Nat)
    BY <1>2, <1>3
  <2> QED BY ONLY <2>1, ConcatProperties
<1> HIDE DEF q
<1>5. \A j \in DOMAIN q : \E k \in DOMAIN all : q[j] = all[k]
  <2> SUFFICES ASSUME NEW j \in 1 .. Len(p) + Len(t)
               PROVE  \E k \in 1 .. Len(all) : q[j] = all[k]
    BY <1>1, <1>4, LenProperties
  <2>1. CASE j <= Len(p)
    BY <1>1, <1>3, <1>4, <2>1
  <2>2. CASE ~ (j <= Len(p))
    <3>1. j - Len(p) \in 1 .. Len(all) - i /\ i + (j - Len(p)) \in 1 .. Len(all)
      BY <1>1, <1>3, <2>2
    <3> QED BY <1>3, <1>4, <2>2, <3>1
  <2> QED BY <2>1, <2>2
<1>6. \A j \in DOMAIN q : \E k \in DOMAIN recorder.requests : q[j] = recorder.requests[k]
  BY <1>5 DEF all
<1>7. /\ Sound([recorder EXCEPT !.requests = q], stored)
      /\ Alike(recorder, [recorder EXCEPT !.requests = q])
      /\ [recorder EXCEPT !.requests = q].index = recorder.index
  BY <1>1, <1>4, <1>6, FewerSound
<1> QED BY <1>2, <1>7

LEMMA Answer_Inv ==
  ASSUME ReplayInv, NEW i \in DOMAIN recorder.requests, Succeeds(i) \/ Fails(i)
  PROVE  ReplayInv'
<1> DEFINE a == Answered(i)
           sent == recorder.requests[i]
<1>1. /\ Sound(a, stored) /\ Alike(recorder, a) /\ a.index = recorder.index
  BY AnsweredSound
<1>2. stored' = stored /\ Based(recorder) /\ sent \in SUBSET (0 .. recorder.index)
  BY DEF Succeeds, Fails, Internal, ReplayInv, Sound
<1>3. CASE Succeeds(i)
  <2>1. recorder' = Succeeded(a, sent) /\ sent \subseteq stored
    BY <1>3 DEF Succeeds, Internal
  <2> HIDE DEF a, sent
  <2>2. Sound(recorder', stored) /\ Alike(a, recorder')
    BY <1>1, <1>2, <2>1, SucceededSound
  <2> QED BY <1>1, <1>2, <2>2 DEF ReplayInv, Based, Alike
<1>4. CASE Fails(i)
  BY <1>1, <1>2, <1>4 DEF Fails, Internal, ReplayInv, Based, Alike
<1> QED BY <1>3, <1>4

LEMMA ReplayNext_Inv == ReplayInv /\ [ReplayNext]_replayVars => ReplayInv'
<1>1. ReplayInv /\ UNCHANGED replayVars => ReplayInv'
  BY DEF replayVars, ReplayInv
<1> QED BY <1>1, Visitor_Inv, Hidden_Inv, LoadPage_Inv, Timers_Inv, LayoutStable_Inv,
           Write_Inv, Answer_Inv DEF ReplayNext

LEMMA ReplaySafe == ReplaySpec => []ReplayInv
BY ReplayInit_Inv, ReplayNext_Inv, PTL DEF ReplaySpec

(* No DOM mutation is recorded without a full snapshot of its route before *)
(* it, however routes, timers and snapshots overlap (replay.js:1146).      *)
THEOREM MutationsHaveBaseHolds == ReplaySpec => []MutationsHaveBase
<1>1. ReplayInv => MutationsHaveBase
  BY DEF ReplayInv, Sound, MutationsHaveBase
<1> QED BY <1>1, ReplaySafe, PTL

(* A chunk that is not stored, pending or in a request was dropped by the  *)
(* limit, given to a beacon, or emptied by another answer.                 *)
THEOREM ChunksAccountedHolds == ReplaySpec => []ChunksAccounted
<1>1. ReplayInv => ChunksAccounted
  BY DEF ReplayInv, Sound, ChunksAccounted
<1> QED BY <1>1, ReplaySafe, PTL

(* The next page continues after every chunk whose request was answered    *)
(* with success to a page that was still there.                            *)
THEOREM IndexesContinueHolds == ReplaySpec => []IndexesContinue
<1>1. ReplayInv => IndexesContinue
  BY DEF ReplayInv, Sound, IndexesContinue
<1> QED BY <1>1, ReplaySafe, PTL
-----------------------------------------------------------------------------
(* The funnel.                                                             *)
FunnelInv ==
  /\ now \in Nat
  /\ trail \in Seq([at : Nat, matches : SUBSET (1 .. FunnelSteps)])
  /\ \A i, j \in 1 .. Len(trail) : i <= j => trail[i].at <= trail[j].at
  /\ \A i \in 1 .. Len(trail) : trail[i].at <= now

LEMMA FunnelNumbers ==
  FunnelSteps \in Nat \ {0} /\ FunnelWindow \in Nat
  /\ \A s \in FunnelMatches : s \in SUBSET (1 .. FunnelSteps)
BY FunnelAssumption

LEMMA FunnelInit_Inv == ClockInit /\ FunnelInit => FunnelInv
BY DEF ClockInit, FunnelInit, FunnelInv

LEMMA TrailFacts ==
  ASSUME FunnelInv
  PROVE  /\ Len(trail) \in Nat /\ DOMAIN trail = 1 .. Len(trail)
         /\ \A i \in 1 .. Len(trail) :
              trail[i].at \in Nat /\ trail[i].matches \in SUBSET (1 .. FunnelSteps)
         /\ \A i, j \in 1 .. Len(trail) : i <= j => trail[i].at <= trail[j].at
<1>1. \A i \in 1 .. Len(trail) : trail[i] \in [at : Nat, matches : SUBSET (1 .. FunnelSteps)]
  BY ElementOfSeq DEF FunnelInv
<1> QED BY <1>1, LenProperties DEF FunnelInv

LEMMA FunnelNext_Inv == FunnelInv /\ [FunnelNext]_<<trail, now>> => FunnelInv'
<1> SUFFICES ASSUME FunnelInv, [FunnelNext]_<<trail, now>> PROVE FunnelInv'
  OBVIOUS
<1>1. CASE UNCHANGED <<trail, now>>
  BY <1>1 DEF FunnelInv
<1>2. CASE Elapse /\ UNCHANGED trail
  <2>1. now' \in Nat /\ now <= now' /\ now \in Nat /\ trail' = trail
    BY <1>2 DEF FunnelInv, Elapse
  <2>2. \A i \in 1 .. Len(trail) : trail[i].at <= now'
    BY <2>1, TrailFacts DEF FunnelInv
  <2> QED BY <2>1, <2>2 DEF FunnelInv
<1>3. ASSUME NEW s \in FunnelMatches, Occur(s) PROVE FunnelInv'
  <2> DEFINE e == [at |-> now, matches |-> s]
  <2>1. /\ trail' = Append(trail, e) /\ now' = now /\ now \in Nat
        /\ e \in [at : Nat, matches : SUBSET (1 .. FunnelSteps)] /\ e.at = now
    BY <1>3, FunnelNumbers DEF Occur, FunnelInv
  <2> HIDE DEF e
  <2>2. /\ trail' \in Seq([at : Nat, matches : SUBSET (1 .. FunnelSteps)])
        /\ Len(trail') = Len(trail) + 1 /\ Len(trail) \in Nat
        /\ trail'[Len(trail) + 1] = e
        /\ \A i \in 1 .. Len(trail) : trail'[i] = trail[i]
    BY <2>1 DEF FunnelInv
  <2>3. \A i \in 1 .. Len(trail') : i = Len(trail) + 1 \/ i \in 1 .. Len(trail)
    BY <2>2
  <2>4. \A i \in 1 .. Len(trail') : trail'[i].at <= now
    BY <2>1, <2>2, <2>3 DEF FunnelInv
  <2>5. \A i, j \in 1 .. Len(trail') : i <= j => trail'[i].at <= trail'[j].at
    <3> TAKE i, j \in 1 .. Len(trail')
    <3>1. CASE j = Len(trail) + 1
      BY <2>1, <2>2, <2>4, <3>1
    <3>2. CASE j # Len(trail) + 1
      <4>1. j \in 1 .. Len(trail) /\ (i <= j => i \in 1 .. Len(trail))
        BY <2>2, <2>3, <3>2
      <4> QED BY <2>2, <4>1 DEF FunnelInv
    <3> QED BY <3>1, <3>2
  <2> QED BY <2>1, <2>2, <2>4, <2>5 DEF FunnelInv
<1> QED BY <1>1, <1>2, <1>3 DEF FunnelNext

(* Events in order for the first "m" steps.                                *)
Climbs(b, m) ==
  /\ b \in [1 .. m -> 1 .. Len(trail)]
  /\ \A i, j \in 1 .. m : i < j => b[i] < b[j]
  /\ \A k \in 1 .. m : k \in trail[b[k]].matches

(* What is no later than something within the window is within it.         *)
LEMMA NoLater ==
  ASSUME NEW a \in Nat, NEW b \in Nat, NEW first \in Nat, NEW window \in Nat,
         a <= b, b - first <= window
  PROVE  a - first <= window
OBVIOUS

Within(start, i) == trail[i].at - trail[start].at <= FunnelWindow

(* "c" is as far as one gets from "start" with the events up to "i", and   *)
(* each of its steps is as early as it can be.                             *)
Reaches(start, c, i) ==
  /\ c \in Seq(1 .. Len(trail)) /\ Len(c) \in 1 .. FunnelSteps /\ c[1] = start
  /\ Climbs(c, Len(c))
  /\ \A k \in 1 .. Len(c) : c[k] <= i /\ Within(start, c[k])
  /\ \A m \in 1 .. FunnelSteps : \A b \in [1 .. m -> 1 .. Len(trail)] :
       Climbs(b, m) /\ start <= b[1] /\ b[m] <= i /\ Within(start, b[m])
         => m <= Len(c) /\ c[m] <= b[m]

(* One event on the walk.                                                  *)
Further(c, i) ==
  IF /\ Len(c) < FunnelSteps
     /\ InWindow(c, i)
     /\ Len(c) + 1 \in trail[i].matches
  THEN Append(c, i)
  ELSE c

LEMMA ClimbsPrefix ==
  ASSUME FunnelInv, NEW m \in Nat, NEW b, Climbs(b, m), NEW n \in 0 .. m
  PROVE  LET p == [k \in 1 .. n |-> b[k]]
         IN Climbs(p, n) /\ p \in [1 .. n -> 1 .. Len(trail)] /\ \A k \in 1 .. n : p[k] = b[k]
<1>1. \A k \in 1 .. n : k \in 1 .. m
  OBVIOUS
<1> QED BY <1>1 DEF Climbs

LEMMA FirstReaches ==
  ASSUME FunnelInv, NEW start \in 1 .. Len(trail), 1 \in trail[start].matches
  PROVE  Reaches(start, <<start>>, start)
<1> DEFINE c == <<start>>
<1>1. c \in Seq(1 .. Len(trail)) /\ Len(c) = 1 /\ c[1] = start
  OBVIOUS
<1> HIDE DEF c
<1>2. 1 \in 1 .. FunnelSteps /\ \A i \in 1 .. 1 : i = 1
  BY FunnelNumbers
<1>3. Climbs(c, 1)
  <2>1. c \in [1 .. 1 -> 1 .. Len(trail)]
    BY <1>1, LenProperties
  <2>2. \A i, j \in 1 .. 1 : ~ (i < j)
    OBVIOUS
  <2> QED BY <1>1, <1>2, <2>1, <2>2 DEF Climbs
<1>4. Within(start, start)
  BY TrailFacts, FunnelNumbers DEF Within
<1>5. ASSUME NEW m \in 1 .. FunnelSteps, NEW b \in [1 .. m -> 1 .. Len(trail)],
             Climbs(b, m), start <= b[1], b[m] <= start
      PROVE  m = 1
  <2>1. m \in Nat /\ 1 \in 1 .. m /\ m \in 1 .. m /\ start \in Nat
    BY TrailFacts
  <2>2. b[1] \in Nat /\ b[m] \in Nat
    BY <2>1, TrailFacts
  <2>3. 1 < m => b[1] < b[m]
    BY <2>1, <1>5 DEF Climbs
  <2> QED BY <1>5, <2>1, <2>2, <2>3
<1>6. start <= start
  BY TrailFacts
<1> QED BY SMTT(30), <1>1, <1>2, <1>3, <1>4, <1>5, <1>6 DEF Reaches, c

LEMMA FurtherReaches ==
  ASSUME FunnelInv, NEW start \in 1 .. Len(trail), NEW i \in start + 1 .. Len(trail),
         NEW c, Reaches(start, c, i - 1)
  PROVE  Reaches(start, Further(c, i), i)
<1> DEFINE d == Further(c, i)
           fits == /\ Len(c) < FunnelSteps /\ Within(start, i)
                   /\ Len(c) + 1 \in trail[i].matches
<1>1. /\ c \in Seq(1 .. Len(trail)) /\ Len(c) \in 1 .. FunnelSteps /\ c[1] = start
      /\ Len(c) \in Nat /\ Climbs(c, Len(c)) /\ FunnelSteps \in Nat
      /\ \A k \in 1 .. Len(c) : c[k] <= i - 1 /\ Within(start, c[k])
  BY FunnelNumbers DEF Reaches
<1>2. d = IF fits THEN Append(c, i) ELSE c
  BY <1>1 DEF Further, InWindow, Within
<1>3. i \in 1 .. Len(trail) /\ i \in Nat /\ i - 1 \in Nat /\ start \in Nat /\ i - 1 < i
  BY TrailFacts
<1>4. \A k \in 1 .. Len(c) : c[k] \in 1 .. Len(trail) /\ c[k] \in Nat
  BY <1>1, ElementOfSeq, TrailFacts
<1>5. /\ d \in Seq(1 .. Len(trail)) /\ Len(d) \in Nat
      /\ Len(d) = IF fits THEN Len(c) + 1 ELSE Len(c)
      /\ \A k \in 1 .. Len(c) : d[k] = c[k]
      /\ fits => d[Len(c) + 1] = i
  <2>1. CASE fits
    <3>1. d = Append(c, i)
      BY <1>2, <2>1
    <3> HIDE DEF d, fits
    <3> QED BY <1>1, <1>3, <2>1, <3>1
  <2>2. CASE ~fits
    BY <1>1, <1>2, <2>2
  <2> QED BY <2>1, <2>2
<1> HIDE DEF d
<1>6. \A k \in 1 .. Len(d) : k \in 1 .. Len(c) \/ (k = Len(c) + 1 /\ fits /\ d[k] = i)
  <2> HIDE DEF fits
  <2> QED BY <1>1, <1>5
<1>7. Climbs(d, Len(d))
  <2>1. d \in [1 .. Len(d) -> 1 .. Len(trail)]
    BY <1>5, LenProperties
  <2>2. \A a, b \in 1 .. Len(d) : a < b => d[a] < d[b]
    <3> SUFFICES ASSUME NEW a \in 1 .. Len(d), NEW b \in 1 .. Len(d), a < b
                 PROVE  d[a] < d[b]
      OBVIOUS
    <3>1. a \in 1 .. Len(c)
      <4>1. /\ a \in 1 .. Len(c) \/ a = Len(c) + 1
            /\ b \in 1 .. Len(c) \/ b = Len(c) + 1
        BY <1>6
      <4>2. Len(c) \in Nat
        BY <1>1
      <4> QED BY ONLY a < b, <4>1, <4>2
    <3>2. CASE b \in 1 .. Len(c)
      BY <1>1, <1>5, <3>1, <3>2 DEF Climbs
    <3>3. CASE d[b] = i
      <4>1. c[a] <= i - 1 /\ c[a] \in Nat /\ d[a] = c[a]
        BY <1>1, <1>4, <1>5, <3>1
      <4> QED BY ONLY <1>3, <3>3, <4>1
    <3> QED BY <1>6, <3>2, <3>3
  <2>3. \A k \in 1 .. Len(d) : k \in trail[d[k]].matches
    BY <1>1, <1>5, <1>6 DEF Climbs
  <2> QED BY <2>1, <2>2, <2>3 DEF Climbs
<1>8. \A k \in 1 .. Len(d) : d[k] <= i /\ Within(start, d[k])
  <2> TAKE k \in 1 .. Len(d)
  <2>1. CASE k \in 1 .. Len(c)
    BY SMTT(30), <1>1, <1>3, <1>4, <1>5, <2>1
  <2>2. CASE k = Len(c) + 1 /\ fits /\ d[k] = i
    BY <1>3, <2>2
  <2> QED BY <1>6, <2>1, <2>2
<1>9. Len(d) \in 1 .. FunnelSteps /\ d[1] = start
  <2>1. 1 \in 1 .. Len(c) /\ (fits => Len(c) < FunnelSteps)
    BY <1>1
  <2> HIDE DEF fits
  <2> QED BY <1>1, <1>5, <2>1
<1>10. ASSUME NEW m \in 1 .. FunnelSteps, NEW b \in [1 .. m -> 1 .. Len(trail)],
              Climbs(b, m), start <= b[1], b[m] <= i, Within(start, b[m])
       PROVE  m <= Len(d) /\ d[m] <= b[m]
  <2>1. /\ m \in Nat /\ m \in 1 .. m /\ 1 \in 1 .. m /\ b[m] \in 1 .. Len(trail)
        /\ b[m] \in Nat /\ Len(c) <= Len(d)
    <3> HIDE DEF fits
    <3> QED BY SMTT(30), <1>1, <1>5, TrailFacts
  <2>2. CASE b[m] <= i - 1
    <3>1. m <= Len(c) /\ c[m] <= b[m]
      BY <1>10, <2>2 DEF Reaches
    <3>2. m \in 1 .. Len(c)
      BY <1>1, <2>1, <3>1
    <3>3. d[m] = c[m]
      BY <1>5, <3>2
    <3>4. m <= Len(d)
      BY ONLY <1>1, <1>5, <2>1, <3>1
    <3> QED BY <3>1, <3>3, <3>4
  <2>3. CASE b[m] = i /\ m = 1
    BY <1>3, <1>5, <1>9, <2>1, <2>3
  <2>4. CASE b[m] = i /\ m # 1
    <3> DEFINE n == m - 1
               p == [k \in 1 .. n |-> b[k]]
    <3>1. n \in 1 .. FunnelSteps /\ n \in 0 .. m /\ n \in 1 .. m /\ n < m /\ 1 \in 1 .. n
          /\ n + 1 = m /\ n \in 1 .. n
      BY ONLY <1>1, <2>1, <2>4, m \in 1 .. FunnelSteps
    <3> HIDE DEF n
    <3>2. /\ Climbs(p, n) /\ p \in [1 .. n -> 1 .. Len(trail)]
          /\ p[1] = b[1] /\ p[n] = b[n]
      BY <1>10, <2>1, <3>1, ClimbsPrefix
    <3> HIDE DEF p
    <3>3. b[n] \in 1 .. Len(trail) /\ b[n] < b[m] /\ b[n] \in Nat
      BY <1>10, <2>1, <3>1, TrailFacts DEF Climbs
    <3>4. b[n] <= i - 1
      BY <1>3, <2>4, <3>3
    <3>5. Within(start, b[n])
      <4>1. /\ trail[b[n]].at <= trail[i].at /\ trail[b[n]].at \in Nat
            /\ trail[i].at \in Nat /\ trail[start].at \in Nat
        BY <1>3, <2>4, <3>3, TrailFacts
      <4>2. trail[i].at - trail[start].at <= FunnelWindow
        BY <1>10, <2>4 DEF Within
      <4>3. FunnelWindow \in Nat
        BY FunnelNumbers
      <4>4. trail[b[n]].at - trail[start].at <= FunnelWindow
        BY ONLY <4>1, <4>2, <4>3, NoLater
      <4> QED BY <4>4 DEF Within
    <3>6. n <= Len(c)
      BY <1>10, <3>1, <3>2, <3>4, <3>5 DEF Reaches
    <3>7. CASE m <= Len(c)
      <4>1. m \in 1 .. Len(c)
        BY <1>1, <2>1, <3>7
      <4>2. d[m] <= i
        BY <1>5, <1>8, <2>1, <3>7
      <4> QED BY <1>1, <1>5, <2>1, <2>4, <3>7, <4>2
    <3>8. CASE m = Len(c) + 1
      <4>1. fits
        BY <1>1, <1>10, <2>1, <2>4, <3>8 DEF Climbs
      <4> HIDE DEF fits
      <4> QED BY <1>3, <1>5, <2>4, <3>8, <4>1
    <3>9. n \in Nat
      BY ONLY <3>1
    <3>10. m <= Len(c) \/ m = Len(c) + 1
      BY ONLY SMTT(30), <1>1, <3>1, <3>6, <3>9, <2>1
    <3> QED BY <3>7, <3>8, <3>10
  <2>5. b[m] <= i - 1 \/ b[m] = i
    BY <1>3, <1>10, <2>1
  <2> QED BY <2>2, <2>3, <2>4, <2>5
<1> QED BY <1>5, <1>7, <1>8, <1>9, <1>10 DEF Reaches, d

(* The walk is the value of a function like this one.                      *)
IsWalk(h, start) ==
  h = [i \in start .. Len(trail) |->
         IF i = start THEN <<start>>
         ELSE LET before == h[i - 1]
              IN IF /\ Len(before) < FunnelSteps
                    /\ InWindow(before, i)
                    /\ Len(before) + 1 \in trail[i].matches
                 THEN Append(before, i)
                 ELSE before]

LEMMA WalkValue ==
  ASSUME NEW start, NEW g, IsWalk(g, start)
  PROVE  \E h : IsWalk(h, start) /\ Walk(start) = h[Len(trail)]
BY DEF IsWalk, Walk

LEMMA WalkExists ==
  ASSUME FunnelInv, NEW start \in 1 .. Len(trail)
  PROVE  \E g : IsWalk(g, start)
<1> DEFINE N == Len(trail)
           V == Seq(1 .. N)
           first == <<start>>
           step == [i \in start + 1 .. N |-> [c \in V |-> Further(c, i)]]
<1>1. start \in Nat /\ N \in Nat /\ start <= N /\ start \in 1 .. N
  BY TrailFacts
<1>2. first \in V
  BY <1>1
<1>3. Stepwise(V, start, N, step)
  <2> SUFFICES ASSUME NEW i \in start + 1 .. N, NEW c \in V PROVE Further(c, i) \in V
    BY DEF Stepwise
  <2>1. i \in 1 .. N
    BY <1>1
  <2>2. Append(c, i) \in V /\ c \in V
    <3> HIDE DEF N
    <3> QED BY <2>1, AppendProperties
  <2>3. Further(c, i) = Append(c, i) \/ Further(c, i) = c
    BY DEF Further
  <2> HIDE DEF V
  <2> QED BY <2>2, <2>3
<1>4. \A i \in start + 1 .. N : \A c \in V : step[i][c] = Further(c, i)
  OBVIOUS
<1> HIDE DEF V, first, step, N
<1>5. PICK g : Unrolls(g, V, start, N, first, step)
  BY ONLY <1>1, <1>2, <1>3, Recursion
<1>6. \A i \in start .. N :
        g[i] = IF i = start THEN first ELSE Further(g[i - 1], i)
  <2> TAKE i \in start .. N
  <2>1. CASE i = start
    BY <1>5, <2>1 DEF Unrolls
  <2>2. CASE i # start
    <3>1. i \in start + 1 .. N /\ i - 1 \in start .. N
      BY ONLY <1>1, <2>2, i \in start .. N
    <3>2. g[i - 1] \in V
      BY <1>5, <3>1 DEF Unrolls
    <3> QED BY <1>4, <1>5, <2>2, <3>1, <3>2 DEF Unrolls
  <2> QED BY <2>1, <2>2
<1>7. g = [i \in start .. N |-> IF i = start THEN first ELSE Further(g[i - 1], i)]
  BY <1>5, <1>6 DEF Unrolls
<1>8. IsWalk(g, start)
  BY <1>7 DEF IsWalk, Further, N, first
<1> QED BY <1>8

LEMMA WalkReaches ==
  ASSUME FunnelInv, NEW start \in 1 .. Len(trail), 1 \in trail[start].matches
  PROVE  Reaches(start, Walk(start), Len(trail))
<1>1. PICK h : IsWalk(h, start) /\ Walk(start) = h[Len(trail)]
  BY WalkValue, WalkExists
<1>2. \A i \in start .. Len(trail) :
        h[i] = IF i = start THEN <<start>> ELSE Further(h[i - 1], i)
  BY <1>1 DEF IsWalk, Further
<1> DEFINE bad == {i \in start .. Len(trail) : ~ Reaches(start, h[i], i)}
<1>3. start \in Nat /\ Len(trail) \in Nat /\ start <= Len(trail)
  BY TrailFacts
<1>4. ASSUME bad # {} PROVE FALSE
  <2>1. bad \in SUBSET Nat
    BY <1>3
  <2> HIDE DEF bad
  <2>2. PICK i \in bad : \A m \in bad : i <= m
    BY <1>4, <2>1, LeastNat
  <2> USE DEF bad
  <2>3. i \in start .. Len(trail) /\ ~ Reaches(start, h[i], i)
    BY <2>2
  <2>4. CASE i = start
    BY <1>2, <2>3, <2>4, FirstReaches
  <2>5. CASE i # start
    <3>1. i \in start + 1 .. Len(trail) /\ i - 1 \in start .. Len(trail) /\ ~ (i <= i - 1)
      BY <1>3, <2>3, <2>5
    <3>2. Reaches(start, h[i - 1], i - 1)
      BY <2>2, <3>1
    <3>3. Reaches(start, Further(h[i - 1], i), i)
      BY <3>1, <3>2, FurtherReaches
    <3> QED BY <1>2, <2>3, <2>5, <3>3
  <2> QED BY <2>4, <2>5
<1>5. Len(trail) \in start .. Len(trail)
  BY <1>3
<1>6. Reaches(start, h[Len(trail)], Len(trail))
  BY <1>4, <1>5
<1> QED BY <1>1, <1>6

(* What a walk is: an attempt, and each of its steps as early as that of   *)
(* any attempt that starts no earlier, whatever the window of that one.    *)
LEMMA WalkFacts ==
  ASSUME FunnelInv, NEW start \in 1 .. Len(trail), 1 \in trail[start].matches
  PROVE  LET c == Walk(start)
         IN /\ c \in Seq(1 .. Len(trail)) /\ Len(c) \in 1 .. FunnelSteps /\ c[1] = start
            /\ Climbs(c, Len(c))
            /\ \A k \in 1 .. Len(c) : Within(start, c[k])
            /\ \A m \in 1 .. FunnelSteps : \A b \in [1 .. m -> 1 .. Len(trail)] :
                 Climbs(b, m) /\ start <= b[1] /\ Within(start, b[m]) => m <= Len(c)
            /\ \A m \in 1 .. FunnelSteps : \A b \in [1 .. m -> 1 .. Len(trail)] :
                 Climbs(b, m) /\ start <= b[1] =>
                   \A k \in 1 .. m : k \in 1 .. Len(c) => c[k] <= b[k]
<1> DEFINE c == Walk(start)
<1>1. Reaches(start, c, Len(trail))
  BY WalkReaches
<1> HIDE DEF c
<1>2. \A i \in 1 .. Len(trail) : i <= Len(trail) /\ i \in Nat
  BY TrailFacts
<1>3. /\ c \in Seq(1 .. Len(trail)) /\ Len(c) \in 1 .. FunnelSteps /\ c[1] = start
      /\ Climbs(c, Len(c)) /\ \A k \in 1 .. Len(c) : Within(start, c[k])
  BY <1>1 DEF Reaches
<1>4. ASSUME NEW m \in 1 .. FunnelSteps, NEW b \in [1 .. m -> 1 .. Len(trail)],
             Climbs(b, m), start <= b[1], Within(start, b[m])
      PROVE  m <= Len(c) /\ c[m] <= b[m]
  <2>1. b[m] <= Len(trail)
    BY <1>2, FunnelNumbers
  <2> QED BY <1>1, <1>4, <2>1 DEF Reaches
<1>5. ASSUME NEW m \in 1 .. FunnelSteps, NEW b \in [1 .. m -> 1 .. Len(trail)],
             Climbs(b, m), start <= b[1], NEW k \in 1 .. m, k \in 1 .. Len(c)
      PROVE  c[k] <= b[k]
  <2>1. /\ b[k] \in 1 .. Len(trail) /\ b[k] \in Nat /\ c[k] \in 1 .. Len(trail) /\ c[k] \in Nat
        /\ m \in Nat /\ start \in Nat
    BY <1>2, <1>3, <1>5, FunnelNumbers, ElementOfSeq
  <2>2. CASE Within(start, b[k])
    <3> DEFINE p == [j \in 1 .. k |-> b[j]]
    <3>1. k \in 0 .. m /\ k \in 1 .. FunnelSteps /\ 1 \in 1 .. k /\ k \in 1 .. k
      BY <2>1, FunnelNumbers
    <3>2. Climbs(p, k) /\ p \in [1 .. k -> 1 .. Len(trail)] /\ p[1] = b[1] /\ p[k] = b[k]
      BY <1>5, <2>1, <3>1, ClimbsPrefix
    <3> HIDE DEF p
    <3> QED BY <1>4, <1>5, <2>2, <3>1, <3>2
  <2>3. CASE ~ Within(start, b[k])
    <3>1. Within(start, c[k])
      BY <1>3, <1>5
    <3>2. /\ trail[b[k]].at \in Nat /\ trail[c[k]].at \in Nat /\ trail[start].at \in Nat
      BY <2>1, TrailFacts
    <3>3. ~ (trail[b[k]].at <= trail[c[k]].at)
      <4>1. /\ ~ (trail[b[k]].at - trail[start].at <= FunnelWindow)
            /\ trail[c[k]].at - trail[start].at <= FunnelWindow
        BY <2>3, <3>1 DEF Within
      <4>2. FunnelWindow \in Nat
        BY FunnelNumbers
      <4> QED BY ONLY SMTT(30), <3>2, <4>1, <4>2
    <3>4. ~ (b[k] <= c[k])
      BY <2>1, <3>3, TrailFacts
    <3> QED BY ONLY <2>1, <3>4
  <2> QED BY <2>2, <2>3
<1> QED BY <1>3, <1>4, <1>5 DEF c

LEMMA NoLaterWalkIsEarlier ==
  ASSUME FunnelInv, NEW s \in 1 .. Len(trail), 1 \in trail[s].matches,
         NEW t \in 1 .. Len(trail), 1 \in trail[t].matches, s <= t
  PROVE  ~ EarlierAttempt(Walk(t), Walk(s))
<1> DEFINE a == Walk(s)
           b == Walk(t)
<1>1. /\ a \in Seq(1 .. Len(trail)) /\ Len(a) \in 1 .. FunnelSteps
      /\ \A m \in 1 .. FunnelSteps : \A d \in [1 .. m -> 1 .. Len(trail)] :
           Climbs(d, m) /\ s <= d[1] => \A k \in 1 .. m : k \in 1 .. Len(a) => a[k] <= d[k]
  BY WalkFacts
<1>2. /\ b \in Seq(1 .. Len(trail)) /\ Len(b) \in 1 .. FunnelSteps /\ b[1] = t
      /\ Climbs(b, Len(b))
  BY WalkFacts
<1> HIDE DEF a, b
<1>3. DOMAIN a = 1 .. Len(a) /\ DOMAIN b = 1 .. Len(b)
  BY <1>1, <1>2, LenProperties
<1> SUFFICES ASSUME NEW k \in DOMAIN b \intersect DOMAIN a, TimesOf(b)[k] < TimesOf(a)[k]
             PROVE  FALSE
  BY DEF EarlierAttempt, a, b
<1>4. k \in 1 .. Len(a) /\ k \in 1 .. Len(b)
  BY <1>3
<1>5. a[k] \in 1 .. Len(trail) /\ b[k] \in 1 .. Len(trail)
  BY <1>1, <1>2, <1>4, ElementOfSeq
<1>6. a[k] <= b[k]
  BY <1>1, <1>2, <1>4 DEF Climbs
<1>7. /\ trail[a[k]].at <= trail[b[k]].at
      /\ trail[a[k]].at \in Nat /\ trail[b[k]].at \in Nat
  BY <1>5, <1>6, TrailFacts
<1>8. trail[b[k]].at < trail[a[k]].at
  BY <1>3, <1>4 DEF TimesOf
<1> QED BY ONLY <1>7, <1>8

(* The best of the walks from the first "n" events: the first of the       *)
(* longest.                                                                *)
BestOfWalks(n, f) ==
  \/ f = << >> /\ \A u \in 1 .. n : 1 \notin trail[u].matches
  \/ \E s \in 1 .. n :
       /\ 1 \in trail[s].matches /\ f = Walk(s)
       /\ \A u \in 1 .. n : 1 \in trail[u].matches =>
            Len(Walk(u)) <= Len(f) /\ (u < s => Len(Walk(u)) < Len(f))

(* One start of the search.                                                *)
Better(f, n) ==
  IF /\ Len(f) < FunnelSteps
     /\ 1 \in trail[n].matches
     /\ Preferred(Walk(n), f)
  THEN Walk(n)
  ELSE f

IsSearch(h) ==
  h = [n \in 0 .. Len(trail) |->
         IF n = 0 THEN << >>
         ELSE LET found == h[n - 1]
              IN IF /\ Len(found) < FunnelSteps
                    /\ 1 \in trail[n].matches
                    /\ Preferred(Walk(n), found)
                 THEN Walk(n)
                 ELSE found]

LEMMA SearchValue ==
  ASSUME NEW g, IsSearch(g)
  PROVE  \E h : IsSearch(h) /\ BestAttempt = h[Len(trail)]
BY DEF IsSearch, BestAttempt

LEMMA SearchExists == FunnelInv => \E g : IsSearch(g)
<1> SUFFICES ASSUME FunnelInv PROVE \E g : IsSearch(g)
  OBVIOUS
<1> DEFINE N == Len(trail)
           V == Seq(1 .. N)
           first == << >>
           zero == 0
           step == [n \in zero + 1 .. N |-> [f \in V |-> Better(f, n)]]
<1>1. N \in Nat /\ zero \in Nat /\ zero <= N
  BY TrailFacts
<1>2. first \in V
  OBVIOUS
<1>3. Stepwise(V, zero, N, step)
  <2> SUFFICES ASSUME NEW n \in zero + 1 .. N, NEW f \in V PROVE Better(f, n) \in V
    BY DEF Stepwise
  <2>1. n \in 1 .. N
    BY <1>1
  <2>2. 1 \in trail[n].matches => Walk(n) \in V
    BY <2>1, WalkFacts
  <2> HIDE DEF V
  <2> QED BY <2>2 DEF Better
<1>4. \A n \in zero + 1 .. N : \A f \in V : step[n][f] = Better(f, n)
  OBVIOUS
<1> HIDE DEF V, first, zero, step, N
<1>5. PICK g : Unrolls(g, V, zero, N, first, step)
  BY ONLY <1>1, <1>2, <1>3, Recursion
<1>6. \A n \in zero .. N : g[n] = IF n = zero THEN first ELSE Better(g[n - 1], n)
  <2> TAKE n \in zero .. N
  <2>1. CASE n = zero
    BY <1>5, <2>1 DEF Unrolls
  <2>2. CASE n # zero
    <3>1. n \in zero + 1 .. N /\ n - 1 \in zero .. N
      BY ONLY <1>1, <2>2, n \in zero .. N
    <3>2. g[n - 1] \in V
      BY <1>5, <3>1 DEF Unrolls
    <3> QED BY <1>4, <1>5, <2>2, <3>1, <3>2 DEF Unrolls
  <2> QED BY <2>1, <2>2
<1>7. g = [n \in zero .. N |-> IF n = zero THEN first ELSE Better(g[n - 1], n)]
  BY <1>5, <1>6 DEF Unrolls
<1>8. IsSearch(g)
  BY <1>7 DEF IsSearch, Better, N, first, zero
<1> QED BY <1>8

LEMMA BetterIsBest ==
  ASSUME FunnelInv, NEW n \in 1 .. Len(trail), NEW f, BestOfWalks(n - 1, f)
  PROVE  BestOfWalks(n, Better(f, n))
<1>1. /\ n \in Nat /\ Len(trail) \in Nat /\ n \in 1 .. n
      /\ \A u \in 1 .. n : u \in 1 .. Len(trail) /\ (u = n \/ u \in 1 .. n - 1)
      /\ \A u \in 1 .. n - 1 : u \in 1 .. n /\ u < n /\ u <= n /\ ~ (n < u)
  BY TrailFacts
<1>2. \A u \in 1 .. n : 1 \in trail[u].matches =>
        Len(Walk(u)) \in 1 .. FunnelSteps /\ Len(Walk(u)) \in Nat
  BY <1>1, WalkFacts, FunnelNumbers
<1>3. CASE 1 \notin trail[n].matches
  <2>1. Better(f, n) = f
    BY <1>3 DEF Better
  <2> QED BY <1>1, <1>3, <2>1 DEF BestOfWalks
<1>4. CASE 1 \in trail[n].matches /\ f = << >> /\ \A u \in 1 .. n - 1 : 1 \notin trail[u].matches
  <2>1. Len(f) = 0 /\ Len(Walk(n)) > 0 /\ Len(f) < FunnelSteps
    BY <1>1, <1>2, <1>4, FunnelNumbers
  <2>2. Better(f, n) = Walk(n)
    BY <1>4, <2>1 DEF Better, Preferred
  <2> QED BY <1>1, <1>2, <1>4, <2>2 DEF BestOfWalks
<1>5. ASSUME 1 \in trail[n].matches, NEW s \in 1 .. n - 1, 1 \in trail[s].matches, f = Walk(s),
             \A u \in 1 .. n - 1 : 1 \in trail[u].matches =>
                Len(Walk(u)) <= Len(f) /\ (u < s => Len(Walk(u)) < Len(f))
      PROVE  BestOfWalks(n, Better(f, n))
  <2>1. ~ EarlierAttempt(Walk(n), f)
    BY <1>1, <1>5, NoLaterWalkIsEarlier
  <2>2. /\ Len(f) \in 1 .. FunnelSteps /\ Len(f) \in Nat
        /\ Len(Walk(n)) \in 1 .. FunnelSteps /\ Len(Walk(n)) \in Nat
    BY <1>1, <1>2, <1>5
  <2>3. Preferred(Walk(n), f) <=> Len(Walk(n)) > Len(f)
    BY <2>1 DEF Preferred
  <2>4. CASE Len(Walk(n)) > Len(f)
    <3>1. Len(f) < FunnelSteps
      BY ONLY <2>2, <2>4, FunnelNumbers
    <3>2. Better(f, n) = Walk(n)
      BY <1>5, <2>3, <2>4, <3>1 DEF Better
    <3>3. \A u \in 1 .. n : 1 \in trail[u].matches =>
            Len(Walk(u)) <= Len(Walk(n)) /\ (u < n => Len(Walk(u)) < Len(Walk(n)))
      <4> SUFFICES ASSUME NEW u \in 1 .. n, 1 \in trail[u].matches
                   PROVE  Len(Walk(u)) <= Len(Walk(n)) /\ (u < n => Len(Walk(u)) < Len(Walk(n)))
        OBVIOUS
      <4>1. CASE u = n
        BY <1>1, <2>2, <4>1
      <4>2. CASE u \in 1 .. n - 1
        <5>1. Len(Walk(u)) <= Len(f) /\ Len(Walk(u)) \in Nat
          BY <1>2, <1>5, <4>2
        <5> QED BY ONLY <2>2, <2>4, <5>1
      <4> QED BY <1>1, <4>1, <4>2
    <3> QED BY <1>1, <1>5, <3>2, <3>3 DEF BestOfWalks
  <2>5. CASE ~ (Len(Walk(n)) > Len(f))
    <3>1. Better(f, n) = f
      BY <2>3, <2>5 DEF Better
    <3>2. Len(Walk(n)) <= Len(f) /\ ~ (n < s)
      BY ONLY <1>1, <2>2, <2>5, s \in 1 .. n - 1
    <3>3. \A u \in 1 .. n : 1 \in trail[u].matches =>
            Len(Walk(u)) <= Len(f) /\ (u < s => Len(Walk(u)) < Len(f))
      BY <1>1, <1>5, <3>2
    <3> QED BY <1>1, <1>5, <3>1, <3>3 DEF BestOfWalks
  <2> QED BY <2>4, <2>5
<1> QED BY <1>3, <1>4, <1>5 DEF BestOfWalks

LEMMA SearchFacts == FunnelInv => BestOfWalks(Len(trail), BestAttempt)
<1> SUFFICES ASSUME FunnelInv PROVE BestOfWalks(Len(trail), BestAttempt)
  OBVIOUS
<1>1. PICK h : IsSearch(h) /\ BestAttempt = h[Len(trail)]
  BY SearchValue, SearchExists
<1>2. \A n \in 0 .. Len(trail) : h[n] = IF n = 0 THEN << >> ELSE Better(h[n - 1], n)
  BY <1>1 DEF IsSearch, Better
<1> DEFINE bad == {n \in 0 .. Len(trail) : ~ BestOfWalks(n, h[n])}
<1>3. Len(trail) \in Nat /\ Len(trail) \in 0 .. Len(trail)
  BY TrailFacts
<1>4. ASSUME bad # {} PROVE FALSE
  <2>1. bad \in SUBSET Nat
    BY <1>3
  <2> HIDE DEF bad
  <2>2. PICK n \in bad : \A m \in bad : n <= m
    BY <1>4, <2>1, LeastNat
  <2> USE DEF bad
  <2>3. n \in 0 .. Len(trail) /\ ~ BestOfWalks(n, h[n])
    BY <2>2
  <2>4. CASE n = 0
    <3>1. h[n] = << >> /\ 1 .. n = {}
      BY <1>2, <2>3, <2>4
    <3> QED BY <2>3, <3>1 DEF BestOfWalks
  <2>5. CASE n # 0
    <3>1. n \in 1 .. Len(trail) /\ n - 1 \in 0 .. Len(trail) /\ ~ (n <= n - 1)
      BY <1>3, <2>3, <2>5
    <3>2. BestOfWalks(n - 1, h[n - 1])
      BY <2>2, <3>1
    <3>3. BestOfWalks(n, Better(h[n - 1], n))
      BY <3>1, <3>2, BetterIsBest
    <3> QED BY <1>2, <2>3, <2>5, <3>3
  <2> QED BY <2>4, <2>5
<1> QED BY <1>1, <1>3, <1>4

(* Each event after the one before it: each after all before it.           *)
LEMMA Rising ==
  ASSUME NEW m \in Nat, NEW a, \A k \in 1 .. m : a[k] \in Nat,
         \A k \in 1 .. m - 1 : a[k] < a[k + 1]
  PROVE  \A i, j \in 1 .. m : i < j => a[i] < a[j]
<1> DEFINE bad == {j \in 1 .. m : \E i \in 1 .. m : i < j /\ ~ (a[i] < a[j])}
<1>1. ASSUME bad # {} PROVE FALSE
  <2>1. bad \in SUBSET Nat
    OBVIOUS
  <2> HIDE DEF bad
  <2>2. PICK j \in bad : \A n \in bad : j <= n
    BY <1>1, <2>1, LeastNat
  <2> USE DEF bad
  <2>3. PICK i \in 1 .. m : i < j /\ ~ (a[i] < a[j])
    BY <2>2
  <2>4. j \in 1 .. m
    BY <2>2
  <2>5. j - 1 \in 1 .. m /\ j - 1 \in 1 .. m - 1 /\ (j - 1) + 1 = j /\ ~ (j <= j - 1)
    BY ONLY <2>3, <2>4, m \in Nat, i \in 1 .. m
  <2>6. a[j - 1] < a[j]
    BY <2>5
  <2>7. i = j - 1 \/ i < j - 1
    BY ONLY <2>3, <2>4, m \in Nat, i \in 1 .. m
  <2>8. a[i] = a[j - 1] \/ a[i] < a[j - 1]
    <3>1. j - 1 \notin bad
      BY <2>2, <2>5
    <3> QED BY <2>5, <2>7, <3>1
  <2>9. a[i] \in Nat /\ a[j - 1] \in Nat /\ a[j] \in Nat
    BY <2>4, <2>5
  <2> QED BY ONLY <2>3, <2>6, <2>8, <2>9
<1> QED BY <1>1

LEMMA AttemptFacts ==
  ASSUME FunnelInv, NEW a \in Attempts
  PROVE  \E m \in 1 .. FunnelSteps :
           /\ m \in Nat /\ Len(a) = m /\ DOMAIN a = 1 .. m
           /\ a \in [1 .. m -> 1 .. Len(trail)] /\ Climbs(a, m) /\ Within(a[1], a[m])
<1>1. DOMAIN trail = 1 .. Len(trail) /\ Len(trail) \in Nat
  BY TrailFacts
<1>2. PICK m \in 1 .. FunnelSteps :
        a \in [1 .. m -> DOMAIN trail] /\ \A k \in 1 .. m - 1 : a[k] < a[k + 1]
  BY DEF Attempts
<1>3. /\ \A k \in DOMAIN a : k \in trail[a[k]].matches
      /\ trail[a[Len(a)]].at - trail[a[1]].at <= FunnelWindow
  BY DEF Attempts
<1>4. m \in Nat /\ a \in [1 .. m -> 1 .. Len(trail)] /\ DOMAIN a = 1 .. m
  BY <1>1, <1>2, FunnelNumbers
<1>5. a \in Seq(1 .. Len(trail))
  BY <1>4, SeqDef
<1>6. Len(a) = m
  <2>1. DOMAIN a = 1 .. Len(a) /\ Len(a) \in Nat
    BY <1>5, LenProperties
  <2> QED BY ONLY <1>4, <2>1
<1>7. \A k \in 1 .. m : a[k] \in Nat
  BY <1>1, <1>4
<1>8. \A i, j \in 1 .. m : i < j => a[i] < a[j]
  BY <1>2, <1>4, <1>7, Rising
<1>9. Climbs(a, m)
  BY <1>3, <1>4, <1>8 DEF Climbs
<1>10. Within(a[1], a[m])
  BY <1>3, <1>6 DEF Within
<1> QED BY <1>4, <1>6, <1>9, <1>10

LEMMA WalkIsAttempt ==
  ASSUME FunnelInv, NEW s \in 1 .. Len(trail), 1 \in trail[s].matches
  PROVE  Walk(s) \in Attempts
<1> DEFINE c == Walk(s)
<1>1. /\ c \in Seq(1 .. Len(trail)) /\ Len(c) \in 1 .. FunnelSteps /\ c[1] = s
      /\ Climbs(c, Len(c)) /\ \A k \in 1 .. Len(c) : Within(s, c[k])
  BY WalkFacts
<1> HIDE DEF c
<1>2. DOMAIN trail = 1 .. Len(trail) /\ DOMAIN c = 1 .. Len(c)
  BY <1>1, TrailFacts, LenProperties
<1>3. Len(c) \in Nat /\ Len(c) \in 1 .. Len(c) /\ c \in [1 .. Len(c) -> DOMAIN trail]
  BY <1>1, <1>2, FunnelNumbers DEF Climbs
<1>4. \A k \in 1 .. Len(c) - 1 : c[k] < c[k + 1]
  <2> TAKE k \in 1 .. Len(c) - 1
  <2>1. k \in 1 .. Len(c) /\ k + 1 \in 1 .. Len(c) /\ k < k + 1
    BY ONLY <1>3, k \in 1 .. Len(c) - 1
  <2> QED BY <1>1, <2>1 DEF Climbs
<1>5. \A k \in DOMAIN c : k \in trail[c[k]].matches
  BY <1>1, <1>2 DEF Climbs
<1>6. trail[c[Len(c)]].at - trail[c[1]].at <= FunnelWindow
  BY <1>1, <1>3 DEF Within
<1>7. c \in Attempts
  BY <1>1, <1>3, <1>4, <1>5, <1>6 DEF Attempts
<1> QED BY <1>7 DEF c

LEMMA BestIsBest == FunnelInv => FunnelIsBest
<1> SUFFICES ASSUME FunnelInv PROVE FunnelIsBest
  OBVIOUS
<1> DEFINE best == BestAttempt
<1>1. BestOfWalks(Len(trail), best)
  BY SearchFacts
<1> HIDE DEF best
<1>2. ASSUME NEW a \in Attempts
      PROVE  \E u \in 1 .. Len(trail) : \E m \in 1 .. FunnelSteps :
               /\ 1 \in trail[u].matches /\ a[1] = u /\ m \in Nat /\ Len(a) = m
               /\ DOMAIN a = 1 .. m /\ a \in [1 .. m -> 1 .. Len(trail)]
               /\ Climbs(a, m) /\ Within(u, a[m])
  <2>1. PICK m \in 1 .. FunnelSteps :
           /\ m \in Nat /\ Len(a) = m /\ DOMAIN a = 1 .. m
           /\ a \in [1 .. m -> 1 .. Len(trail)] /\ Climbs(a, m) /\ Within(a[1], a[m])
    BY AttemptFacts
  <2>2. 1 \in 1 .. m
    BY <2>1
  <2>3. a[1] \in 1 .. Len(trail) /\ 1 \in trail[a[1]].matches
    BY <2>1, <2>2 DEF Climbs
  <2> QED BY <2>1, <2>3
<1>3. CASE best = << >> /\ \A u \in 1 .. Len(trail) : 1 \notin trail[u].matches
  BY <1>2, <1>3 DEF FunnelIsBest, best
<1>4. ASSUME NEW s \in 1 .. Len(trail), 1 \in trail[s].matches, best = Walk(s),
             \A u \in 1 .. Len(trail) : 1 \in trail[u].matches =>
               Len(Walk(u)) <= Len(best) /\ (u < s => Len(Walk(u)) < Len(best))
      PROVE  FunnelIsBest
  <2>1. best \in Attempts
    BY <1>4, WalkIsAttempt
  <2>2. /\ best \in Seq(1 .. Len(trail)) /\ Len(best) \in 1 .. FunnelSteps
        /\ \A m \in 1 .. FunnelSteps : \A b \in [1 .. m -> 1 .. Len(trail)] :
             Climbs(b, m) /\ s <= b[1] =>
               \A k \in 1 .. m : k \in 1 .. Len(best) => best[k] <= b[k]
    BY <1>4, WalkFacts
  <2>3. ASSUME NEW a \in Attempts
        PROVE  \/ Len(a) < Len(best)
               \/ /\ Len(a) = Len(best)
                  /\ \A k \in DOMAIN a : trail[best[k]].at <= trail[a[k]].at
    <3>1. PICK u \in 1 .. Len(trail) : \E m \in 1 .. FunnelSteps :
               /\ 1 \in trail[u].matches /\ a[1] = u /\ m \in Nat /\ Len(a) = m
               /\ DOMAIN a = 1 .. m /\ a \in [1 .. m -> 1 .. Len(trail)]
               /\ Climbs(a, m) /\ Within(u, a[m])
      BY <1>2
    <3>2. PICK m \in 1 .. FunnelSteps :
               /\ 1 \in trail[u].matches /\ a[1] = u /\ m \in Nat /\ Len(a) = m
               /\ DOMAIN a = 1 .. m /\ a \in [1 .. m -> 1 .. Len(trail)]
               /\ Climbs(a, m) /\ Within(u, a[m])
      BY <3>1
    <3>3. u \in Nat /\ s \in Nat /\ u <= u
      BY TrailFacts
    <3>4. m <= Len(Walk(u)) /\ Len(Walk(u)) \in Nat
      <4>1. /\ Len(Walk(u)) \in 1 .. FunnelSteps
            /\ \A n \in 1 .. FunnelSteps : \A b \in [1 .. n -> 1 .. Len(trail)] :
                 Climbs(b, n) /\ u <= b[1] /\ Within(u, b[n]) => n <= Len(Walk(u))
        BY <3>2, WalkFacts
      <4>2. u <= a[1]
        BY <3>2, <3>3
      <4> QED BY <3>2, <4>1, <4>2, FunnelNumbers
    <3>5. Len(Walk(u)) <= Len(best) /\ (u < s => Len(Walk(u)) < Len(best)) /\ Len(best) \in Nat
      BY <1>4, <2>2, <3>2, FunnelNumbers
    <3>6. CASE m < Len(best)
      BY <3>2, <3>6
    <3>7. CASE m = Len(best)
      <4>1. ~ (u < s)
        BY ONLY <3>2, <3>4, <3>5, <3>7
      <4>2. s <= a[1]
        BY ONLY <3>2, <3>3, <4>1
      <4>3. \A k \in 1 .. m : best[k] <= a[k]
        BY <2>2, <3>2, <3>7, <4>2
      <4>4. \A k \in 1 .. m : best[k] \in 1 .. Len(trail) /\ a[k] \in 1 .. Len(trail)
        BY <2>2, <3>2, <3>7, ElementOfSeq
      <4>5. \A k \in 1 .. m : trail[best[k]].at <= trail[a[k]].at
        BY <4>3, <4>4, TrailFacts
      <4> QED BY <3>2, <3>7, <4>5
    <3>8. m < Len(best) \/ m = Len(best)
      BY ONLY <3>2, <3>4, <3>5
    <3> QED BY <3>6, <3>7, <3>8
  <2> QED BY <2>1, <2>3 DEF FunnelIsBest, best
<1> QED BY <1>1, <1>3, <1>4 DEF BestOfWalks

(* What the dashboard shows of a funnel for one visitor is the best there  *)
(* is, whatever the steps, the window and the visitor's events, as many as *)
(* there may be: no other choice of events gets further, or gets as far    *)
(* with any step sooner.                                                   *)
THEOREM FunnelIsBestHolds == FunnelSpec => []FunnelIsBest
<1>1. FunnelSpec => []FunnelInv
  BY FunnelInit_Inv, FunnelNext_Inv, PTL DEF FunnelSpec
<1>2. FunnelInv => FunnelIsBest
  BY BestIsBest
<1> QED BY <1>1, <1>2, PTL
=============================================================================
