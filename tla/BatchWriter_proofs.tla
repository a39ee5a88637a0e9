------------------------- MODULE BatchWriter_proofs -------------------------
(***************************************************************************)
(* Proofs about BatchWriter: for every set of batches, queue capacity,     *)
(* flush size, backlog and number of stops, under every interleaving of    *)
(* requests and flushes and under every fault of the disk and the store.   *)
(***************************************************************************)
EXTENDS BatchWriter, WAL_proofs

LEMMA ConstantsType ==
  /\ QueueCapacity \in Nat /\ QueueCapacity > 0 /\ MaxItems \in Nat /\ MaxStops \in Nat
  /\ WalModes \subseteq BOOLEAN
BY CapacityAssumption, StopsAssumption, ModesAssumption

(* reloadFromWAL fills the queue up to its capacity with well-formed       *)
(* items, one per entry, in the order of the entries.                      *)
LEMMA LoadProperties ==
  ASSUME NEW es \in Seq(Entry)
  PROVE  /\ Load(es) \in Seq(Item)
         /\ Len(Load(es)) <= QueueCapacity
         /\ Len(Load(es)) <= Len(es)
         /\ \A i \in 1 .. Len(Load(es)) :
              /\ i \in 1 .. Len(es)
              /\ Load(es)[i] = AsItem(es[i])
              /\ Load(es)[i].walID = es[i].id
              /\ Load(es)[i].walOffset = es[i].offset
              /\ Load(es)[i].walOffset >= 0
<1> DEFINE n == IF Len(es) < QueueCapacity THEN Len(es) ELSE QueueCapacity
<1>1. n \in Nat /\ n <= Len(es) /\ n <= QueueCapacity /\ Len(es) \in Nat
  BY ConstantsType
<1>2. ASSUME NEW i \in 1 .. n
      PROVE  /\ i \in 1 .. Len(es)
             /\ AsItem(es[i]) \in Item
             /\ AsItem(es[i]).walID = es[i].id
             /\ AsItem(es[i]).walOffset = es[i].offset
             /\ AsItem(es[i]).walOffset >= 0
  <2>1. i \in 1 .. Len(es) /\ es[i] \in Entry
    BY <1>1
  <2> QED BY <2>1 DEF AsItem, Item, Entry
<1>3. Load(es) = [i \in 1 .. n |-> AsItem(es[i])]
  BY DEF Load
<1> HIDE DEF n
<1>4. Load(es) \in [1 .. n -> Item]
  BY <1>2, <1>3
<1>5. Load(es) \in Seq(Item) /\ Len(Load(es)) = n
  BY <1>1, <1>4
<1> QED
  BY <1>1, <1>2, <1>3, <1>5

LEMMA StorePendingType ==
  ASSUME TypeOK
  PROVE  StorePending \in [Batches -> 0 .. 2]
<1>1. \A b \in Batches : writes[b] \in 0 .. 2
  BY DEF TypeOK
<1> QED
  BY <1>1 DEF StorePending

LEMMA QueueShiftedProperties ==
  ASSUME TypeOK, queue # << >>
  PROVE  /\ Head(queue) \in Item /\ Head(queue) = queue[1]
         /\ QueueShifted \in Seq(Item)
         /\ Len(QueueShifted) = Len(queue) - 1
         /\ \A i \in 1 .. Len(QueueShifted) :
              i + 1 \in 1 .. Len(queue) /\ QueueShifted[i] = queue[i + 1]
<1>1. queue \in Seq(Item) /\ Len(queue) \in Nat
  BY DEF TypeOK
<1> QED
  BY <1>1, HeadTailProperties DEF QueueShifted

LEMMA EndFlushType ==
  ASSUME TypeOK, EndFlush
  PROVE  /\ pending' \in Seq(Batches) /\ ackOffset' \in Nat /\ hasWAL' \in BOOLEAN
         /\ loop' \in LoopStates
<1>1. pending' = << >> /\ << >> \in Seq(Batches)
  BY EmptySeq DEF EndFlush
<1> QED
  BY <1>1 DEF EndFlush, LoopStates
-----------------------------------------------------------------------------
LEMMA AsFileType ==
  ASSUME NEW backlog \in Seq(Batches)
  PROVE  /\ AsFile(backlog) \in Seq(Record)
         /\ Len(AsFile(backlog)) = Len(backlog)
         /\ \A i \in 1 .. Len(backlog) :
              AsFile(backlog)[i] = [id |-> i, batch |-> backlog[i], intact |-> TRUE]
<1>1. \A i \in 1 .. Len(backlog) :
        [id |-> i, batch |-> backlog[i], intact |-> TRUE] \in Record
  <2>1. \A i \in 1 .. Len(backlog) : backlog[i] \in Batches /\ i \in Nat
    OBVIOUS
  <2> QED BY <2>1 DEF Record
<1>2. AsFile(backlog) \in [1 .. Len(backlog) -> Record] /\ Len(backlog) \in Nat
  BY <1>1 DEF AsFile
<1>3. AsFile(backlog) \in Seq(Record) /\ Len(AsFile(backlog)) = Len(backlog)
  BY <1>2
<1> QED
  BY <1>3 DEF AsFile

LEMMA InitFile ==
  ASSUME Init
  PROVE  \E backlog \in Seq(Batches) :
           file = AsFile(backlog) /\ (~ useWAL => backlog = << >>)
<1>1. PICK backlog \in (IF useWAL THEN Backlogs ELSE {<< >>}) : file = AsFile(backlog)
  BY DEF Init
<1>2. backlog \in Seq(Batches) /\ (~ useWAL => backlog = << >>)
  BY <1>1, BacklogsAssumption, EmptySeq
<1> QED
  BY <1>1, <1>2

LEMMA TypeInit == Init => TypeOK
<1>1. SUFFICES ASSUME Init PROVE TypeOK
  OBVIOUS
<1>2. file \in Seq(Record)
  BY <1>1, InitFile, AsFileType
<1>3. /\ << >> \in Seq(Entry) /\ << >> \in Seq(Item) /\ << >> \in Seq(Batches)
  BY EmptySeq
<1>4. WalTypeOK
  BY <1>1, <1>2, <1>3 DEF Init, WalTypeOK
<1>5. /\ req \in [Batches -> ReqStates]
      /\ held \in [Batches -> Held]
      /\ writes \in [Batches -> 0 .. 2]
  <2>1. NoEntry \in Held
    BY DEF NoEntry, Held
  <2> QED BY <1>1, <2>1 DEF Init, ReqStates
<1>6. queue \in Seq(Item) /\ pending \in Seq(Batches) /\ snapshot \in Seq(Entry)
  BY <1>1, <1>3 DEF Init
<1>7. ackOffset \in Nat /\ stops \in 0 .. MaxStops
  BY <1>1, ConstantsType DEF Init
<1>8. /\ walIDs \subseteq Nat /\ early \subseteq Batches /\ loop \in LoopStates
      /\ hasWAL \in BOOLEAN /\ notify \in BOOLEAN
      /\ draining \in BOOLEAN /\ cancelled \in BOOLEAN
  BY <1>1 DEF Init, LoopStates
<1>9. useWAL \in BOOLEAN
  BY <1>1, ConstantsType DEF Init
<1> QED
  BY <1>4, <1>5, <1>6, <1>7, <1>8, <1>9 DEF TypeOK

LEMMA TypeStartProcess ==
  ASSUME TypeOK, StartProcess, UNCHANGED useWAL
  PROVE  TypeOK'
<1>1. Scan(file) \in Seq(Entry)
  BY ScanProperties DEF TypeOK, WalTypeOK
<1>2. WalTypeOK'
  <2>1. CASE useWAL
    BY <2>1, OpenWALType DEF StartProcess, TypeOK
  <2>2. CASE ~ useWAL
    BY <2>2 DEF StartProcess, TypeOK, WalTypeOK, walVars
  <2> QED BY <2>1, <2>2
<1>3. queue' \in Seq(Item) /\ walIDs' \subseteq Nat /\ notify' \in BOOLEAN
  <2>1. CASE useWAL
    <3>1. Load(Scan(file)) \in Seq(Item)
      BY <1>1, LoadProperties
    <3>2. \A i \in DOMAIN Load(Scan(file)) : Load(Scan(file))[i] \in Item
      BY <3>1
    <3>3. IDsOf(Load(Scan(file))) \subseteq Nat
      BY <3>2 DEF IDsOf, Item
    <3> QED BY <2>1, <3>1, <3>3 DEF StartProcess
  <2>2. CASE ~ useWAL
    BY <2>2 DEF StartProcess, TypeOK, queueVars
  <2> QED BY <2>1, <2>2
<1> QED
  BY <1>2, <1>3 DEF StartProcess, TypeOK, LoopStates, mergeVars, reqVars, history

LEMMA TypeRequest ==
  ASSUME TypeOK, NEW b \in Batches, RequestStep(b), UNCHANGED useWAL
  PROVE  TypeOK'
<1>1. /\ queue \in Seq(Item) /\ nextID \in Nat /\ Len(file) \in Nat
      /\ held[b] \in Held
  BY DEF TypeOK, WalTypeOK
<1>2. CASE EnqueueRefused(b)
  BY <1>2 DEF EnqueueRefused, TypeOK, WalTypeOK, ReqStates, walVars, queueVars,
              loopVars, mergeVars, history
<1>3. CASE EnqueueAppend(b)
  <2>1. WalTypeOK'
    BY <1>3, AppendOKType, AppendFailsType DEF EnqueueAppend, TypeOK
  <2>2. /\ req' \in [Batches -> ReqStates]
        /\ held' \in [Batches -> Held]
    <3>1. [id |-> nextID + 1, offset |-> Len(file)] \in Held
      BY <1>1 DEF Held
    <3> QED BY <1>3, <3>1 DEF EnqueueAppend, TypeOK, ReqStates
  <2> QED BY <1>3, <2>1, <2>2 DEF EnqueueAppend, TypeOK, queueVars, loopVars,
                                  mergeVars, history
<1>4. CASE EnqueuePush(b)
  <2>1. queue' \in Seq(Item) /\ walIDs' \subseteq Nat
    <3> DEFINE e == [walID |-> held[b].id, walOffset |-> held[b].offset, batch |-> b]
    <3>1. e \in Item /\ held[b].id \in Nat
      BY <1>1 DEF Item, Held
    <3>2. \/ queue' = queue /\ walIDs' = walIDs
          \/ queue' = Append(queue, e) /\ walIDs' = walIDs \union {held[b].id}
      BY <1>4 DEF EnqueuePush
    <3> HIDE DEF e
    <3>3. Append(queue, e) \in Seq(Item)
      BY <1>1, <3>1, AppendProperties
    <3> QED BY <1>1, <3>1, <3>2, <3>3 DEF TypeOK
  <2>2. /\ req' \in [Batches -> ReqStates]
        /\ held' \in [Batches -> Held]
    <3>1. NoEntry \in Held
      BY DEF NoEntry, Held
    <3> QED BY <1>4, <3>1 DEF EnqueuePush, TypeOK, ReqStates
  <2> QED BY <1>4, <2>1, <2>2 DEF EnqueuePush, Signal, TypeOK, WalTypeOK, walVars,
                                  loopVars, mergeVars, history
<1>5. CASE EnqueueMemory(b)
  <2>1. queue' \in Seq(Item) /\ notify' \in BOOLEAN
    <3> DEFINE e == [walID |-> 0, walOffset |-> -1, batch |-> b]
    <3>1. e \in Item
      BY DEF Item
    <3>2. \/ queue' = queue /\ notify' = notify
          \/ queue' = Append(queue, e) /\ notify' = TRUE
      BY <1>5 DEF EnqueueMemory, Signal
    <3> HIDE DEF e
    <3>3. Append(queue, e) \in Seq(Item)
      BY <1>1, <3>1, AppendProperties
    <3> QED BY <1>1, <3>2, <3>3 DEF TypeOK
  <2>2. req' \in [Batches -> ReqStates]
    BY <1>5 DEF EnqueueMemory, TypeOK, ReqStates
  <2> QED BY <1>5, <2>1, <2>2 DEF EnqueueMemory, TypeOK, WalTypeOK, walVars,
                                  loopVars, mergeVars, history
<1> QED
  BY <1>2, <1>3, <1>4, <1>5 DEF RequestStep

LEMMA TypeLoop ==
  ASSUME TypeOK, Dequeue \/ QueueEmpty \/ SelectNotify \/ SelectTick \/ SelectDone,
         UNCHANGED useWAL
  PROVE  TypeOK'
<1>1. CASE Dequeue
  <2>1. /\ Head(queue) \in Item /\ QueueShifted \in Seq(Item)
    BY <1>1, QueueShiftedProperties DEF Dequeue
  <2> DEFINE item == Head(queue)
  <2>2. item.batch \in Batches /\ item.walOffset \in Nat \union {-1}
    BY <2>1 DEF Item
  <2>3. /\ pending' = Append(pending, item.batch)
        /\ \/ item.walOffset >= 0 /\ ackOffset' = item.walOffset /\ hasWAL' = TRUE
           \/ UNCHANGED <<ackOffset, hasWAL>>
        /\ walIDs' \subseteq walIDs /\ queue' = QueueShifted
        /\ loop' \in {"write", "dequeue"}
    BY <1>1 DEF Dequeue, IDsWithout, NewerOffset
  <2> HIDE DEF item
  <2>4. pending' \in Seq(Batches)
    BY <2>2, <2>3, AppendProperties DEF TypeOK
  <2>5. /\ queue' \in Seq(Item) /\ walIDs' \subseteq Nat /\ loop' \in LoopStates
    BY <2>1, <2>3 DEF TypeOK, LoopStates
  <2>6. ackOffset' \in Nat
    BY <2>2, <2>3 DEF TypeOK
  <2>7. hasWAL' \in BOOLEAN
    BY <2>3 DEF TypeOK
  <2> QED BY <1>1, <2>4, <2>5, <2>6, <2>7 DEF Dequeue, TypeOK, WalTypeOK, walVars, reqVars, history
<1>2. CASE QueueEmpty
  BY <1>2 DEF QueueEmpty, TypeOK, WalTypeOK, LoopStates, walVars, queueVars,
              mergeVars, reqVars, history
<1>3. CASE SelectNotify
  BY <1>3 DEF SelectNotify, TypeOK, WalTypeOK, LoopStates, walVars, mergeVars,
              reqVars, history
<1>4. CASE SelectTick
  BY <1>4 DEF SelectTick, AfterTick, TypeOK, WalTypeOK, LoopStates, walVars,
              queueVars, mergeVars, reqVars, history
<1>5. CASE SelectDone
  BY <1>5 DEF SelectDone, TypeOK, WalTypeOK, LoopStates, walVars, queueVars,
              mergeVars, reqVars, history
<1> QED
  BY <1>1, <1>2, <1>3, <1>4, <1>5

LEMMA TypeFlush ==
  ASSUME TypeOK, FlushStep, UNCHANGED useWAL
  PROVE  TypeOK'
<1>1. CASE FlushWriteOK
  <2>1. writes' \in [Batches -> 0 .. 2]
    BY <1>1, StorePendingType DEF FlushWriteOK
  <2>2. /\ pending' \in Seq(Batches) /\ ackOffset' \in Nat /\ hasWAL' \in BOOLEAN
        /\ loop' \in LoopStates
    BY <1>1, EndFlushType DEF FlushWriteOK, TypeOK, LoopStates, mergeVars
  <2> QED BY <1>1, <2>1, <2>2 DEF FlushWriteOK, TypeOK, WalTypeOK, walVars,
                                  queueVars, reqVars
<1>2. CASE FlushWriteFails
  <2>1. writes' \in [Batches -> 0 .. 2]
    BY <1>2, StorePendingType DEF FlushWriteFails, TypeOK
  <2> QED BY <1>2, <2>1 DEF FlushWriteFails, AfterFailure, TypeOK, WalTypeOK,
                            LoopStates, walVars, queueVars, mergeVars, reqVars
<1>3. CASE FlushAcknowledge
  <2>1. WalTypeOK'
    BY <1>3, AcknowledgeOKType, AcknowledgeFailsType DEF FlushAcknowledge, TypeOK
  <2>2. /\ pending' \in Seq(Batches) /\ ackOffset' \in Nat /\ hasWAL' \in BOOLEAN
        /\ loop' \in LoopStates
    BY <1>3, EndFlushType DEF FlushAcknowledge, TypeOK, LoopStates, mergeVars
  <2> QED BY <1>3, <2>1, <2>2 DEF FlushAcknowledge, TypeOK, queueVars, reqVars, history
<1>4. CASE ReloadRecover
  BY <1>4 DEF ReloadRecover, TypeOK, WalTypeOK, LoopStates, walVars, queueVars,
              mergeVars, reqVars, history
<1>5. CASE ReloadQueue
  <2>1. snapshot \in Seq(Entry)
    BY DEF TypeOK
  <2>2. Load(snapshot) \in Seq(Item)
    BY <2>1, LoadProperties
  <2>3. IDsOf(Load(snapshot)) \subseteq Nat
    <3>1. \A i \in DOMAIN Load(snapshot) : Load(snapshot)[i] \in Item
      BY <2>2
    <3> QED BY <3>1 DEF IDsOf, Item
  <2>4. << >> \in Seq(Entry)
    BY EmptySeq
  <2>5. /\ pending' \in Seq(Batches) /\ ackOffset' \in Nat /\ hasWAL' \in BOOLEAN
        /\ loop' \in LoopStates
    BY <1>5, EndFlushType DEF ReloadQueue
  <2> QED BY <1>5, <2>2, <2>3, <2>4, <2>5 DEF ReloadQueue, TypeOK, WalTypeOK, walVars,
                                              reqVars, history
<1> QED
  BY <1>1, <1>2, <1>3, <1>4, <1>5 DEF FlushStep

LEMMA TypeMain ==
  ASSUME TypeOK, CancelBatcher \/ CloseResources \/ ProcessGone, UNCHANGED useWAL
  PROVE  TypeOK'
<1>1. CASE CancelBatcher
  BY <1>1 DEF CancelBatcher, TypeOK, WalTypeOK, walVars, queueVars, loopVars,
              mergeVars, reqVars
<1>2. CASE CloseResources
  <2>1. WalTypeOK'
    BY <1>2, CloseWALType DEF CloseResources, TypeOK
  <2> QED BY <1>2, <2>1 DEF CloseResources, TypeOK, queueVars, loopVars, mergeVars,
                            reqVars
<1>3. CASE ProcessGone
  <2>1. /\ << >> \in Seq(Entry) /\ << >> \in Seq(Item) /\ << >> \in Seq(Batches)
    BY EmptySeq
  <2>2. stops' \in 0 .. MaxStops
    BY <1>3, ConstantsType DEF ProcessGone, TypeOK
  <2>3. /\ req' \in [Batches -> ReqStates]
        /\ held' \in [Batches -> Held]
    <3>1. NoEntry \in Held
      BY DEF NoEntry, Held
    <3> QED BY <1>3, <3>1 DEF ProcessGone, TypeOK, ReqStates
  <2>4. WalTypeOK'
    BY <1>3, <2>1 DEF ProcessGone, TypeOK, WalTypeOK
  <2> QED BY <1>3, <2>1, <2>2, <2>3, <2>4 DEF ProcessGone, TypeOK, LoopStates
<1> QED
  BY <1>1, <1>2, <1>3

LEMMA TypeNext == TypeOK /\ [Next]_vars => TypeOK'
<1>1. SUFFICES ASSUME TypeOK, [Next]_vars PROVE TypeOK'
  OBVIOUS
<1>2. CASE Next
  BY <1>1, <1>2, TypeStartProcess, TypeRequest, TypeLoop, TypeFlush, TypeMain
  DEF Next, RunStep, MainStep
<1>3. CASE UNCHANGED vars
  BY <1>1, <1>3 DEF TypeOK, WalTypeOK, vars, procVars, walVars, queueVars, mergeVars,
                    reqVars, history
<1> QED
  BY <1>1, <1>2, <1>3

(* The variables keep their types.                                         *)
THEOREM TypeCorrect == Spec => []TypeOK
BY TypeInit, TypeNext, PTL DEF Spec
-----------------------------------------------------------------------------
LEMMA BoundedStep == TypeOK /\ QueueBounded /\ [Next]_vars => QueueBounded'
<1>1. SUFFICES ASSUME TypeOK, QueueBounded, [Next]_vars PROVE QueueBounded'
  OBVIOUS
<1>2. /\ queue \in Seq(Item) /\ Len(queue) \in Nat /\ QueueCapacity \in Nat
      /\ file \in Seq(Record) /\ snapshot \in Seq(Entry)
  BY <1>1, ConstantsType DEF TypeOK, WalTypeOK
<1>3. CASE UNCHANGED queue
  BY <1>1, <1>3 DEF QueueBounded
<1>4. ASSUME NEW e, queue' = Append(queue, e), Len(queue) < QueueCapacity
      PROVE  QueueBounded'
  BY <1>2, <1>4 DEF QueueBounded
<1>5. CASE StartProcess
  <2>1. Len(Load(Scan(file))) <= QueueCapacity
    BY <1>2, ScanProperties, LoadProperties
  <2> QED BY <1>3, <1>5, <2>1 DEF StartProcess, QueueBounded, queueVars
<1>6. ASSUME NEW b \in Batches, RequestStep(b)
      PROVE  QueueBounded'
  <2>1. CASE EnqueuePush(b) \/ EnqueueMemory(b)
    BY <1>2, <1>3, <1>4, <2>1 DEF EnqueuePush, EnqueueMemory
  <2>2. CASE EnqueueRefused(b) \/ EnqueueAppend(b)
    BY <1>3, <2>2 DEF EnqueueRefused, EnqueueAppend, queueVars
  <2> QED BY <1>6, <2>1, <2>2 DEF RequestStep
<1>7. CASE Dequeue
  <2>1. queue' = QueueShifted /\ Len(QueueShifted) = Len(queue) - 1
    BY <1>1, <1>7, QueueShiftedProperties DEF Dequeue
  <2> QED BY <1>1, <1>2, <2>1 DEF QueueBounded
<1>8. CASE ReloadQueue
  BY <1>2, <1>8, LoadProperties DEF ReloadQueue, QueueBounded
<1>9. CASE ProcessGone
  <2>1. Len(queue') = 0
    BY <1>9 DEF ProcessGone
  <2> QED BY <1>2, <2>1 DEF QueueBounded
<1>10. CASE \/ QueueEmpty \/ SelectNotify \/ SelectTick \/ SelectDone
            \/ FlushWriteOK \/ FlushWriteFails \/ FlushAcknowledge \/ ReloadRecover
            \/ CancelBatcher \/ CloseResources \/ UNCHANGED vars
  BY <1>3, <1>10 DEF QueueEmpty, SelectNotify, SelectTick, SelectDone, FlushWriteOK,
     FlushWriteFails, FlushAcknowledge, ReloadRecover, CancelBatcher, CloseResources,
     queueVars, vars, procVars
<1> QED
  BY <1>1, <1>5, <1>6, <1>7, <1>8, <1>9, <1>10 DEF Next, RunStep, FlushStep, MainStep

(* The queue stays within its capacity, whatever the backlog in the log,   *)
(* at a start, after a reload (batcher.go:296) and under any number of     *)
(* concurrent requests (batcher.go:125).                                   *)
THEOREM QueueBoundedHolds == Spec => []QueueBounded
<1>1. Init => QueueBounded
  <2>1. SUFFICES ASSUME Init PROVE QueueBounded
    OBVIOUS
  <2>2. Len(queue) = 0
    BY <2>1 DEF Init
  <2> QED BY <2>2, ConstantsType DEF QueueBounded
<1> QED
  BY <1>1, TypeCorrect, BoundedStep, PTL DEF Spec
-----------------------------------------------------------------------------
(* The token: run reads the queue only after it has taken the token, and   *)
(* every critical section that adds to a queue run may sleep on leaves it. *)
LEMMA WakeupStep == NoLostWakeup /\ [Next]_vars => NoLostWakeup'
<1>1. SUFFICES ASSUME NoLostWakeup, [Next]_vars PROVE NoLostWakeup'
  OBVIOUS
<1>2. ASSUME NEW b \in Batches, RequestStep(b)
      PROVE  NoLostWakeup'
  <2>1. CASE EnqueuePush(b) \/ EnqueueMemory(b)
    BY <1>1, <2>1 DEF EnqueuePush, EnqueueMemory, Signal, NoLostWakeup, loopVars
  <2>2. CASE EnqueueRefused(b) \/ EnqueueAppend(b)
    BY <1>1, <2>2 DEF EnqueueRefused, EnqueueAppend, NoLostWakeup, queueVars, loopVars
  <2> QED BY <1>2, <2>1, <2>2 DEF RequestStep
<1>3. CASE \/ Dequeue \/ QueueEmpty \/ SelectNotify \/ SelectTick \/ SelectDone
  BY <1>1, <1>3 DEF Dequeue, QueueEmpty, SelectNotify, SelectTick, AfterTick, SelectDone,
     NoLostWakeup, queueVars
<1>4. CASE FlushStep
  BY <1>1, <1>4 DEF FlushStep, FlushWriteOK, FlushWriteFails, AfterFailure,
     FlushAcknowledge, ReloadRecover, ReloadQueue, EndFlush, NoLostWakeup
<1>5. CASE StartProcess \/ ProcessGone
  BY <1>5 DEF StartProcess, ProcessGone, NoLostWakeup
<1>6. CASE CancelBatcher \/ CloseResources \/ UNCHANGED vars
  BY <1>1, <1>6 DEF CancelBatcher, CloseResources, NoLostWakeup, queueVars, loopVars,
     vars, procVars
<1> QED
  BY <1>1, <1>2, <1>3, <1>4, <1>5, <1>6 DEF Next, RunStep, MainStep

(* run never sleeps in its select with a batch in the queue and no token   *)
(* in b.notify (batcher.go:206-241 against 276-281).                       *)
THEOREM NoLostWakeupHolds == Spec => []NoLostWakeup
<1>1. Init => NoLostWakeup
  BY DEF Init, NoLostWakeup
<1> QED
  BY <1>1, WakeupStep, PTL DEF Spec
-----------------------------------------------------------------------------
(* Backing: with a log, whatever is in the queue or about to be pushed has *)
(* an offset in it, so merging it sets the flag; without one, nothing has. *)
(* The flag is reset with pending.                                         *)
Backing ==
  /\ PendingIsBacked
  /\ \A i \in 1 .. Len(queue) : (queue[i].walOffset >= 0) <=> useWAL
  /\ \A b \in Batches : req[b] = "appended" => useWAL /\ held[b].offset >= 0
  /\ loop \in {"ack", "recover", "reload"} => useWAL

LEMMA BackingAfterEndFlush ==
  ASSUME EndFlush, UNCHANGED useWAL
  PROVE  /\ PendingIsBacked'
         /\ loop' \notin {"ack", "recover", "reload"}
BY DEF EndFlush, PendingIsBacked

LEMMA BackingLoad ==
  ASSUME NEW es \in Seq(Entry)
  PROVE  \A i \in 1 .. Len(Load(es)) : Load(es)[i].walOffset >= 0
BY LoadProperties

LEMMA BackingInit == Init => Backing
<1>1. SUFFICES ASSUME Init PROVE Backing
  OBVIOUS
<1>2. Len(queue) = 0
  BY <1>1 DEF Init
<1>3. \A b \in Batches : req[b] # "appended"
  BY <1>1 DEF Init
<1> QED
  BY <1>1, <1>2, <1>3 DEF Init, Backing, PendingIsBacked

LEMMA BackingRequest ==
  ASSUME TypeOK, Backing, NEW b \in Batches, RequestStep(b), UNCHANGED useWAL
  PROVE  Backing'
<1>1. /\ queue \in Seq(Item) /\ Len(queue) \in Nat /\ held[b] \in Held
      /\ Len(file) \in Nat /\ nextID \in Nat /\ req \in [Batches -> ReqStates]
      /\ held \in [Batches -> Held]
  BY DEF TypeOK, WalTypeOK
<1>2. UNCHANGED <<pending, hasWAL, loop>>
  BY DEF RequestStep, EnqueueRefused, EnqueueAppend, EnqueuePush, EnqueueMemory,
         loopVars, mergeVars
<1>3. /\ PendingIsBacked'
      /\ loop' \in {"ack", "recover", "reload"} => useWAL'
  BY <1>2 DEF Backing, PendingIsBacked
<1>4. ASSUME NEW e \in Item, queue' = Append(queue, e), (e.walOffset >= 0) <=> useWAL
      PROVE  \A i \in 1 .. Len(queue') : (queue'[i].walOffset >= 0) <=> useWAL'
  <2>1. /\ Len(queue') = Len(queue) + 1 /\ queue'[Len(queue) + 1] = e
        /\ \A i \in 1 .. Len(queue) : queue'[i] = queue[i]
    BY <1>1, <1>4, AppendProperties
  <2>2. \A i \in 1 .. Len(queue') : i \in 1 .. Len(queue) \/ i = Len(queue) + 1
    BY <1>1, <2>1
  <2> QED BY <1>4, <2>1, <2>2 DEF Backing
<1>5. CASE EnqueueRefused(b)
  BY <1>1, <1>3, <1>5 DEF EnqueueRefused, Backing, queueVars
<1>6. CASE EnqueueAppend(b)
  <2>1. ASSUME NEW c \in Batches, req'[c] = "appended"
        PROVE  useWAL' /\ held'[c].offset >= 0
    BY <1>1, <1>6, <2>1 DEF EnqueueAppend, Backing
  <2> QED BY <1>3, <1>6, <2>1 DEF EnqueueAppend, Backing, queueVars
<1>7. CASE EnqueuePush(b)
  <2> DEFINE e == [walID |-> held[b].id, walOffset |-> held[b].offset, batch |-> b]
  <2>1. e \in Item /\ ((e.walOffset >= 0) <=> useWAL)
    BY <1>1, <1>7 DEF EnqueuePush, Backing, Item, Held
  <2>2. queue' = queue \/ queue' = Append(queue, e)
    BY <1>7 DEF EnqueuePush
  <2> HIDE DEF e
  <2>3. \A i \in 1 .. Len(queue') : (queue'[i].walOffset >= 0) <=> useWAL'
    BY <1>4, <2>1, <2>2 DEF Backing
  <2>4. \A c \in Batches : req'[c] = "appended" => useWAL' /\ held'[c].offset >= 0
    BY <1>1, <1>7 DEF EnqueuePush, Backing
  <2> QED BY <1>3, <2>3, <2>4 DEF Backing
<1>8. CASE EnqueueMemory(b)
  <2> DEFINE e == [walID |-> 0, walOffset |-> -1, batch |-> b]
  <2>1. e \in Item /\ ((e.walOffset >= 0) <=> useWAL)
    BY <1>8 DEF EnqueueMemory, Item
  <2>2. queue' = queue \/ queue' = Append(queue, e)
    BY <1>8 DEF EnqueueMemory
  <2> HIDE DEF e
  <2>3. \A i \in 1 .. Len(queue') : (queue'[i].walOffset >= 0) <=> useWAL'
    BY <1>4, <2>1, <2>2 DEF Backing
  <2>4. \A c \in Batches : req'[c] = "appended" => useWAL' /\ held'[c].offset >= 0
    BY <1>1, <1>8 DEF EnqueueMemory, Backing
  <2> QED BY <1>3, <2>3, <2>4 DEF Backing
<1> QED
  BY <1>5, <1>6, <1>7, <1>8 DEF RequestStep

LEMMA BackingLoop ==
  ASSUME TypeOK, Backing, UNCHANGED useWAL,
         Dequeue \/ QueueEmpty \/ SelectNotify \/ SelectTick \/ SelectDone
  PROVE  Backing'
<1>1. CASE Dequeue
  <2>1. /\ Head(queue) = queue[1] /\ 1 \in 1 .. Len(queue) /\ Head(queue) \in Item
        /\ \A i \in 1 .. Len(QueueShifted) :
              i + 1 \in 1 .. Len(queue) /\ QueueShifted[i] = queue[i + 1]
    <3>1. Len(queue) \in Nat \ {0}
      BY <1>1, EmptySeq DEF Dequeue, TypeOK
    <3> QED BY <1>1, <3>1, QueueShiftedProperties DEF Dequeue
  <2>2. queue' = QueueShifted
    BY <1>1 DEF Dequeue
  <2>3. \A i \in 1 .. Len(queue') : (queue'[i].walOffset >= 0) <=> useWAL'
    BY <2>1, <2>2 DEF Backing
  <2>4. pending' # << >>
    <3>1. pending \in Seq(Batches) /\ Head(queue).batch \in Batches
      BY <2>1 DEF TypeOK, Item
    <3> QED BY <1>1, <3>1, AppendProperties DEF Dequeue
  <2>5. hasWAL' <=> useWAL
    <3>1. Head(queue).walOffset >= 0 <=> useWAL
      BY <2>1 DEF Backing
    <3>2. IF NewerOffset(Head(queue)) THEN hasWAL' = TRUE ELSE UNCHANGED hasWAL
      BY <1>1 DEF Dequeue
    <3>3. hasWAL => useWAL
      BY DEF Backing, PendingIsBacked
    <3>4. CASE useWAL
      BY <3>1, <3>2, <3>4 DEF NewerOffset
    <3>5. CASE ~ useWAL
      BY <3>1, <3>2, <3>3, <3>5 DEF NewerOffset
    <3> QED BY <3>4, <3>5
  <2>6. loop' \in {"write", "dequeue"} /\ UNCHANGED <<req, held>>
    BY <1>1 DEF Dequeue, reqVars
  <2>7. PendingIsBacked'
    BY <2>4, <2>5, <2>6 DEF PendingIsBacked
  <2> QED BY <2>3, <2>6, <2>7 DEF Backing
<1>2. CASE QueueEmpty \/ SelectNotify \/ SelectTick \/ SelectDone
  <2>1. /\ UNCHANGED <<queue, pending, hasWAL, req, held>>
        /\ loop' \in {"select", "stopped", "write", "dequeue"}
    BY <1>2 DEF QueueEmpty, SelectNotify, SelectTick, AfterTick, SelectDone,
                queueVars, mergeVars, reqVars
  <2> QED BY <2>1 DEF Backing, PendingIsBacked
<1> QED
  BY <1>1, <1>2

LEMMA BackingFlush ==
  ASSUME TypeOK, Backing, UNCHANGED useWAL, FlushStep
  PROVE  Backing'
<1>1. UNCHANGED <<req, held>>
  BY DEF FlushStep, FlushWriteOK, FlushWriteFails, FlushAcknowledge, ReloadRecover,
         ReloadQueue, reqVars
<1>2. CASE ReloadQueue
  <2>1. useWAL /\ queue' = Load(snapshot) /\ snapshot \in Seq(Entry) /\ EndFlush
    BY <1>2 DEF ReloadQueue, Backing, TypeOK
  <2> QED BY <1>1, <2>1, BackingLoad, BackingAfterEndFlush DEF Backing
<1>3. CASE FlushWriteOK \/ FlushAcknowledge
  <2>1. UNCHANGED queue
    BY <1>3 DEF FlushWriteOK, FlushAcknowledge, queueVars
  <2>2. CASE EndFlush
    BY <1>1, <2>1, <2>2, BackingAfterEndFlush DEF Backing
  <2>3. CASE /\ UNCHANGED mergeVars
             /\ loop' \in {"ack", "recover"} /\ useWAL
             /\ loop' = "ack" => hasWAL
    BY <1>1, <2>1, <2>3 DEF Backing, PendingIsBacked, mergeVars
  <2> QED BY <1>3, <2>2, <2>3 DEF FlushWriteOK, FlushAcknowledge, Backing
<1>4. CASE FlushWriteFails \/ ReloadRecover
  <2>1. UNCHANGED <<queue, pending, hasWAL>>
    BY <1>4 DEF FlushWriteFails, ReloadRecover, queueVars, mergeVars
  <2>2. loop' \in {"stopped", "dequeue"} \/ (loop' = "reload" /\ useWAL)
    BY <1>4 DEF FlushWriteFails, AfterFailure, ReloadRecover, Backing
  <2> QED BY <1>1, <2>1, <2>2 DEF Backing, PendingIsBacked
<1> QED
  BY <1>2, <1>3, <1>4 DEF FlushStep

LEMMA BackingMain ==
  ASSUME TypeOK, Backing, UNCHANGED useWAL, MainStep
  PROVE  Backing'
<1>1. CASE StartProcess
  <2>1. /\ UNCHANGED <<pending, hasWAL, req, held>> /\ loop' = "dequeue"
    BY <1>1 DEF StartProcess, mergeVars, reqVars
  <2>2. \A i \in 1 .. Len(queue') : (queue'[i].walOffset >= 0) <=> useWAL'
    <3>1. CASE useWAL
      <4>1. queue' = Load(Scan(file)) /\ Scan(file) \in Seq(Entry)
        BY <1>1, <3>1, ScanProperties DEF StartProcess, TypeOK, WalTypeOK
      <4> QED BY <3>1, <4>1, BackingLoad
    <3>2. CASE ~ useWAL
      BY <1>1, <3>2 DEF StartProcess, queueVars, Backing
    <3> QED BY <3>1, <3>2
  <2> QED BY <2>1, <2>2 DEF Backing, PendingIsBacked
<1>2. CASE ProcessGone
  <2>1. Len(queue') = 0 /\ pending' = << >> /\ hasWAL' = FALSE /\ loop' = "down"
    BY <1>2 DEF ProcessGone
  <2>2. \A b \in Batches : req'[b] # "appended"
    BY <1>2 DEF ProcessGone
  <2> QED BY <2>1, <2>2 DEF Backing, PendingIsBacked
<1>3. CASE CancelBatcher \/ CloseResources
  BY <1>3 DEF CancelBatcher, CloseResources, queueVars, loopVars, mergeVars, reqVars,
              Backing, PendingIsBacked
<1> QED
  BY <1>1, <1>2, <1>3 DEF MainStep

LEMMA BackingHolds == Spec => []Backing
<1>1. TypeOK /\ Backing /\ [Next]_vars => Backing'
  <2>1. SUFFICES ASSUME TypeOK, Backing, [Next]_vars PROVE Backing'
    OBVIOUS
  <2>2. CASE UNCHANGED vars
    BY <2>1, <2>2 DEF vars, procVars, queueVars, mergeVars, reqVars, Backing,
                      PendingIsBacked
  <2> QED
    BY <2>1, <2>2, BackingRequest, BackingLoop, BackingFlush, BackingMain
    DEF Next, RunStep
<1> QED
  BY <1>1, BackingInit, TypeCorrect, PTL DEF Spec

(* Everything merged into pending can be acknowledged, and only that: no   *)
(* flush of the run loop (batcher.go:168-204) acknowledges an offset left  *)
(* over from the flush before, and none forgets to acknowledge.            *)
THEOREM PendingIsBackedHolds == Spec => []PendingIsBacked
<1>1. Backing => PendingIsBacked
  BY DEF Backing
<1> QED
  BY <1>1, BackingHolds, PTL
-----------------------------------------------------------------------------
(* Ids: the log numbers its entries in increasing order, whatever fails,   *)
(* so a queue loaded from it, or from a copy of it, has no id twice.       *)
Distinct(q) == \A i, j \in 1 .. Len(q) : i # j => q[i].walID # q[j].walID

IdsInOrder ==
  /\ useWAL => walIDs = IDsOf(queue) /\ Distinct(queue)
  /\ useWAL /\ Up => WalIds
  /\ IncreasingIds(Scan(file))
  /\ IncreasingIds(snapshot)

LEMMA IDsOfSeq ==
  ASSUME NEW q \in Seq(Item)
  PROVE  IDsOf(q) = {q[i].walID : i \in 1 .. Len(q)}
BY DEF IDsOf

LEMMA IDsOfEmpty == IDsOf(<< >>) = {}
<1>1. << >> \in Seq(Item) /\ Len(<< >>) = 0
  BY EmptySeq
<1>2. SUFFICES ASSUME NEW x \in IDsOf(<< >>) PROVE FALSE
  OBVIOUS
<1>3. PICK i \in 1 .. Len(<< >>) : TRUE
  BY <1>1, <1>2, IDsOfSeq
<1> QED
  BY <1>1, <1>3

LEMMA DistinctLoad ==
  ASSUME NEW es \in Seq(Entry), IncreasingIds(es)
  PROVE  Distinct(Load(es))
<1>1. ASSUME NEW i \in 1 .. Len(Load(es)), NEW j \in 1 .. Len(Load(es)), i # j
      PROVE  Load(es)[i].walID # Load(es)[j].walID
  <2>1. /\ i \in 1 .. Len(es) /\ Load(es)[i].walID = es[i].id
        /\ j \in 1 .. Len(es) /\ Load(es)[j].walID = es[j].id
    BY LoadProperties
  <2>2. es[i].id \in Nat /\ es[j].id \in Nat
    <3>1. es[i] \in Entry /\ es[j] \in Entry
      BY <2>1
    <3> QED BY <3>1 DEF Entry
  <2>3. (i < j => es[i].id < es[j].id) /\ (j < i => es[j].id < es[i].id)
    BY <2>1 DEF IncreasingIds
  <2> QED BY <1>1, <2>1, <2>2, <2>3
<1> QED
  BY <1>1 DEF Distinct

LEMMA DistinctAppend ==
  ASSUME NEW q \in Seq(Item), NEW e \in Item, Distinct(q), e.walID \notin IDsOf(q)
  PROVE  /\ Distinct(Append(q, e))
         /\ IDsOf(Append(q, e)) = IDsOf(q) \union {e.walID}
<1> DEFINE p == Append(q, e)
<1>1. /\ p \in Seq(Item) /\ Len(q) \in Nat /\ Len(p) = Len(q) + 1
      /\ \A i \in 1 .. Len(q) : p[i] = q[i]
      /\ p[Len(q) + 1] = e
  BY AppendProperties
<1> HIDE DEF p
<1>2. \A i \in 1 .. Len(p) : i \in 1 .. Len(q) \/ i = Len(q) + 1
  BY <1>1
<1>3. \A i \in 1 .. Len(q) : q[i].walID \in IDsOf(q) /\ p[i].walID = q[i].walID
  BY <1>1, IDsOfSeq
<1>4. Distinct(p)
  BY <1>1, <1>2, <1>3 DEF Distinct
<1>5. IDsOf(p) = {p[i].walID : i \in 1 .. Len(p)}
  BY <1>1, IDsOfSeq
<1>6. IDsOf(p) \subseteq IDsOf(q) \union {e.walID}
  BY <1>1, <1>2, <1>3, <1>5
<1>7. IDsOf(q) \subseteq IDsOf(p)
  <2>1. \A i \in 1 .. Len(q) : i \in 1 .. Len(p)
    BY <1>1
  <2> QED BY <1>3, <1>5, <2>1, IDsOfSeq
<1>8. e.walID \in IDsOf(p)
  <2>1. Len(q) + 1 \in 1 .. Len(p)
    BY <1>1
  <2> QED BY <1>1, <1>5, <2>1
<1> QED
  BY <1>4, <1>6, <1>7, <1>8 DEF p

LEMMA DistinctShifted ==
  ASSUME TypeOK, queue # << >>, Distinct(queue)
  PROVE  /\ Distinct(QueueShifted)
         /\ IDsOf(QueueShifted) = IDsOf(queue) \ {Head(queue).walID}
<1> DEFINE p == QueueShifted
<1>1. /\ queue \in Seq(Item) /\ p \in Seq(Item) /\ Head(queue) = queue[1]
      /\ Len(queue) \in Nat \ {0} /\ Len(p) = Len(queue) - 1
      /\ \A i \in 1 .. Len(p) : i + 1 \in 1 .. Len(queue) /\ p[i] = queue[i + 1]
  BY QueueShiftedProperties, EmptySeq DEF TypeOK
<1> HIDE DEF p
<1>2. Distinct(p)
  <2>1. ASSUME NEW i \in 1 .. Len(p), NEW j \in 1 .. Len(p), i # j
        PROVE  p[i].walID # p[j].walID
    <3>1. /\ i + 1 \in 1 .. Len(queue) /\ p[i] = queue[i + 1]
          /\ j + 1 \in 1 .. Len(queue) /\ p[j] = queue[j + 1] /\ i + 1 # j + 1
      BY <1>1, <2>1
    <3> QED BY <3>1 DEF Distinct
  <2> QED BY <2>1 DEF Distinct
<1>3. /\ IDsOf(p) = {p[i].walID : i \in 1 .. Len(p)}
      /\ IDsOf(queue) = {queue[i].walID : i \in 1 .. Len(queue)}
  BY <1>1, IDsOfSeq
<1>4. IDsOf(p) \subseteq IDsOf(queue) \ {Head(queue).walID}
  <2>1. ASSUME NEW i \in 1 .. Len(p)
        PROVE  p[i].walID \in IDsOf(queue) \ {Head(queue).walID}
    <3>1. /\ i + 1 \in 1 .. Len(queue) /\ p[i] = queue[i + 1]
          /\ 1 \in 1 .. Len(queue) /\ i + 1 # 1
      BY <1>1
    <3> QED BY <1>1, <1>3, <3>1 DEF Distinct
  <2> QED BY <1>3, <2>1
<1>5. IDsOf(queue) \ {Head(queue).walID} \subseteq IDsOf(p)
  <2>1. ASSUME NEW k \in 1 .. Len(queue), queue[k].walID # Head(queue).walID
        PROVE  queue[k].walID \in IDsOf(p)
    <3>1. k - 1 \in 1 .. Len(p) /\ (k - 1) + 1 = k
      BY <1>1, <2>1
    <3>2. p[k - 1] = queue[k]
      BY <1>1, <3>1
    <3> QED BY <1>3, <3>1, <3>2
  <2> QED BY <1>3, <2>1
<1> QED
  BY <1>2, <1>4, <1>5 DEF p

LEMMA IdsInit == Init => IdsInOrder
<1>1. SUFFICES ASSUME Init PROVE IdsInOrder
  OBVIOUS
<1>2. PICK backlog \in Seq(Batches) : file = AsFile(backlog)
  BY <1>1, InitFile
<1>3. /\ file \in Seq(Record) /\ Len(file) = Len(backlog)
      /\ \A i \in 1 .. Len(backlog) :
           file[i] = [id |-> i, batch |-> backlog[i], intact |-> TRUE]
  BY <1>2, AsFileType
<1>4. ASSUME NEW i \in 1 .. Len(Scan(file))
      PROVE  Scan(file)[i].id = i
  <2>1. /\ i \in 1 .. Len(backlog)
        /\ Scan(file)[i] = [id |-> file[i].id, offset |-> i - 1,
                            batch |-> file[i].batch]
    BY <1>3, ScanProperties
  <2>2. file[i] = [id |-> i, batch |-> backlog[i], intact |-> TRUE]
    BY <1>3, <2>1
  <2> QED BY <2>1, <2>2
<1>5. IncreasingIds(Scan(file))
  BY <1>4 DEF IncreasingIds
<1>6. /\ queue = << >> /\ Len(queue) = 0 /\ walIDs = {} /\ Len(snapshot) = 0 /\ ~ Up
  BY <1>1 DEF Init, Up
<1>7. IDsOf(queue) = {}
  BY <1>6, IDsOfEmpty
<1> QED
  BY <1>5, <1>6, <1>7 DEF IdsInOrder, Distinct, IncreasingIds

LEMMA IdsRequest ==
  ASSUME TypeOK, IdsInOrder, NEW b \in Batches, RequestStep(b), UNCHANGED useWAL
  PROVE  IdsInOrder'
<1>1. queue \in Seq(Item) /\ WalTypeOK /\ held[b] \in Held
  BY DEF TypeOK
<1>2. UNCHANGED <<loop, snapshot>> /\ (Up' <=> Up) /\ Up
  BY DEF RequestStep, EnqueueRefused, EnqueueAppend, EnqueuePush, EnqueueMemory,
         loopVars, Up
<1>3. CASE EnqueueAppend(b)
  <2>1. useWAL /\ (AppendOK(b) \/ AppendFails(b)) /\ UNCHANGED <<queue, walIDs>>
    BY <1>3 DEF EnqueueAppend, queueVars
  <2>2. WalIds'
    BY <1>1, <1>2, <2>1, WalIdsAppend DEF IdsInOrder
  <2> QED BY <1>2, <2>1, <2>2 DEF IdsInOrder, WalIds
<1>4. CASE EnqueuePush(b)
  <2> DEFINE e == [walID |-> held[b].id, walOffset |-> held[b].offset, batch |-> b]
  <2>1. e \in Item /\ e.walID = held[b].id
    BY <1>1 DEF Item, Held
  <2>2. /\ UNCHANGED walVars /\ useWAL
        /\ \/ UNCHANGED <<queue, walIDs>>
           \/ /\ queue' = Append(queue, e) /\ held[b].id \notin walIDs
              /\ walIDs' = walIDs \union {held[b].id}
    BY <1>4 DEF EnqueuePush
  <2> HIDE DEF e
  <2>3. useWAL' => walIDs' = IDsOf(queue') /\ Distinct(queue')
    BY <1>1, <2>1, <2>2, DistinctAppend DEF IdsInOrder
  <2> QED BY <1>2, <2>2, <2>3 DEF IdsInOrder, WalIds, walVars
<1>5. CASE EnqueueRefused(b) \/ EnqueueMemory(b)
  <2>1. UNCHANGED walVars /\ (useWAL => UNCHANGED <<queue, walIDs>>)
    BY <1>5 DEF EnqueueRefused, EnqueueMemory, queueVars
  <2> QED BY <1>2, <2>1 DEF IdsInOrder, WalIds, walVars
<1> QED
  BY <1>3, <1>4, <1>5 DEF RequestStep

LEMMA IdsRun ==
  ASSUME TypeOK, Backing, IdsInOrder, RunStep, UNCHANGED useWAL
  PROVE  IdsInOrder'
<1>1. /\ queue \in Seq(Item) /\ WalTypeOK /\ snapshot \in Seq(Entry)
      /\ ackOffset \in Int /\ entries \in Seq(Entry)
  BY DEF TypeOK, WalTypeOK
<1>2. Up
  BY DEF RunStep, FlushStep, Dequeue, QueueEmpty, SelectNotify, SelectTick, SelectDone,
         FlushWriteOK, FlushWriteFails, FlushAcknowledge, ReloadRecover, ReloadQueue, Up
<1>3. CASE Dequeue
  <2>1. /\ queue # << >> /\ queue' = QueueShifted
        /\ walIDs' = walIDs \ {Head(queue).walID}
        /\ UNCHANGED <<file, entries, nextID, snapshot>>
    BY <1>3 DEF Dequeue, IDsWithout, walVars
  <2>2. useWAL' => walIDs' = IDsOf(queue') /\ Distinct(queue')
    BY <2>1, DistinctShifted DEF IdsInOrder
  <2> QED BY <1>2, <2>1, <2>2 DEF IdsInOrder, WalIds
<1>4. CASE FlushAcknowledge
  <2>1. /\ useWAL /\ UNCHANGED <<queue, walIDs, snapshot>>
        /\ AcknowledgeOK(ackOffset) \/ AcknowledgeFails(ackOffset)
    BY <1>4 DEF FlushAcknowledge, Backing, queueVars
  <2>2. WalIds'
    BY <1>1, <1>2, <2>1, WalIdsAcknowledge DEF IdsInOrder
  <2> QED BY <2>1, <2>2 DEF IdsInOrder, WalIds
<1>5. CASE ReloadRecover
  <2>1. /\ useWAL /\ snapshot' = entries
        /\ UNCHANGED <<queue, walIDs, file, entries, nextID>>
    BY <1>5 DEF ReloadRecover, Backing, queueVars, walVars
  <2> QED BY <1>2, <2>1 DEF IdsInOrder, WalIds
<1>6. CASE ReloadQueue
  <2>1. /\ queue' = Load(snapshot) /\ walIDs' = IDsOf(Load(snapshot))
        /\ Len(snapshot') = 0 /\ UNCHANGED <<file, entries, nextID>>
    BY <1>6 DEF ReloadQueue, walVars
  <2>2. Distinct(queue') /\ walIDs' = IDsOf(queue')
    BY <1>1, <2>1, DistinctLoad DEF IdsInOrder
  <2>3. IncreasingIds(snapshot')
    BY <2>1 DEF IncreasingIds
  <2> QED BY <1>2, <2>1, <2>2, <2>3 DEF IdsInOrder, WalIds
<1>7. CASE \/ QueueEmpty \/ SelectNotify \/ SelectTick \/ SelectDone
           \/ FlushWriteOK \/ FlushWriteFails
  <2>1. UNCHANGED <<queue, walIDs, file, entries, nextID, snapshot>>
    BY <1>7 DEF QueueEmpty, SelectNotify, SelectTick, SelectDone, FlushWriteOK,
                FlushWriteFails, queueVars, walVars
  <2> QED BY <1>2, <2>1 DEF IdsInOrder, WalIds
<1> QED
  BY <1>3, <1>4, <1>5, <1>6, <1>7 DEF RunStep, FlushStep

LEMMA IdsMain ==
  ASSUME TypeOK, IdsInOrder, MainStep, UNCHANGED useWAL
  PROVE  IdsInOrder'
<1>1. WalTypeOK /\ Scan(file) \in Seq(Entry)
  BY ScanProperties DEF TypeOK, WalTypeOK
<1>2. CASE StartProcess
  <2>1. UNCHANGED snapshot
    BY <1>2 DEF StartProcess
  <2>2. CASE useWAL
    <3>1. /\ OpenWAL /\ queue' = Load(Scan(file)) /\ walIDs' = IDsOf(queue')
      BY <1>2, <2>2 DEF StartProcess
    <3>2. WalIds'
      BY <1>1, <3>1, WalIdsOpen DEF IdsInOrder
    <3>3. Distinct(queue')
      BY <1>1, <3>1, DistinctLoad DEF IdsInOrder
    <3> QED BY <2>1, <3>1, <3>2, <3>3 DEF IdsInOrder, WalIds
  <2>3. CASE ~ useWAL
    BY <1>2, <2>1, <2>3 DEF StartProcess, IdsInOrder, walVars
  <2> QED BY <2>2, <2>3
<1>3. CASE ProcessGone
  <2>1. /\ queue' = << >> /\ Len(queue') = 0 /\ walIDs' = {} /\ Len(snapshot') = 0
        /\ ~ Up' /\ UNCHANGED file
    BY <1>3 DEF ProcessGone, Up
  <2>2. IDsOf(queue') = {}
    BY <2>1, IDsOfEmpty
  <2> QED BY <2>1, <2>2 DEF IdsInOrder, Distinct, IncreasingIds
<1>4. CASE CancelBatcher \/ CloseResources
  <2>1. UNCHANGED <<queue, walIDs, snapshot, file, entries, nextID, loop>>
    BY <1>4 DEF CancelBatcher, CloseResources, CloseWAL, queueVars, loopVars, walVars
  <2> QED BY <2>1 DEF IdsInOrder, WalIds, Up
<1> QED
  BY <1>2, <1>3, <1>4 DEF MainStep

LEMMA IdsImplyMatch == TypeOK /\ IdsInOrder => WalIDsMatchQueue
<1>1. SUFFICES ASSUME TypeOK, IdsInOrder PROVE WalIDsMatchQueue
  OBVIOUS
<1>2. DOMAIN queue = 1 .. Len(queue)
  BY <1>1 DEF TypeOK
<1> QED
  BY <1>1, <1>2 DEF IdsInOrder, Distinct, WalIDsMatchQueue

LEMMA IdsHold == Spec => []IdsInOrder
<1>1. TypeOK /\ Backing /\ IdsInOrder /\ [Next]_vars => IdsInOrder'
  <2>1. SUFFICES ASSUME TypeOK, Backing, IdsInOrder, [Next]_vars PROVE IdsInOrder'
    OBVIOUS
  <2>2. CASE UNCHANGED vars
    BY <2>1, <2>2 DEF vars, procVars, queueVars, walVars, IdsInOrder, WalIds, Up
  <2> QED
    BY <2>1, <2>2, IdsRequest, IdsRun, IdsMain DEF Next
<1> QED
  BY <1>1, IdsInit, BackingHolds, TypeCorrect, PTL DEF Spec

(* b.walIDs names exactly the queued batches and none is queued twice      *)
(* (batcher.go:125, 262-264, 310-312), also when the log's rewrite fails   *)
(* half way, its records are torn, or a reload overlaps requests.          *)
THEOREM WalIDsMatchQueueHolds == Spec => []WalIDsMatchQueue
BY IdsHold, IdsImplyMatch, TypeCorrect, PTL
-----------------------------------------------------------------------------
(* Without a log an accepted batch is in the queue, in pending or in the   *)
(* store, and the drain finds every batch accepted before it began: once   *)
(* run has seen the queue empty, those are in pending or in the store.     *)
Stored(b) == writes[b] > 0
Merged(b) == Stored(b) \/ \E i \in 1 .. Len(pending) : pending[i] = b
Safe(b) == Merged(b) \/ \E i \in 1 .. Len(queue) : queue[i].batch = b

MemoryInv ==
  /\ ~ fileOpen
  /\ draining => cancelled /\ loop \notin {"select", "down"}
  /\ loop = "stopped" => draining
  /\ stops = 0 => /\ \A b \in Batches : req[b] = "accepted" => Safe(b)
                  /\ \A b \in early : req[b] = "accepted"
                  /\ draining /\ loop \in {"write", "stopped"} =>
                       \A b \in early : Merged(b)

LEMMA StoredStays ==
  ASSUME TypeOK, NEW b \in Batches
  PROVE  /\ Stored(b) => StorePending[b] > 0
         /\ Merged(b) => StorePending[b] > 0
<1>1. pending \in Seq(Batches) /\ writes[b] \in 0 .. 2
  BY DEF TypeOK
<1>2. StorePending[b] = IF b \notin PendingSet THEN writes[b]
                        ELSE IF writes[b] = 0 /\ ~ MergedTwice(b) THEN 1 ELSE 2
  BY DEF StorePending
<1>3. b \in PendingSet <=> \E i \in 1 .. Len(pending) : pending[i] = b
  BY <1>1 DEF PendingSet
<1> QED
  BY <1>1, <1>2, <1>3 DEF Stored, Merged

LEMMA MemoryInit == Init => (~ useWAL => MemoryInv)
<1>1. SUFFICES ASSUME Init, ~ useWAL PROVE MemoryInv
  OBVIOUS
<1>2. Len(file) = 0 /\ file \in Seq(Record)
  BY <1>1, InitFile, AsFileType, EmptySeq
<1>3. BatchesOf(file) = {}
  BY <1>2 DEF BatchesOf
<1>4. \A b \in Batches : req[b] = "new"
  BY <1>1, <1>3 DEF Init
<1>5. ~ fileOpen /\ ~ draining /\ loop = "down" /\ early = {}
  BY <1>1 DEF Init
<1> QED
  BY <1>4, <1>5 DEF MemoryInv

LEMMA MemoryRequest ==
  ASSUME TypeOK, Backing, ~ useWAL, MemoryInv, NEW b \in Batches, RequestStep(b),
         UNCHANGED useWAL
  PROVE  MemoryInv'
<1>1. /\ queue \in Seq(Item) /\ req \in [Batches -> ReqStates] /\ req[b] # "appended"
      /\ early \subseteq Batches
  BY DEF TypeOK, Backing
<1>2. /\ UNCHANGED <<fileOpen, draining, cancelled, loop, stops, early, pending, writes>>
      /\ req[b] = "new"
  BY <1>1 DEF RequestStep, EnqueueRefused, EnqueueAppend, EnqueuePush, EnqueueMemory,
         walVars, loopVars, mergeVars, history
<1>3. \A c : Merged(c)' <=> Merged(c)
  BY <1>2 DEF Merged, Stored
<1>4. CASE queue' = queue /\ req' = [req EXCEPT ![b] = "refused"]
  BY <1>1, <1>2, <1>3, <1>4 DEF MemoryInv, Safe
<1>5. ASSUME NEW e \in Item, e.batch = b, queue' = Append(queue, e),
             req' = [req EXCEPT ![b] = "accepted"]
      PROVE  MemoryInv'
  <2>1. /\ Len(queue') = Len(queue) + 1 /\ queue'[Len(queue) + 1] = e
        /\ \A i \in 1 .. Len(queue) : queue'[i] = queue[i]
        /\ Len(queue) \in Nat
    BY <1>1, <1>5, AppendProperties
  <2>2. \A c : Safe(c) => Safe(c)'
    BY <1>3, <2>1 DEF Safe
  <2>3. Safe(b)'
    BY <1>5, <2>1 DEF Safe
  <2> QED BY <1>1, <1>2, <1>3, <1>5, <2>2, <2>3 DEF MemoryInv
<1>6. CASE EnqueueRefused(b)
  BY <1>4, <1>6 DEF EnqueueRefused, queueVars
<1>7. CASE EnqueueMemory(b)
  <2> DEFINE e == [walID |-> 0, walOffset |-> -1, batch |-> b]
  <2>1. e \in Item /\ e.batch = b
    BY DEF Item
  <2>2. \/ queue' = queue /\ req' = [req EXCEPT ![b] = "refused"]
        \/ queue' = Append(queue, e) /\ req' = [req EXCEPT ![b] = "accepted"]
    BY <1>7 DEF EnqueueMemory
  <2> HIDE DEF e
  <2> QED BY <1>4, <1>5, <2>1, <2>2
<1> QED
  BY <1>1, <1>6, <1>7 DEF RequestStep, EnqueueAppend, EnqueuePush

LEMMA MemoryRun ==
  ASSUME TypeOK, Backing, ~ useWAL, MemoryInv, RunStep, UNCHANGED useWAL
  PROVE  MemoryInv'
<1>1. /\ queue \in Seq(Item) /\ Len(queue) \in Nat
      /\ pending \in Seq(Batches) /\ early \subseteq Batches
      /\ loop \notin {"ack", "recover", "reload"}
  BY DEF TypeOK, Backing
<1>2. UNCHANGED <<fileOpen, cancelled, req, early, stops>>
  BY <1>1 DEF RunStep, FlushStep, Dequeue, QueueEmpty, SelectNotify, SelectTick,
     SelectDone, FlushWriteOK, FlushWriteFails, FlushAcknowledge, ReloadRecover,
     ReloadQueue, walVars, reqVars, history
<1>3. CASE Dequeue
  <2> DEFINE item == Head(queue)
  <2>1. /\ item = queue[1] /\ item.batch \in Batches
        /\ Len(queue') = Len(queue) - 1
        /\ \A i \in 1 .. Len(queue') : queue'[i] = queue[i + 1]
    BY <1>3, QueueShiftedProperties DEF Dequeue, Item
  <2>2. /\ pending' = Append(pending, item.batch)
        /\ UNCHANGED <<draining, writes>> /\ loop = "dequeue"
        /\ loop' \in {"write", "dequeue"} /\ (draining => loop' = "dequeue")
    BY <1>3 DEF Dequeue, history
  <2> HIDE DEF item
  <2>3. /\ Len(pending') = Len(pending) + 1 /\ pending'[Len(pending) + 1] = item.batch
        /\ \A i \in 1 .. Len(pending) : pending'[i] = pending[i]
        /\ Len(pending) \in Nat
    BY <1>1, <2>1, <2>2, AppendProperties
  <2>4. \A c : Merged(c) => Merged(c)'
    BY <2>2, <2>3 DEF Merged, Stored
  <2>5. ASSUME NEW c, c = item.batch
        PROVE  Merged(c)'
    BY <2>3, <2>5 DEF Merged
  <2>6. ASSUME NEW c, Safe(c)
        PROVE  Safe(c)'
    <3>1. CASE Merged(c)
      BY <2>4, <3>1 DEF Safe
    <3>2. ASSUME NEW i \in 1 .. Len(queue), queue[i].batch = c
          PROVE  Safe(c)'
      <4>1. CASE i = 1
        BY <2>1, <2>5, <3>2, <4>1 DEF Safe
      <4>2. CASE i # 1
        <5>1. i - 1 \in 1 .. Len(queue') /\ (i - 1) + 1 = i
          BY <1>1, <2>1, <4>2
        <5>2. queue'[i - 1] = queue[i]
          BY <2>1, <5>1
        <5> QED BY <3>2, <5>1, <5>2 DEF Safe
      <4> QED BY <4>1, <4>2
    <3> QED BY <2>6, <3>1, <3>2 DEF Safe
  <2> QED BY <1>2, <2>2, <2>6 DEF MemoryInv
<1>4. CASE QueueEmpty
  <2>1. /\ UNCHANGED <<queue, pending, writes, draining>> /\ Len(queue) = 0
        /\ loop' = IF ~ draining THEN "select"
                   ELSE IF pending = << >> THEN "stopped" ELSE "write"
    BY <1>4 DEF QueueEmpty, queueVars, mergeVars, history
  <2>2. \A c : /\ Merged(c)' <=> Merged(c)
               /\ Safe(c)' <=> Safe(c)
               /\ Safe(c) => Merged(c)
    BY <2>1 DEF Merged, Stored, Safe
  <2> QED BY <1>1, <1>2, <2>1, <2>2 DEF MemoryInv
<1>5. CASE SelectNotify \/ SelectTick \/ SelectDone
  <2>1. /\ UNCHANGED <<queue, pending, writes>> /\ loop = "select"
        /\ loop' \in {"write", "dequeue"}
        /\ draining' => cancelled /\ loop' = "dequeue"
    BY <1>5 DEF SelectNotify, SelectTick, AfterTick, SelectDone, queueVars, mergeVars,
                history, MemoryInv
  <2>2. \A c : Safe(c)' <=> Safe(c)
    BY <2>1 DEF Merged, Stored, Safe
  <2> QED BY <1>2, <2>1, <2>2 DEF MemoryInv
<1>6. CASE FlushWriteOK \/ FlushWriteFails
  <2>1. /\ UNCHANGED <<queue, draining>> /\ loop = "write"
        /\ loop' = IF draining THEN "stopped" ELSE "dequeue"
    BY <1>6 DEF FlushWriteOK, FlushWriteFails, AfterFailure, EndFlush, queueVars
  <2>2. \/ writes' = StorePending
        \/ writes' = writes /\ pending' = pending
    BY <1>6 DEF FlushWriteOK, FlushWriteFails, mergeVars
  <2>3. ASSUME NEW c \in Batches, Merged(c)
        PROVE  Merged(c)'
    BY <2>2, <2>3, StoredStays DEF Merged, Stored
  <2>4. ASSUME NEW c \in Batches, Safe(c)
        PROVE  Safe(c)'
    BY <2>1, <2>3, <2>4 DEF Safe
  <2> QED BY <1>1, <1>2, <2>1, <2>3, <2>4 DEF MemoryInv
<1> QED
  BY <1>1, <1>3, <1>4, <1>5, <1>6
  DEF RunStep, FlushStep, FlushAcknowledge, ReloadRecover, ReloadQueue

LEMMA MemoryMain ==
  ASSUME TypeOK, ~ useWAL, MemoryInv, MainStep, UNCHANGED useWAL
  PROVE  MemoryInv'
<1>1. CASE StartProcess
  <2>1. /\ UNCHANGED <<fileOpen, queue, pending, writes, draining, cancelled, req, early,
                       stops>>
        /\ loop' = "dequeue" /\ loop = "down"
    BY <1>1 DEF StartProcess, walVars, queueVars, mergeVars, reqVars, history
  <2>2. \A c : Safe(c)' <=> Safe(c)
    BY <2>1 DEF Merged, Stored, Safe
  <2> QED BY <2>1, <2>2 DEF MemoryInv
<1>2. CASE CancelBatcher
  <2>1. /\ UNCHANGED <<fileOpen, queue, pending, writes, draining, req, stops, loop>>
        /\ cancelled' /\ ~ cancelled /\ early' = {b \in Batches : req[b] = "accepted"}
    BY <1>2 DEF CancelBatcher, walVars, queueVars, loopVars, mergeVars, reqVars
  <2>2. \A c : Safe(c)' <=> Safe(c)
    BY <2>1 DEF Merged, Stored, Safe
  <2> QED BY <2>1, <2>2 DEF MemoryInv
<1>3. CASE CloseResources
  BY <1>3 DEF CloseResources, MemoryInv
<1>4. CASE ProcessGone
  <2>1. stops' # 0
    BY <1>4 DEF ProcessGone, TypeOK
  <2> QED BY <1>4, <2>1 DEF ProcessGone, MemoryInv
<1> QED
  BY <1>1, <1>2, <1>3, <1>4 DEF MainStep

LEMMA MemoryHolds == Spec => [](~ useWAL => MemoryInv)
<1>1. TypeOK /\ Backing /\ (~ useWAL => MemoryInv) /\ [Next]_vars
        => (~ useWAL => MemoryInv)'
  <2>1. SUFFICES ASSUME TypeOK, Backing, ~ useWAL => MemoryInv, [Next]_vars, ~ useWAL'
                 PROVE  MemoryInv'
    OBVIOUS
  <2>2. UNCHANGED useWAL /\ ~ useWAL /\ MemoryInv
    BY <2>1 DEF Next, vars
  <2>3. CASE UNCHANGED vars
    BY <2>2, <2>3 DEF vars, procVars, walVars, queueVars, mergeVars, reqVars, history,
                      MemoryInv, Safe, Merged, Stored
  <2> QED
    BY <2>1, <2>2, <2>3, MemoryRequest, MemoryRun, MemoryMain DEF Next
<1> QED
  BY <1>1, MemoryInit, BackingHolds, TypeCorrect, PTL DEF Spec

(* A graceful stop without a log: when run has ended and its last write    *)
(* did not fail, the drain (batcher.go:223-239) has stored every batch     *)
(* accepted before the cancellation, though requests go on meanwhile.      *)
THEOREM DrainIsCompleteHolds == Spec => []DrainIsComplete
<1>1. TypeOK /\ (~ useWAL => MemoryInv) => DrainIsComplete
  <2>1. SUFFICES ASSUME TypeOK, ~ useWAL => MemoryInv, ~ useWAL, stops = 0,
                        loop = "stopped", pending = << >>, NEW b \in early
                 PROVE  writes[b] > 0
    BY DEF DrainIsComplete
  <2>2. Len(pending) = 0
    BY <2>1
  <2>3. Merged(b)
    BY <2>1 DEF MemoryInv
  <2> QED BY <2>2, <2>3 DEF Merged, Stored
<1> QED
  BY <1>1, MemoryHolds, TypeCorrect, PTL

(* Without a log, until the process ends: a failed write keeps its batches *)
(* for the next one (batcher.go:173-181), and an accepted batch is stored, *)
(* or still on its way through the queue and pending of a loop that will   *)
(* read them, or it is one of those a stop loses: merged into a last write *)
(* that failed, or accepted after the cancellation and behind the drain.   *)
THEOREM NoLossInMemory == Spec => [](~ useWAL => NoLoss)
<1>1. TypeOK /\ Backing /\ (~ useWAL => MemoryInv) => (~ useWAL => NoLoss)
  <2>1. SUFFICES ASSUME TypeOK, Backing, ~ useWAL, MemoryInv, stops = 0,
                        NEW b \in Batches, req[b] = "accepted"
                 PROVE  writes[b] > 0 \/ Kept(b) \/ GivenUp(b)
    BY DEF NoLoss
  <2>2. DOMAIN queue = 1 .. Len(queue) /\ DOMAIN pending = 1 .. Len(pending)
    BY <2>1 DEF TypeOK
  <2>3. Safe(b)
    BY <2>1 DEF MemoryInv
  <2>4. CASE Merged(b)
    BY <2>1, <2>2, <2>4 DEF Merged, Stored, Kept, GivenUp, PendingSet
  <2>5. CASE ~ Merged(b)
    <3>1. b \in BatchesOf(queue)
      BY <2>2, <2>3, <2>5 DEF Safe, BatchesOf
    <3>2. ~ Dequeues => loop \in {"write", "stopped"} /\ draining
      BY <2>1 DEF Dequeues, MemoryInv, Backing, TypeOK, LoopStates
    <3>3. ~ Dequeues => b \notin early
      BY <2>1, <2>5, <3>2 DEF MemoryInv
    <3> QED BY <2>1, <3>1, <3>3 DEF Kept, GivenUp
  <2> QED BY <2>4, <2>5
<1> QED
  BY <1>1, MemoryHolds, BackingHolds, TypeCorrect, PTL
-----------------------------------------------------------------------------
(* No accepted batch is lost with a write-ahead log, for every number of   *)
(* batches, capacity, flush size, backlog and number of crashes, when      *)
(*   - requests come one at a time,                                        *)
(*   - none overlaps an acknowledgement and the reload after it,           *)
(*   - none finds the log as full as the queue can be, and                 *)
(*   - no append tears a record and no rescan fails after a swap.          *)
(* Each of the first three is needed: the runs bw_order and bw_overflow    *)
(* show what happens without it.                                           *)
(*                                                                         *)
(* The argument: the queue is a window of the entries, entries[m + 1 .. n].*)
(* What lies before the window is in the store, in pending, or was never   *)
(* accepted; the offset to be acknowledged lies before the window too.     *)
(* Behind the window is either the one entry a request is about to push,   *)
(* or a backlog larger than the queue, which keeps requests away until a   *)
(* reload has moved the window.                                            *)
Has(s, b) == \E i \in 1 .. Len(s) : s[i].batch = b

Need(b) == req[b] = "accepted" /\ ~ Stored(b)

OffsetsInOrder ==
  /\ \A i, j \in 1 .. Len(entries) : i < j => entries[i].offset < entries[j].offset
  /\ fileOpen => \A i \in 1 .. Len(entries) : entries[i].offset < Len(file)

Window(m, n) ==
  /\ Len(queue) = n - m
  /\ \A k \in 1 .. Len(queue) : queue[k] = AsItem(entries[m + k])
  /\ \A i \in 1 .. m : Need(entries[i].batch) => Merged(entries[i].batch)
  /\ hasWAL => /\ \A i \in m + 1 .. Len(entries) : ackOffset < entries[i].offset
               /\ fileOpen => ackOffset < Len(file)
  /\ InEnqueue = {} /\ n < Len(entries) => QueueCapacity < Len(entries)
  /\ \A b \in InEnqueue :
       /\ n = Len(entries) - 1
       /\ held[b].id = entries[n + 1].id
       /\ held[b].offset = entries[n + 1].offset
       /\ \A i \in 1 .. Len(entries) : entries[i].batch = b <=> i = n + 1

FileInv ==
  /\ \A i \in 1 .. Len(file) : file[i].intact
  /\ \A b \in Batches : Need(b) \/ req[b] = "appended" => Has(file, b)
  /\ \A b \in Batches : req[b] = "new" => ~ Has(file, b)

DownInv == ~ Up => Len(pending) = 0 /\ ~ hasWAL /\ InEnqueue = {}

EntriesInv ==
  Up => /\ \A b \in Batches : Need(b) => Has(entries, b)
        /\ \A b \in Batches : req[b] = "new" => ~ Has(entries, b)
        /\ \A b, c \in InEnqueue : b = c

LoopInv ==
  /\ loop \in {"recover", "reload"} => InEnqueue = {}
  /\ loop = "reload" => snapshot = entries
  /\ loop = "ack" => \A i \in 1 .. Len(pending) : Stored(pending[i])
  /\ Up /\ loop \notin {"recover", "reload"} =>
       \E n \in 0 .. Len(entries) : \E m \in 0 .. n : Window(m, n)

SerialInv == /\ OffsetsInOrder
             /\ FileInv
             /\ DownInv
             /\ EntriesInv
             /\ LoopInv

(* The environment and the faults the theorem assumes.                     *)
Serial == /\ ~ ConcurrentRequests /\ ~ FlushOverlap /\ ~ Overflow
          /\ "torn" \notin AppendResidues
          /\ "stale" \notin AckFaults
-----------------------------------------------------------------------------
LEMMA HasAppend ==
  ASSUME NEW S, NEW s \in Seq(S), NEW e \in S
  PROVE  \A b : Has(Append(s, e), b) <=> Has(s, b) \/ e.batch = b
<1>1. /\ Len(s) \in Nat /\ Len(Append(s, e)) = Len(s) + 1
      /\ \A i \in 1 .. Len(s) : Append(s, e)[i] = s[i]
      /\ Append(s, e)[Len(s) + 1] = e
  BY AppendProperties
<1>2. \A i \in 1 .. Len(s) + 1 : i \in 1 .. Len(s) \/ i = Len(s) + 1
  BY <1>1
<1> QED
  BY <1>1, <1>2 DEF Has

LEMMA HasScan ==
  ASSUME NEW f \in Seq(Record), \A i \in 1 .. Len(f) : f[i].intact
  PROVE  \A b : Has(Scan(f), b) <=> Has(f, b)
<1>1. Len(Scan(f)) = Len(f)
  BY ScanProperties, IntactFile
<1>2. ASSUME NEW i \in 1 .. Len(f)
      PROVE  Scan(f)[i].batch = f[i].batch
  <2>1. Scan(f)[i] = [id |-> f[i].id, offset |-> i - 1, batch |-> f[i].batch]
    BY <1>1, ScanProperties
  <2> QED BY <2>1
<1> QED
  BY <1>1, <1>2 DEF Has

(* What an acknowledgement may change, whether it succeeds or fails.       *)
LEMMA AcknowledgeFacts ==
  ASSUME WalTypeOK, OffsetsInOrder, NEW o \in Int, "stale" \notin AckFaults,
         AcknowledgeOK(o) \/ AcknowledgeFails(o),
         \A i \in 1 .. Len(file) : file[i].intact
  PROVE  /\ OffsetsInOrder'
         /\ \A i \in 1 .. Len(file') : file'[i].intact
         /\ \A b : /\ Has(file', b) => Has(file, b) \/ Has(entries, b)
                   /\ Has(entries', b) => Has(entries, b)
         /\ \A b : Has(entries, b) /\ Has(file, b)
                  /\ (\A i \in 1 .. Len(entries) :
                         entries[i].batch = b => o < entries[i].offset)
                   => Has(entries', b) /\ Has(file', b)
<1> DEFINE rs == Remaining(o)
           f == Rewritten(rs)
           k == AckIndex(o)
<1>1. /\ entries \in Seq(Entry) /\ Len(entries) \in Nat
      /\ k \in 0 .. Len(entries)
      /\ \A i \in 1 .. k : entries[i].offset <= o
  BY AckIndexProperties DEF WalTypeOK
<1>2. /\ rs \in Seq(Entry) /\ Len(rs) = Len(entries) - k
      /\ \A i \in 1 .. Len(rs) : i + k \in 1 .. Len(entries) /\ rs[i] = entries[i + k]
  BY <1>1, RemainingProperties
<1> HIDE DEF rs, k
<1>3. /\ f \in Seq(Record) /\ Len(f) = Len(rs)
      /\ \A i \in 1 .. Len(rs) :
           f[i] = [id |-> rs[i].id, batch |-> rs[i].batch, intact |-> TRUE]
  BY <1>2, RewrittenProperties
<1>4. /\ Len(Scan(f)) = Len(rs)
      /\ \A i \in 1 .. Len(rs) :
           Scan(f)[i] = [id |-> rs[i].id, offset |-> i - 1, batch |-> rs[i].batch]
  BY <1>2, ScanOfRewritten
<1> HIDE DEF f
<1>5. ASSUME NEW i \in 1 .. Len(rs)
      PROVE  /\ f[i].intact /\ f[i].batch = rs[i].batch
             /\ Scan(f)[i].batch = rs[i].batch /\ Scan(f)[i].offset = i - 1
  <2>1. /\ f[i] = [id |-> rs[i].id, batch |-> rs[i].batch, intact |-> TRUE]
        /\ Scan(f)[i] = [id |-> rs[i].id, offset |-> i - 1, batch |-> rs[i].batch]
    BY <1>3, <1>4
  <2> QED BY <2>1
<1>6. \A b : (Has(f, b) <=> Has(rs, b)) /\ (Has(Scan(f), b) <=> Has(rs, b))
  BY <1>3, <1>4, <1>5 DEF Has
<1>7. \A b : Has(rs, b) => Has(entries, b)
  BY <1>2 DEF Has
<1>8. ASSUME NEW b, Has(entries, b),
             \A i \in 1 .. Len(entries) : entries[i].batch = b => o < entries[i].offset
      PROVE  Has(rs, b)
  <2>1. PICK i \in 1 .. Len(entries) : entries[i].batch = b
    BY <1>8 DEF Has
  <2>2. o < entries[i].offset /\ entries[i] \in Entry
    BY <1>1, <1>8, <2>1
  <2>3. entries[i].offset \in Nat
    BY <2>2 DEF Entry
  <2>4. i \notin 1 .. k
    BY <1>1, <2>2, <2>3
  <2>5. i - k \in 1 .. Len(rs) /\ (i - k) + k = i
    BY <1>1, <1>2, <2>4
  <2>6. rs[i - k] = entries[i]
    BY <1>2, <2>5
  <2> QED BY <2>1, <2>5, <2>6 DEF Has
<1>9. CASE UNCHANGED <<file, entries>> /\ (fileOpen' => fileOpen)
  BY <1>9 DEF OffsetsInOrder
<1>10. CASE file' = f /\ entries' = entries /\ ~ fileOpen'
  <2>1. OffsetsInOrder'
    BY <1>10 DEF OffsetsInOrder
  <2>2. \A i \in 1 .. Len(file') : file'[i].intact
    BY <1>3, <1>5, <1>10
  <2> QED BY <1>6, <1>7, <1>8, <1>10, <2>1, <2>2
<1>11. CASE file' = f /\ entries' = Scan(f)
  <2>1. OffsetsInOrder'
    <3>1. \A i \in 1 .. Len(rs) : entries'[i].offset = i - 1
      BY <1>5, <1>11
    <3>2. Len(entries') = Len(rs) /\ Len(file') = Len(rs) /\ Len(rs) \in Nat
      BY <1>2, <1>3, <1>4, <1>11
    <3> QED BY <3>1, <3>2 DEF OffsetsInOrder
  <2>2. \A i \in 1 .. Len(file') : file'[i].intact
    BY <1>3, <1>5, <1>11
  <2> QED BY <1>6, <1>7, <1>8, <1>11, <2>1, <2>2
<1> QED
  BY <1>9, <1>10, <1>11 DEF AcknowledgeOK, AcknowledgeFails, walVars, f, rs
-----------------------------------------------------------------------------
(* What the steps below may assume: what is proved of every execution, and *)
(* that there is a log.                                                    *)
Known == TypeOK /\ Backing /\ IdsInOrder /\ useWAL /\ useWAL'

LEMMA KnownTypes ==
  ASSUME Known
  PROVE  /\ file \in Seq(Record) /\ Len(file) \in Nat
         /\ entries \in Seq(Entry) /\ Len(entries) \in Nat
         /\ queue \in Seq(Item) /\ Len(queue) \in Nat
         /\ pending \in Seq(Batches) /\ Len(pending) \in Nat
         /\ ackOffset \in Nat
         /\ req \in [Batches -> ReqStates]
         /\ held \in [Batches -> Held]
         /\ \A i \in 1 .. Len(entries) : /\ entries[i] \in Entry
                                         /\ entries[i].offset \in Nat
                                         /\ entries[i].id \in Nat
                                         /\ entries[i].batch \in Batches
<1>1. entries \in Seq(Entry) /\ Len(entries) \in Nat
  BY DEF Known, TypeOK, WalTypeOK
<1>2. \A i \in 1 .. Len(entries) : entries[i] \in Entry
  BY <1>1
<1>3. \A i \in 1 .. Len(entries) : /\ entries[i].offset \in Nat
                                  /\ entries[i].id \in Nat
                                  /\ entries[i].batch \in Batches
  BY <1>2 DEF Entry
<1>4. /\ file \in Seq(Record) /\ queue \in Seq(Item) /\ pending \in Seq(Batches)
      /\ ackOffset \in Nat /\ req \in [Batches -> ReqStates]
      /\ held \in [Batches -> Held]
  BY DEF Known, TypeOK, WalTypeOK
<1> QED
  BY <1>1, <1>2, <1>3, <1>4

(* A window stays one as long as nothing it speaks about moves.            *)
LEMMA WindowStays ==
  ASSUME Known, NEW m \in Nat, NEW n \in 0 .. Len(entries), m <= n, Window(m, n),
         UNCHANGED <<queue, entries, ackOffset, held, InEnqueue>>,
         hasWAL' => hasWAL,
         fileOpen' => fileOpen /\ Len(file') \in Nat /\ Len(file) <= Len(file'),
         \A b \in Batches : /\ Need(b)' => Need(b)
                            /\ Need(b)' /\ Merged(b) => Merged(b)'
  PROVE  Window(m, n)'
<1>1. /\ Len(entries) \in Nat /\ Len(file) \in Nat /\ ackOffset \in Nat
      /\ \A i \in 1 .. Len(entries) : entries[i].batch \in Batches
  BY KnownTypes
<1>2. ASSUME NEW i \in 1 .. m, NEW c, c = entries[i].batch, Need(c)'
      PROVE  Merged(c)'
  <2>1. c \in Batches
    BY <1>1, <1>2
  <2>2. Need(c)
    BY <1>2, <2>1 DEF Need, Stored, Merged
  <2>3. Merged(c)
    <3>1. Need(entries[i].batch) => Merged(entries[i].batch)
      BY DEF Window
    <3> QED BY <1>2, <2>2, <3>1
  <2> QED BY <1>2, <2>1, <2>3 DEF Need, Stored, Merged
<1>3. /\ Len(queue') = n - m
      /\ \A k \in 1 .. Len(queue') : queue'[k] = AsItem(entries'[m + k])
  BY DEF Window
<1>4. hasWAL' => /\ \A i \in m + 1 .. Len(entries') : ackOffset' < entries'[i].offset
                 /\ fileOpen' => ackOffset' < Len(file')
  BY <1>1 DEF Window
<1>5. /\ InEnqueue' = {} /\ n < Len(entries') => QueueCapacity < Len(entries')
      /\ \A b \in InEnqueue' :
           /\ n = Len(entries') - 1
           /\ held'[b].id = entries'[n + 1].id
           /\ held'[b].offset = entries'[n + 1].offset
           /\ \A i \in 1 .. Len(entries') : entries'[i].batch = b <=> i = n + 1
  BY DEF Window
<1>6. \A i \in 1 .. m : (Need(entries[i].batch) => Merged(entries[i].batch))'
  BY <1>2
<1> QED
  BY <1>3, <1>4, <1>5, <1>6 DEF Window
-----------------------------------------------------------------------------
LEMMA SerialInit == Init /\ useWAL => SerialInv
<1>1. SUFFICES ASSUME Init, useWAL PROVE SerialInv
  OBVIOUS
<1>2. PICK backlog \in Seq(Batches) : file = AsFile(backlog)
  BY <1>1, InitFile
<1>3. /\ file \in Seq(Record) /\ Len(file) = Len(backlog)
      /\ \A i \in 1 .. Len(file) :
           file[i] = [id |-> i, batch |-> backlog[i], intact |-> TRUE]
  BY <1>2, AsFileType
<1>4. ASSUME NEW i \in 1 .. Len(file)
      PROVE  file[i].intact
  <2>1. file[i] = [id |-> i, batch |-> backlog[i], intact |-> TRUE]
    BY <1>3
  <2> QED BY <2>1
<1>5. \A b : b \in BatchesOf(file) <=> Has(file, b)
  BY <1>3 DEF BatchesOf, Has
<1>6. \A b \in Batches : req[b] = IF Has(file, b) THEN "accepted" ELSE "new"
  BY <1>1, <1>5 DEF Init
<1>7. Len(entries) = 0 /\ Len(pending) = 0 /\ ~ hasWAL /\ ~ Up /\ loop = "down"
  BY <1>1 DEF Init, Up
<1>8. InEnqueue = {}
  BY <1>6 DEF InEnqueue
<1>9. FileInv
  BY <1>4, <1>6 DEF FileInv, Need
<1> QED
  BY <1>7, <1>8, <1>9 DEF SerialInv, OffsetsInOrder, DownInv, EntriesInv, LoopInv

(* Steps that move neither the log nor the queue nor pending.              *)
LEMMA SerialFrame ==
  ASSUME Known, SerialInv,
         UNCHANGED <<file, entries, queue, pending, ackOffset, hasWAL, held, writes,
                     snapshot>>,
         InEnqueue' = InEnqueue,
         fileOpen' => fileOpen,
         \A b \in Batches : req'[b] = req[b] \/ (req[b] = "new" /\ req'[b] = "refused"),
         \/ loop' = loop
         \/ /\ Up /\ loop \notin {"recover", "reload"}
            /\ Up' /\ loop' \notin {"ack", "recover", "reload"}
  PROVE  SerialInv'
<1>1. Len(entries) \in Nat /\ Len(file) \in Nat
  BY KnownTypes
<1>2. \A b \in Batches : /\ Need(b)' => Need(b)
                         /\ Merged(b)' <=> Merged(b)
  BY DEF Need, Stored, Merged
<1>3. OffsetsInOrder'
  BY DEF SerialInv, OffsetsInOrder
<1>4. FileInv'
  <2>1. \A b : Has(file, b)' <=> Has(file, b)
    BY DEF Has
  <2> QED BY <1>2, <2>1 DEF SerialInv, FileInv, Need, Stored
<1>5. Up' <=> Up
  BY DEF Up
<1>6. DownInv'
  BY <1>5 DEF SerialInv, DownInv
<1>7. EntriesInv'
  <2>1. \A b : Has(entries, b)' <=> Has(entries, b)
    BY DEF Has
  <2> QED BY <1>2, <1>5, <2>1 DEF SerialInv, EntriesInv, Need, Stored
<1>8. LoopInv'
  <2>1. ASSUME Up', loop' \notin {"recover", "reload"}
        PROVE  \E n \in 0 .. Len(entries') : \E m \in 0 .. n : Window(m, n)'
    <3>1. PICK n \in 0 .. Len(entries) : \E m \in 0 .. n : Window(m, n)
      BY <1>5, <2>1 DEF SerialInv, LoopInv
    <3>2. PICK m \in 0 .. n : Window(m, n)
      BY <3>1
    <3>3. Window(m, n)'
      BY <1>1, <1>2, <3>2, WindowStays DEF Need, Stored, Merged
    <3> QED BY <3>3
  <2>2. /\ loop' \in {"recover", "reload"} => InEnqueue' = {}
        /\ loop' = "reload" => snapshot' = entries'
        /\ loop' = "ack" => \A i \in 1 .. Len(pending') : Stored(pending[i])'
    BY DEF SerialInv, LoopInv, Stored
  <2> QED BY <2>1, <2>2 DEF LoopInv
<1> QED
  BY <1>3, <1>4, <1>6, <1>7, <1>8 DEF SerialInv

(* A write to the store: nothing that is needed is needed more, and what   *)
(* was merged stays merged, or is stored when pending is emptied.          *)
LEMMA SerialWrite ==
  ASSUME Known, SerialInv, FlushWriteOK \/ FlushWriteFails
  PROVE  SerialInv'
<1>1. Len(entries) \in Nat /\ Len(file) \in Nat /\ pending \in Seq(Batches)
  BY KnownTypes
<1>2. /\ UNCHANGED <<file, fileOpen, entries, queue, held, req>> /\ loop = "write"
      /\ loop' \in {"ack", "dequeue", "stopped"}
  BY DEF FlushWriteOK, FlushWriteFails, EndFlush, AfterFailure, walVars, queueVars,
         reqVars
<1>3. \/ writes' = StorePending /\ pending' = pending
      \/ writes' = StorePending /\ Len(pending') = 0 /\ ~ hasWAL'
      \/ writes' = writes /\ pending' = pending
  BY DEF FlushWriteOK, FlushWriteFails, EndFlush, mergeVars
<1>4. /\ hasWAL' => hasWAL /\ UNCHANGED <<ackOffset>>
      /\ loop' = "ack" => writes' = StorePending /\ pending' = pending
  BY <1>2 DEF FlushWriteOK, FlushWriteFails, EndFlush, AfterFailure, mergeVars
<1>5. /\ \A b \in Batches : Stored(b) => Stored(b)'
      /\ writes' = StorePending => \A b \in Batches : Merged(b) => Stored(b)'
  BY <1>3, StoredStays DEF Stored, Known
<1>6. \A b \in Batches : /\ Need(b)' => Need(b)
                         /\ Need(b)' /\ Merged(b) => Merged(b)'
  BY <1>2, <1>3, <1>5 DEF Need, Stored, Merged
<1>7. InEnqueue' = InEnqueue
  BY <1>2 DEF InEnqueue
<1>8. OffsetsInOrder' /\ FileInv' /\ DownInv' /\ EntriesInv'
  <2>1. \A b : /\ Has(file, b)' <=> Has(file, b)
               /\ Has(entries, b)' <=> Has(entries, b)
    BY <1>2 DEF Has
  <2>2. Up /\ Up'
    BY <1>2 DEF Up
  <2>3. FileInv'
    BY <1>2, <1>6, <2>1 DEF SerialInv, FileInv, Need, Stored
  <2>4. EntriesInv'
    BY <1>2, <1>6, <1>7, <2>1, <2>2 DEF SerialInv, EntriesInv, Need, Stored
  <2> QED BY <1>2, <2>2, <2>3, <2>4 DEF SerialInv, OffsetsInOrder, DownInv
<1>9. LoopInv'
  <2>1. PICK n \in 0 .. Len(entries) : \E m \in 0 .. n : Window(m, n)
    BY <1>2 DEF SerialInv, LoopInv, Up
  <2>2. PICK m \in 0 .. n : Window(m, n)
    BY <2>1
  <2>3. Window(m, n)'
    <3>1. CASE hasWAL'
      <4>1. UNCHANGED <<queue, entries, ackOffset, held, InEnqueue>>
        BY <1>2, <1>4, <1>7, <3>1
      <4> QED BY <1>1, <1>2, <1>4, <1>6, <2>2, <4>1, WindowStays
              DEF Need, Stored, Merged
    <3>2. CASE ~ hasWAL'
      <4>1. \A i \in 1 .. Len(entries) : entries[i].batch \in Batches
        BY KnownTypes
      <4>2. \A i \in 1 .. m : (Need(entries[i].batch) => Merged(entries[i].batch))'
        <5>1. ASSUME NEW i \in 1 .. m, NEW c, c = entries[i].batch, Need(c)'
              PROVE  Merged(c)'
          <6>1. c \in Batches
            BY <1>1, <4>1, <5>1
          <6>2. Need(entries[i].batch) => Merged(entries[i].batch)
            BY <2>2 DEF Window
          <6> QED BY <1>6, <5>1, <6>1, <6>2 DEF Need, Stored, Merged
        <5> QED BY <1>2, <5>1
      <4> QED BY <1>2, <1>7, <2>2, <3>2, <4>2 DEF Window
    <3> QED BY <3>1, <3>2
  <2>4. loop' = "ack" => \A i \in 1 .. Len(pending') : Stored(pending[i])'
    <3>1. \A i \in 1 .. Len(pending) : pending[i] \in Batches /\ Merged(pending[i])
      BY <1>1 DEF Merged
    <3> QED BY <1>4, <1>5, <3>1 DEF Stored
  <2> QED BY <1>2, <2>3, <2>4 DEF LoopInv
<1> QED
  BY <1>8, <1>9 DEF SerialInv

(* dequeue: the window's left edge moves over the entry that is merged.    *)
LEMMA SerialDequeue ==
  ASSUME Known, SerialInv, Dequeue
  PROVE  SerialInv'
<1> DEFINE item == Head(queue)
<1>1. /\ Len(entries) \in Nat /\ Len(queue) \in Nat /\ Len(file) \in Nat
      /\ Len(pending) \in Nat /\ pending \in Seq(Batches) /\ ackOffset \in Nat
      /\ \A i \in 1 .. Len(entries) : /\ entries[i].offset \in Nat
                                      /\ entries[i].batch \in Batches
  BY KnownTypes
<1>2. /\ item = queue[1] /\ Len(queue) > 0
      /\ Len(queue') = Len(queue) - 1
      /\ \A k \in 1 .. Len(queue') : queue'[k] = queue[k + 1]
  <2>1. queue # << >> /\ queue' = QueueShifted
    BY DEF Dequeue
  <2>2. Len(queue) > 0
    BY <1>1, <2>1, KnownTypes
  <2> QED BY <2>1, <2>2, QueueShiftedProperties DEF Known
<1>3. /\ UNCHANGED <<file, fileOpen, entries, held, req, writes, snapshot>>
      /\ loop = "dequeue" /\ loop' \in {"write", "dequeue"}
      /\ pending' = Append(pending, item.batch)
  BY DEF Dequeue, walVars, reqVars, history
<1>4. IF NewerOffset(item) THEN ackOffset' = item.walOffset /\ hasWAL' = TRUE
                           ELSE UNCHANGED <<ackOffset, hasWAL>>
  BY DEF Dequeue
<1>5. /\ Up /\ Up' /\ InEnqueue' = InEnqueue
      /\ loop \notin {"recover", "reload"} /\ loop' \notin {"ack", "recover", "reload"}
  BY <1>3 DEF Up, InEnqueue
<1> HIDE DEF item
<1>6. PICK n \in 0 .. Len(entries) : \E m \in 0 .. n : Window(m, n)
  BY <1>5 DEF SerialInv, LoopInv
<1>7. PICK m \in 0 .. n : Window(m, n)
  BY <1>6
<1>8. /\ m + 1 \in 1 .. n /\ m + 1 \in 1 .. Len(entries)
      /\ item = AsItem(entries[m + 1])
  BY <1>1, <1>2, <1>7 DEF Window
<1>9. /\ item.walOffset = entries[m + 1].offset
      /\ item.batch = entries[m + 1].batch /\ item.batch \in Batches
      /\ item.walOffset \in Nat
  BY <1>1, <1>8 DEF AsItem
<1>10. /\ Len(pending') = Len(pending) + 1
       /\ pending'[Len(pending) + 1] = item.batch
       /\ \A i \in 1 .. Len(pending) : pending'[i] = pending[i]
  BY <1>1, <1>3, <1>9, AppendProperties
<1>11. \A b : /\ Need(b)' <=> Need(b)
              /\ Merged(b) => Merged(b)'
  BY <1>1, <1>3, <1>10 DEF Need, Merged, Stored
<1>12. OffsetsInOrder' /\ FileInv' /\ DownInv' /\ EntriesInv'
  <2>1. \A b : /\ Has(file, b)' <=> Has(file, b)
               /\ Has(entries, b)' <=> Has(entries, b)
    BY <1>3 DEF Has
  <2>2. FileInv'
    BY <1>3, <1>11, <2>1 DEF SerialInv, FileInv, Need, Stored
  <2>3. EntriesInv'
    BY <1>3, <1>5, <1>11, <2>1 DEF SerialInv, EntriesInv, Need, Stored
  <2> QED BY <1>3, <1>5, <2>2, <2>3 DEF SerialInv, OffsetsInOrder, DownInv
<1>13. Window(m + 1, n)'
  <2>1. Len(queue') = n - (m + 1)
    BY <1>1, <1>2, <1>7 DEF Window
  <2>2. ASSUME NEW k \in 1 .. Len(queue')
        PROVE  queue'[k] = AsItem(entries'[(m + 1) + k])
    <3>1. k + 1 \in 1 .. Len(queue) /\ m + (k + 1) = (m + 1) + k
      BY <1>1, <1>2, <2>2
    <3> QED BY <1>2, <1>3, <1>7, <2>2, <3>1 DEF Window
  <2>3. \A i \in 1 .. m + 1 : (Need(entries[i].batch) => Merged(entries[i].batch))'
    <3>1. ASSUME NEW i \in 1 .. m + 1, NEW c, c = entries[i].batch, Need(c)'
          PROVE  Merged(c)'
      <4>1. CASE i = m + 1
        <5>1. Len(pending') \in Nat /\ Len(pending) + 1 \in 1 .. Len(pending')
          BY <1>1, <1>10
        <5> QED BY <1>9, <1>10, <3>1, <4>1, <5>1 DEF Merged
      <4>2. CASE i \in 1 .. m
        <5>1. Need(entries[i].batch) => Merged(entries[i].batch)
          BY <1>7, <4>2 DEF Window
        <5> QED BY <1>11, <3>1, <5>1 DEF Need, Stored, Merged
      <4> QED BY <4>1, <4>2
    <3> QED BY <1>3, <3>1
  <2>4. hasWAL' => /\ \A i \in (m + 1) + 1 .. Len(entries') : ackOffset' < entries'[i].offset
                   /\ fileOpen' => ackOffset' < Len(file')
    <3>1. \A i \in (m + 1) + 1 .. Len(entries) : item.walOffset < entries[i].offset
      BY <1>1, <1>8, <1>9 DEF SerialInv, OffsetsInOrder
    <3>2. fileOpen => item.walOffset < Len(file)
      BY <1>8, <1>9 DEF SerialInv, OffsetsInOrder
    <3>3. CASE NewerOffset(item)
      BY <1>3, <1>4, <3>1, <3>2, <3>3
    <3>4. CASE ~ NewerOffset(item)
      <4>1. UNCHANGED <<ackOffset, hasWAL>>
        BY <1>4, <3>4
      <4>2. hasWAL => \A i \in (m + 1) + 1 .. Len(entries) : ackOffset < entries[i].offset
        BY <1>1, <1>7, <1>8 DEF Window
      <4>3. hasWAL /\ fileOpen => ackOffset < Len(file)
        BY <1>7 DEF Window
      <4> QED BY <1>3, <4>1, <4>2, <4>3
    <3> QED BY <3>3, <3>4
  <2>5. /\ InEnqueue' = {} /\ n < Len(entries') => QueueCapacity < Len(entries')
        /\ \A b \in InEnqueue' :
             /\ n = Len(entries') - 1
             /\ held'[b].id = entries'[n + 1].id
             /\ held'[b].offset = entries'[n + 1].offset
             /\ \A i \in 1 .. Len(entries') : entries'[i].batch = b <=> i = n + 1
    BY <1>3, <1>5, <1>7 DEF Window
  <2> QED BY <2>1, <2>2, <2>3, <2>4, <2>5 DEF Window
<1>14. LoopInv'
  <2>1. m + 1 \in 0 .. n /\ n \in 0 .. Len(entries')
    BY <1>1, <1>3, <1>8
  <2> QED BY <1>5, <1>13, <2>1 DEF LoopInv
<1> QED
  BY <1>12, <1>14 DEF SerialInv
-----------------------------------------------------------------------------
(* Enqueue, first half: the log grows by the entry the request holds, and  *)
(* the window ends right before it, because the queue holds all the rest.  *)
LEMMA SerialAppendOK ==
  ASSUME Known, Serial, SerialInv, NEW b \in Batches, Up, req[b] = "new",
         RequestMayStep(b), AppendOK(b),
         req' = [req EXCEPT ![b] = "appended"],
         held' = [held EXCEPT ![b] = [id |-> nextID + 1, offset |-> Len(file)]],
         UNCHANGED <<queueVars, loopVars, cancelled, history>>
  PROVE  SerialInv'
<1> DEFINE e == [id |-> nextID + 1, offset |-> Len(file), batch |-> b]
           r == [id |-> nextID + 1, batch |-> b, intact |-> TRUE]
<1>1. /\ Len(entries) \in Nat /\ entries \in Seq(Entry)
      /\ Len(file) \in Nat /\ file \in Seq(Record)
      /\ ackOffset \in Nat /\ Len(queue) \in Nat
      /\ req \in [Batches -> ReqStates] /\ held \in [Batches -> Held]
      /\ \A i \in 1 .. Len(entries) : entries[i].offset \in Nat
      /\ nextID \in Nat /\ QueueCapacity \in Nat
  BY KnownTypes, ConstantsType DEF Known, TypeOK, WalTypeOK
<1>2. /\ e \in Entry /\ e.batch = b /\ e.offset = Len(file) /\ e.id = nextID + 1
      /\ r \in Record /\ r.batch = b /\ r.intact
  BY <1>1 DEF Entry, Record
<1>3. /\ file' = Append(file, r) /\ entries' = Append(entries, e) /\ fileOpen /\ fileOpen'
  BY DEF AppendOK
<1>4. held'[b].id = e.id /\ held'[b].offset = e.offset
  BY <1>1, <1>2
<1> HIDE DEF e, r
<1>5. /\ Len(entries') = Len(entries) + 1 /\ entries'[Len(entries) + 1] = e
      /\ \A i \in 1 .. Len(entries) : entries'[i] = entries[i]
      /\ Len(file') = Len(file) + 1 /\ file'[Len(file) + 1] = r
      /\ \A i \in 1 .. Len(file) : file'[i] = file[i]
  BY <1>1, <1>2, <1>3, AppendProperties
<1>6. /\ UNCHANGED <<queue, loop, pending, ackOffset, hasWAL, snapshot, writes>>
      /\ Up' /\ loop \notin {"recover", "reload"}
  BY DEF queueVars, loopVars, mergeVars, history, Up, RequestMayStep, Serial
<1>7. /\ InEnqueue = {} /\ InEnqueue' = {b} /\ Len(entries) < QueueCapacity
  BY <1>1 DEF InEnqueue, RequestMayStep, Serial
<1>8. /\ \A c : /\ Has(entries', c) <=> Has(entries, c) \/ b = c
                /\ Has(file', c) <=> Has(file, c) \/ b = c
  BY <1>1, <1>2, <1>3, HasAppend
<1>9. /\ \A c \in Batches : c # b => req'[c] = req[c]
      /\ req'[b] = "appended"
  BY <1>1
<1>10. \A c \in Batches : /\ Need(c)' <=> Need(c)
                          /\ Merged(c)' <=> Merged(c)
  BY <1>6, <1>9 DEF Need, Merged, Stored
<1>11. OffsetsInOrder'
  <2>1. \A i \in 1 .. Len(entries) : entries[i].offset < Len(file)
    BY <1>3 DEF SerialInv, OffsetsInOrder
  <2>2. \A i \in 1 .. Len(entries') : i \in 1 .. Len(entries) \/ i = Len(entries) + 1
    BY <1>1, <1>5
  <2>3. \A i \in 1 .. Len(entries) : entries'[i].offset = entries[i].offset
    BY <1>5
  <2>4. entries'[Len(entries) + 1].offset = Len(file)
    BY <1>2, <1>5
  <2>5. \A i, j \in 1 .. Len(entries) : i < j => entries[i].offset < entries[j].offset
    BY DEF SerialInv, OffsetsInOrder
  <2>6. \A i, j \in 1 .. Len(entries') : i < j => entries'[i].offset < entries'[j].offset
    BY <1>1, <2>1, <2>2, <2>3, <2>4, <2>5
  <2>7. ASSUME NEW i \in 1 .. Len(entries')
        PROVE  entries'[i].offset < Len(file')
    <3>1. Len(file') = Len(file) + 1 /\ Len(file) \in Nat
      BY <1>1, <1>5
    <3>2. CASE i \in 1 .. Len(entries)
      <4>1. entries'[i].offset = entries[i].offset /\ entries[i].offset \in Nat
        BY <1>1, <2>3, <3>2
      <4> QED BY <2>1, <3>1, <3>2, <4>1
    <3>3. CASE i = Len(entries) + 1
      BY <2>4, <3>1, <3>3
    <3> QED BY <2>2, <3>2, <3>3
  <2> QED BY <2>6, <2>7 DEF OffsetsInOrder
<1>12. FileInv'
  <2>1. \A i \in 1 .. Len(file') : file'[i].intact
    <3>1. \A i \in 1 .. Len(file') : i \in 1 .. Len(file) \/ i = Len(file) + 1
      BY <1>1, <1>5
    <3> QED BY <1>2, <1>5, <3>1 DEF SerialInv, FileInv
  <2> QED BY <1>8, <1>9, <1>10, <2>1 DEF SerialInv, FileInv, Need, Stored
<1>13. DownInv'
  BY <1>6 DEF DownInv
<1>14. EntriesInv'
  BY <1>7, <1>8, <1>9, <1>10 DEF SerialInv, EntriesInv, Need, Stored
<1>15. PICK n \in 0 .. Len(entries) : \E m \in 0 .. n : Window(m, n)
  BY <1>6 DEF SerialInv, LoopInv
<1>16. PICK m \in 0 .. n : Window(m, n)
  BY <1>15
<1>17. n = Len(entries)
  BY <1>1, <1>7, <1>16 DEF Window
<1>18. Window(m, n)'
  <2>1. /\ Len(queue') = n - m
        /\ \A k \in 1 .. Len(queue') : queue'[k] = AsItem(entries'[m + k])
    <3>1. \A k \in 1 .. Len(queue) : m + k \in 1 .. Len(entries)
      BY <1>1, <1>16, <1>17 DEF Window
    <3> QED BY <1>5, <1>6, <1>16, <3>1 DEF Window
  <2>2. \A i \in 1 .. m : (Need(entries[i].batch) => Merged(entries[i].batch))'
    <3>1. ASSUME NEW i \in 1 .. m, NEW c, c = entries'[i].batch, Need(c)'
          PROVE  Merged(c)'
      <4>1. i \in 1 .. Len(entries) /\ c = entries[i].batch
        BY <1>1, <1>5, <1>17, <3>1
      <4>2. c \in Batches
        BY <4>1, KnownTypes
      <4>3. Need(entries[i].batch) => Merged(entries[i].batch)
        BY <1>16 DEF Window
      <4> QED BY <1>10, <3>1, <4>1, <4>2, <4>3 DEF Need, Stored, Merged
    <3> QED BY <3>1
  <2>3. hasWAL' => /\ \A i \in m + 1 .. Len(entries') : ackOffset' < entries'[i].offset
                   /\ fileOpen' => ackOffset' < Len(file')
    <3>1. SUFFICES ASSUME hasWAL
                   PROVE  /\ \A i \in m + 1 .. Len(entries') : ackOffset < entries'[i].offset
                          /\ ackOffset < Len(file')
      BY <1>6
    <3>2. /\ \A i \in m + 1 .. Len(entries) : ackOffset < entries[i].offset
          /\ ackOffset < Len(file)
      BY <1>3, <1>16, <3>1 DEF Window
    <3>3. \A i \in m + 1 .. Len(entries') :
            \/ i \in m + 1 .. Len(entries) /\ i \in 1 .. Len(entries)
            \/ i = Len(entries) + 1
      BY <1>1, <1>5
    <3>4. entries'[Len(entries) + 1].offset = Len(file)
      BY <1>2, <1>5
    <3>5. ASSUME NEW i \in m + 1 .. Len(entries')
          PROVE  ackOffset < entries'[i].offset
      <4>1. CASE i = Len(entries) + 1
        BY <3>2, <3>4, <4>1
      <4>2. CASE i \in m + 1 .. Len(entries) /\ i \in 1 .. Len(entries)
        <5>1. entries'[i] = entries[i]
          BY <1>5, <4>2
        <5> QED BY <3>2, <4>2, <5>1
      <4> QED BY <3>3, <4>1, <4>2
    <3>6. ackOffset < Len(file')
      BY <1>1, <1>5, <3>2
    <3> QED BY <3>5, <3>6
  <2>4. \A c \in InEnqueue' :
          /\ n = Len(entries') - 1
          /\ held'[c].id = entries'[n + 1].id
          /\ held'[c].offset = entries'[n + 1].offset
          /\ \A i \in 1 .. Len(entries') : entries'[i].batch = c <=> i = n + 1
    <3>1. \A i \in 1 .. Len(entries) : entries'[i].batch # b
      <4>1. ~ Has(entries, b)
        BY DEF SerialInv, EntriesInv
      <4> QED BY <1>5, <4>1 DEF Has
    <3>2. \A i \in 1 .. Len(entries') : entries'[i].batch = b <=> i = n + 1
      BY <1>1, <1>2, <1>5, <1>17, <3>1
    <3>3. n = Len(entries') - 1
      BY <1>1, <1>5, <1>17
    <3> QED BY <1>4, <1>5, <1>7, <1>17, <3>2, <3>3
  <2> QED BY <1>7, <2>1, <2>2, <2>3, <2>4 DEF Window
<1>19. LoopInv'
  <2>1. m \in 0 .. n /\ n \in 0 .. Len(entries')
    BY <1>1, <1>5, <1>17
  <2>2. loop' = "ack" => \A i \in 1 .. Len(pending') : Stored(pending[i])'
    BY <1>6 DEF SerialInv, LoopInv, Stored
  <2> QED BY <1>6, <1>18, <2>1, <2>2 DEF LoopInv
<1> QED
  BY <1>11, <1>12, <1>13, <1>14, <1>19 DEF SerialInv

(* An append that fails leaves at most one more whole record behind.       *)
LEMMA SerialAppendFails ==
  ASSUME Known, Serial, SerialInv, NEW b \in Batches, Up, req[b] = "new",
         AppendFails(b), req' = [req EXCEPT ![b] = "refused"],
         UNCHANGED <<held, queueVars, loopVars, cancelled, history>>
  PROVE  SerialInv'
<1> DEFINE r == [id |-> nextID + 1, batch |-> b, intact |-> TRUE]
<1>1. /\ Len(entries) \in Nat /\ Len(file) \in Nat /\ file \in Seq(Record)
      /\ req \in [Batches -> ReqStates] /\ nextID \in Nat
      /\ \A i \in 1 .. Len(entries) : entries[i].offset \in Nat
  BY KnownTypes DEF Known, TypeOK, WalTypeOK
<1>2. r \in Record /\ r.batch = b /\ r.intact
  BY <1>1 DEF Record
<1>3. file' = file \/ file' = Append(file, r)
  BY DEF AppendFails, Serial
<1>4. UNCHANGED <<entries, fileOpen>>
  BY DEF AppendFails
<1> HIDE DEF r
<1>5. /\ Len(file') \in Nat /\ Len(file) <= Len(file')
      /\ (\A i \in 1 .. Len(file) : file[i].intact) =>
           \A i \in 1 .. Len(file') : file'[i].intact
      /\ \A c : /\ Has(file, c) => Has(file', c)
                /\ Has(file', c) => Has(file, c) \/ c = b
  <2>1. CASE file' = file
    BY <1>1, <2>1
  <2>2. CASE file' = Append(file, r)
    <3>1. /\ Len(file') = Len(file) + 1 /\ file'[Len(file) + 1] = r
          /\ \A i \in 1 .. Len(file) : file'[i] = file[i]
      BY <1>1, <1>2, <2>2, AppendProperties
    <3>2. \A i \in 1 .. Len(file') : i \in 1 .. Len(file) \/ i = Len(file) + 1
      BY <1>1, <3>1
    <3>3. \A c : Has(file', c) <=> Has(file, c) \/ b = c
      BY <1>1, <1>2, <2>2, HasAppend
    <3> QED BY SMTT(30), <1>1, <1>2, <3>1, <3>2, <3>3
  <2> QED BY <1>3, <2>1, <2>2
<1>6. /\ UNCHANGED <<queue, loop, pending, ackOffset, hasWAL, snapshot, writes, held>>
      /\ Up'
  BY DEF queueVars, loopVars, mergeVars, history, Up
<1>7. /\ \A c \in Batches : c # b => req'[c] = req[c]
      /\ req'[b] = "refused"
  BY <1>1
<1>8. InEnqueue' = InEnqueue
  BY <1>7 DEF InEnqueue
<1>9. \A c \in Batches : /\ Need(c)' => Need(c)
                         /\ Merged(c)' <=> Merged(c)
  BY <1>6, <1>7 DEF Need, Merged, Stored
<1>10. OffsetsInOrder'
  BY <1>1, <1>4, <1>5 DEF SerialInv, OffsetsInOrder
<1>11. FileInv'
  BY <1>5, <1>7, <1>9 DEF SerialInv, FileInv, Need, Stored
<1>12. EntriesInv'
  BY <1>4, <1>7, <1>8, <1>9 DEF SerialInv, EntriesInv, Need, Stored
<1>13. DownInv'
  BY <1>6 DEF DownInv
<1>14. LoopInv'
  <2>1. ASSUME loop' \notin {"recover", "reload"}
        PROVE  \E n \in 0 .. Len(entries') : \E m \in 0 .. n : Window(m, n)'
    <3>1. PICK n \in 0 .. Len(entries) : \E m \in 0 .. n : Window(m, n)
      BY <1>6, <2>1 DEF SerialInv, LoopInv
    <3>2. PICK m \in 0 .. n : Window(m, n)
      BY <3>1
    <3>3. Window(m, n)'
      BY <1>1, <1>4, <1>5, <1>6, <1>8, <1>9, <3>2, WindowStays
      DEF Need, Stored, Merged
    <3> QED BY <1>4, <3>3
  <2> QED BY <1>4, <1>6, <1>8, <2>1 DEF SerialInv, LoopInv, Stored
<1> QED
  BY <1>10, <1>11, <1>12, <1>13, <1>14 DEF SerialInv

(* Enqueue, second half: the window takes the new entry in, unless the     *)
(* queue is full, and then the log holds more than the queue can.          *)
LEMMA SerialPush ==
  ASSUME Known, Serial, SerialInv, NEW b \in Batches, EnqueuePush(b)
  PROVE  SerialInv'
<1> DEFINE e == [walID |-> held[b].id, walOffset |-> held[b].offset, batch |-> b]
<1>1. /\ Len(entries) \in Nat /\ Len(queue) \in Nat /\ queue \in Seq(Item)
      /\ ackOffset \in Nat /\ Len(file) \in Nat /\ QueueCapacity \in Nat
      /\ req \in [Batches -> ReqStates] /\ held[b] \in Held
      /\ \A i \in 1 .. Len(entries) : entries[i].id \in Nat /\ entries[i].batch \in Batches
  BY KnownTypes, ConstantsType
<1>2. /\ e \in Item
      /\ e.walID = held[b].id /\ e.walOffset = held[b].offset /\ e.batch = b
  BY <1>1 DEF Item, Held
<1>3. /\ Up /\ req[b] = "appended" /\ loop \notin {"recover", "reload"}
      /\ req' = [req EXCEPT ![b] = "accepted"] /\ Up'
      /\ UNCHANGED <<file, fileOpen, entries, loop, pending, ackOffset, hasWAL, snapshot,
                     writes>>
  BY DEF EnqueuePush, RequestMayStep, Serial, walVars, loopVars, mergeVars, history, Up
<1>4. \/ /\ Len(queue) < QueueCapacity /\ held[b].id \notin walIDs
         /\ queue' = Append(queue, e)
      \/ /\ Len(queue) >= QueueCapacity \/ held[b].id \in walIDs
         /\ queue' = queue
  BY <1>1 DEF EnqueuePush
<1> HIDE DEF e
<1>5. InEnqueue = {b} /\ InEnqueue' = {}
  <2>1. InEnqueue = {b}
    BY <1>3 DEF InEnqueue, SerialInv, EntriesInv
  <2> QED BY <1>1, <1>3, <2>1 DEF InEnqueue
<1>6. /\ \A c \in Batches : c # b => req'[c] = req[c]
      /\ req'[b] = "accepted"
  BY <1>1, <1>3
<1>7. \A c : Merged(c)' <=> Merged(c)
  BY <1>3 DEF Merged, Stored
<1>8. PICK n \in 0 .. Len(entries) : \E m \in 0 .. n : Window(m, n)
  BY <1>3 DEF SerialInv, LoopInv
<1>9. PICK m \in 0 .. n : Window(m, n)
  BY <1>8
<1>10. /\ n = Len(entries) - 1
       /\ held[b].id = entries[n + 1].id
       /\ held[b].offset = entries[n + 1].offset
       /\ \A i \in 1 .. Len(entries) : entries[i].batch = b <=> i = n + 1
  BY <1>5, <1>9 DEF Window
<1>11. n + 1 \in 1 .. Len(entries) /\ entries[n + 1].batch = b /\ Has(entries, b)
  <2>1. n + 1 \in 1 .. Len(entries)
    BY <1>1, <1>10
  <2> QED BY <1>10, <2>1 DEF Has
<1>12. \A c : /\ Has(file, c)' <=> Has(file, c)
              /\ Has(entries, c)' <=> Has(entries, c)
  BY <1>3 DEF Has
<1>13. OffsetsInOrder'
  BY <1>3 DEF SerialInv, OffsetsInOrder
<1>14. FileInv'
  BY <1>3, <1>6, <1>12 DEF SerialInv, FileInv, Need, Stored
<1>15. DownInv'
  BY <1>3 DEF DownInv
<1>16. EntriesInv'
  <2>1. \A c \in Batches : Need(c)' => Has(entries, c)
    BY <1>3, <1>6, <1>11 DEF SerialInv, EntriesInv, Need, Stored
  <2> QED BY <1>3, <1>5, <1>6, <1>12, <2>1 DEF SerialInv, EntriesInv
<1>17. \A i \in 1 .. m : (Need(entries[i].batch) => Merged(entries[i].batch))'
  <2>1. ASSUME NEW i \in 1 .. m, NEW c, c = entries[i].batch, Need(c)'
        PROVE  Merged(c)'
    <3>1. i \in 1 .. Len(entries) /\ i # n + 1
      BY <1>1, <2>1
    <3>2. c \in Batches /\ c # b
      BY <1>1, <1>10, <2>1, <3>1
    <3>3. Need(entries[i].batch) => Merged(entries[i].batch)
      BY <1>9 DEF Window
    <3> QED BY <1>3, <1>6, <1>7, <2>1, <3>2, <3>3 DEF Need, Stored, Merged
  <2> QED BY <1>3, <2>1
<1>18. hasWAL' => /\ \A i \in m + 1 .. Len(entries') : ackOffset' < entries'[i].offset
                  /\ fileOpen' => ackOffset' < Len(file')
  BY <1>3, <1>9 DEF Window
<1>19. \E p \in 0 .. Len(entries') : \E q \in 0 .. p : Window(q, p)'
  <2>1. CASE queue' = Append(queue, e)
    <3>1. /\ Len(queue') = Len(queue) + 1 /\ queue'[Len(queue) + 1] = e
          /\ \A k \in 1 .. Len(queue) : queue'[k] = queue[k]
      BY <1>1, <1>2, <2>1, AppendProperties
    <3>2. Len(queue') = (n + 1) - m /\ m + (Len(queue) + 1) = n + 1
      BY <1>1, <1>9, <3>1 DEF Window
    <3>3. e = AsItem(entries[n + 1])
      BY <1>10, <1>11 DEF AsItem, e
    <3>4. ASSUME NEW k \in 1 .. Len(queue')
          PROVE  queue'[k] = AsItem(entries'[m + k])
      <4>1. k \in 1 .. Len(queue) \/ k = Len(queue) + 1
        BY <1>1, <3>1
      <4>2. CASE k \in 1 .. Len(queue)
        BY <1>3, <1>9, <3>1, <4>2 DEF Window
      <4>3. CASE k = Len(queue) + 1
        BY <1>3, <3>1, <3>2, <3>3, <4>3
      <4> QED BY <4>1, <4>2, <4>3
    <3>5. ~ (n + 1 < Len(entries'))
      BY <1>1, <1>3, <1>10
    <3>6. Window(m, n + 1)'
      BY <1>5, <1>17, <1>18, <3>2, <3>4, <3>5 DEF Window
    <3>7. m \in 0 .. n + 1 /\ n + 1 \in 0 .. Len(entries')
      BY <1>1, <1>3, <1>11
    <3> QED BY <3>6, <3>7
  <2>2. CASE /\ Len(queue) >= QueueCapacity \/ held[b].id \in walIDs
             /\ queue' = queue
    <3>1. held[b].id \notin walIDs
      <4>1. SUFFICES ASSUME held[b].id \in walIDs PROVE FALSE
        OBVIOUS
      <4>2. PICK k \in 1 .. Len(queue) : queue[k].walID = held[b].id
        BY <1>1, <4>1, IDsOfSeq DEF Known, IdsInOrder
      <4>3. m + k \in 1 .. Len(entries) /\ m + k < n + 1 /\ queue[k] = AsItem(entries[m + k])
        BY <1>1, <1>9 DEF Window
      <4>4. queue[k].walID = entries[m + k].id
        BY <4>3 DEF AsItem
      <4>5. entries[m + k].id < entries[n + 1].id
        BY <1>3, <1>11, <4>3 DEF Known, IdsInOrder, WalIds, IncreasingIds
      <4> QED BY <1>1, <1>10, <4>2, <4>3, <4>4, <4>5
    <3>2. QueueCapacity < Len(entries')
      <4>1. Len(queue) = n - m /\ QueueCapacity <= Len(queue)
        BY <1>1, <1>9, <2>2, <3>1 DEF Window
      <4> QED BY <1>1, <1>3, <1>10, <4>1
    <3>3. Window(m, n)'
      <4>1. /\ Len(queue') = n - m
            /\ \A k \in 1 .. Len(queue') : queue'[k] = AsItem(entries'[m + k])
        BY <1>3, <1>9, <2>2 DEF Window
      <4> QED BY <1>5, <1>17, <1>18, <3>2, <4>1 DEF Window
    <3> QED BY <1>3, <3>3
  <2> QED BY <1>4, <2>1, <2>2
<1>20. LoopInv'
  BY <1>3, <1>19 DEF SerialInv, LoopInv, Stored
<1> QED
  BY <1>13, <1>14, <1>15, <1>16, <1>20 DEF SerialInv
-----------------------------------------------------------------------------
(* Acknowledge: what is dropped lies before the window, and was stored.    *)
LEMMA SerialAcknowledge ==
  ASSUME Known, Serial, SerialInv, FlushAcknowledge
  PROVE  SerialInv'
<1>1. /\ Len(entries) \in Nat /\ Len(file) \in Nat /\ ackOffset \in Nat /\ ackOffset \in Int
      /\ pending \in Seq(Batches) /\ WalTypeOK
      /\ \A i \in 1 .. Len(entries) : entries[i].batch \in Batches
  BY KnownTypes DEF Known, TypeOK
<1>2. /\ loop = "ack" /\ InEnqueue = {} /\ Up /\ hasWAL
      /\ UNCHANGED <<queue, req, held, writes>>
      /\ InEnqueue' = InEnqueue
  BY DEF FlushAcknowledge, LoopMayAcknowledge, Serial, Up, queueVars, reqVars, history,
         InEnqueue, Known, Backing, PendingIsBacked
<1>3. \/ AcknowledgeOK(ackOffset) /\ loop' = "recover"
      \/ AcknowledgeFails(ackOffset) /\ EndFlush
  BY DEF FlushAcknowledge
<1>4. /\ OffsetsInOrder'
      /\ \A i \in 1 .. Len(file') : file'[i].intact
      /\ \A b : /\ Has(file', b) => Has(file, b) \/ Has(entries, b)
                /\ Has(entries', b) => Has(entries, b)
      /\ \A b : Has(entries, b) /\ Has(file, b)
               /\ (\A i \in 1 .. Len(entries) :
                      entries[i].batch = b => ackOffset < entries[i].offset)
                => Has(entries', b) /\ Has(file', b)
  BY <1>1, <1>3, AcknowledgeFacts DEF SerialInv, FileInv, Serial
<1>5. PICK n \in 0 .. Len(entries) : \E m \in 0 .. n : Window(m, n)
  BY <1>2 DEF SerialInv, LoopInv
<1>6. PICK m \in 0 .. n : Window(m, n)
  BY <1>5
<1>7. ASSUME NEW b \in Batches, Need(b)
      PROVE  Has(entries', b) /\ Has(file', b)
  <2>1. ~ Merged(b)
    BY <1>2, <1>7 DEF SerialInv, LoopInv, Need, Merged
  <2>2. ASSUME NEW i \in 1 .. Len(entries), entries[i].batch = b
        PROVE  ackOffset < entries[i].offset
    <3>1. Need(entries[i].batch) /\ ~ Merged(entries[i].batch)
      BY <1>7, <2>1, <2>2
    <3>2. i \notin 1 .. m
      BY <1>6, <3>1 DEF Window
    <3>3. i \in m + 1 .. Len(entries)
      BY <1>1, <3>2
    <3> QED BY <1>2, <1>6, <3>3 DEF Window
  <2>3. Has(entries, b) /\ Has(file, b)
    BY <1>2, <1>7 DEF SerialInv, EntriesInv, FileInv
  <2> QED BY <1>4, <2>2, <2>3
<1>8. \A b \in Batches : Need(b)' <=> Need(b)
  BY <1>2 DEF Need, Stored
<1>9. Up'
  BY <1>3 DEF EndFlush, Up
<1>10. FileInv'
  <2>1. \A b \in Batches : (Need(b) \/ req[b] = "appended" => Has(file, b))'
    BY <1>2, <1>7 DEF InEnqueue, Need, Stored
  <2>2. \A b \in Batches : (req[b] = "new" => ~ Has(file, b))'
    BY <1>2, <1>4 DEF SerialInv, FileInv, EntriesInv
  <2> QED BY <1>4, <2>1, <2>2 DEF FileInv
<1>11. EntriesInv'
  <2>1. \A b \in Batches : (Need(b) => Has(entries, b))'
    BY <1>2, <1>7 DEF Need, Stored
  <2>2. \A b \in Batches : (req[b] = "new" => ~ Has(entries, b))'
    BY <1>2, <1>4 DEF SerialInv, EntriesInv
  <2> QED BY <1>2, <2>1, <2>2 DEF EntriesInv
<1>12. DownInv'
  BY <1>9 DEF DownInv
<1>13. LoopInv'
  <2>1. CASE loop' = "recover"
    BY <1>2, <2>1 DEF LoopInv
  <2>2. CASE AcknowledgeFails(ackOffset) /\ EndFlush
    <3>1. /\ UNCHANGED entries /\ ~ hasWAL' /\ loop' \notin {"ack", "recover", "reload"}
      BY <2>2 DEF AcknowledgeFails, EndFlush
    <3>2. \A i \in 1 .. m : (Need(entries[i].batch) => Merged(entries[i].batch))'
      <4>1. ASSUME NEW i \in 1 .. m, NEW c, c = entries[i].batch, Need(c)'
            PROVE  FALSE
        <5>1. c \in Batches
          BY <1>1, <4>1
        <5>2. Need(c)
          BY <1>2, <4>1 DEF Need, Stored
        <5>3. Need(entries[i].batch) => Merged(entries[i].batch)
          BY <1>6 DEF Window
        <5>4. Merged(c)
          BY <4>1, <5>2, <5>3
        <5> QED BY <1>2, <5>2, <5>4 DEF SerialInv, LoopInv, Need, Merged
      <4> QED BY <3>1, <4>1
    <3>3. Window(m, n)'
      BY <1>2, <1>6, <3>1, <3>2 DEF Window
    <3> QED BY <3>1, <3>3 DEF LoopInv
  <2> QED BY <1>3, <2>1, <2>2
<1> QED
  BY <1>4, <1>10, <1>11, <1>12, <1>13 DEF SerialInv

(* reloadFromWAL: the copy is what the log holds, and the window that the  *)
(* queue becomes starts at the first entry.                                *)
LEMMA SerialReload ==
  ASSUME Known, SerialInv, ReloadRecover \/ ReloadQueue
  PROVE  SerialInv'
<1>1. /\ entries \in Seq(Entry) /\ Len(entries) \in Nat /\ QueueCapacity \in Nat
  BY KnownTypes, ConstantsType
<1>2. /\ UNCHANGED <<file, fileOpen, entries, req, held, writes>>
      /\ InEnqueue = {} /\ InEnqueue' = {} /\ Up /\ Up'
  <2>1. /\ UNCHANGED <<file, fileOpen, entries, req, held, writes>>
        /\ loop \in {"recover", "reload"} /\ Up /\ Up'
    BY DEF ReloadRecover, ReloadQueue, EndFlush, walVars, reqVars, history, Up
  <2> QED BY <2>1 DEF SerialInv, LoopInv, InEnqueue
<1>3. \A c : /\ Need(c)' <=> Need(c)
             /\ Has(file, c)' <=> Has(file, c)
             /\ Has(entries, c)' <=> Has(entries, c)
  BY <1>2 DEF Need, Stored, Has
<1>4. OffsetsInOrder' /\ DownInv'
  BY <1>2 DEF SerialInv, OffsetsInOrder, DownInv
<1>5. FileInv'
  BY <1>2, <1>3 DEF SerialInv, FileInv, Need, Stored
<1>6. EntriesInv'
  BY <1>2, <1>3 DEF SerialInv, EntriesInv, Need, Stored
<1>7. LoopInv'
  <2>1. CASE ReloadRecover
    BY <1>2, <2>1 DEF ReloadRecover, LoopInv
  <2>2. CASE ReloadQueue
    <3>1. /\ queue' = Load(entries) /\ ~ hasWAL' /\ loop' \notin {"ack", "recover", "reload"}
      BY <2>2 DEF ReloadQueue, EndFlush, SerialInv, LoopInv
    <3>2. PICK n \in 0 .. Len(entries) :
            /\ n = Len(Load(entries))
            /\ n < Len(entries) => QueueCapacity < Len(entries)
            /\ \A k \in 1 .. n : Load(entries)[k] = AsItem(entries[k])
      <4>1. /\ Len(Load(entries)) \in Nat /\ Len(Load(entries)) <= Len(entries)
            /\ \A k \in 1 .. Len(Load(entries)) : Load(entries)[k] = AsItem(entries[k])
        BY <1>1, LoadProperties
      <4>2. Len(Load(entries)) =
              IF Len(entries) < QueueCapacity THEN Len(entries) ELSE QueueCapacity
        BY <1>1 DEF Load
      <4> QED BY <1>1, <4>1, <4>2
    <3>3. Len(queue') = n /\ n - 0 = n
      BY <3>1, <3>2
    <3>4. Window(0, n)'
      <4>1. ASSUME NEW k \in 1 .. Len(queue')
            PROVE  queue'[k] = AsItem(entries'[0 + k])
        <5>1. k \in 1 .. n /\ 0 + k = k
          BY <3>3, <4>1
        <5>2. queue'[k] = AsItem(entries[k])
          BY <3>1, <3>2, <5>1
        <5> QED BY <1>2, <5>1, <5>2
      <4> QED BY <1>2, <3>1, <3>2, <3>3, <4>1 DEF Window
    <3> QED BY <1>2, <3>1, <3>2, <3>4 DEF LoopInv
  <2> QED BY <2>1, <2>2
<1> QED
  BY <1>4, <1>5, <1>6, <1>7 DEF SerialInv
-----------------------------------------------------------------------------
(* A start loads the window from the file; an end leaves the file.         *)
LEMMA SerialStart ==
  ASSUME Known, SerialInv, StartProcess
  PROVE  SerialInv'
<1>1. /\ file \in Seq(Record) /\ Len(file) \in Nat /\ QueueCapacity \in Nat
      /\ \A i \in 1 .. Len(file) : file[i].intact
  BY KnownTypes, ConstantsType DEF SerialInv, FileInv
<1>2. /\ entries' = Scan(file) /\ queue' = Load(Scan(file)) /\ file' = file
      /\ UNCHANGED <<pending, hasWAL, req, held, writes>>
      /\ loop = "down" /\ loop' = "dequeue" /\ ~ Up /\ Up'
  BY DEF StartProcess, OpenWAL, mergeVars, reqVars, history, Up, Known
<1>3. /\ Scan(file) \in Seq(Entry) /\ Len(Scan(file)) = Len(file)
      /\ \A i \in 1 .. Len(Scan(file)) :
           Scan(file)[i] = [id |-> file[i].id, offset |-> i - 1, batch |-> file[i].batch]
  BY <1>1, ScanProperties, IntactFile
<1>4. \A i \in 1 .. Len(Scan(file)) : Scan(file)[i].offset = i - 1
  <2>1. ASSUME NEW i \in 1 .. Len(Scan(file))
        PROVE  Scan(file)[i].offset = i - 1
    <3>1. Scan(file)[i] = [id |-> file[i].id, offset |-> i - 1, batch |-> file[i].batch]
      BY <1>3
    <3> QED BY <3>1
  <2> QED BY <2>1
<1>5. \A b : Has(Scan(file), b) <=> Has(file, b)
  BY <1>1, HasScan
<1>6. \A b : Need(b)' <=> Need(b)
  BY <1>2 DEF Need, Stored
<1>7. /\ InEnqueue = {} /\ InEnqueue' = {} /\ ~ hasWAL'
  BY <1>2 DEF SerialInv, DownInv, InEnqueue
<1>8. OffsetsInOrder'
  <2>1. \A i, j \in 1 .. Len(Scan(file)) : i < j => Scan(file)[i].offset < Scan(file)[j].offset
    BY <1>4
  <2>2. \A i \in 1 .. Len(Scan(file)) : Scan(file)[i].offset < Len(file)
    BY <1>1, <1>3, <1>4
  <2> QED BY <1>2, <2>1, <2>2 DEF OffsetsInOrder
<1>9. FileInv'
  <2>1. \A b : Has(file, b)' <=> Has(file, b)
    BY <1>2 DEF Has
  <2> QED BY <1>2, <1>6, <2>1 DEF SerialInv, FileInv, Need, Stored
<1>10. EntriesInv'
  <2>1. \A b : Has(entries', b) <=> Has(file, b)
    BY <1>2, <1>5
  <2> QED BY <1>2, <1>6, <1>7, <2>1 DEF SerialInv, FileInv, EntriesInv, Need, Stored
<1>11. DownInv'
  BY <1>2 DEF DownInv
<1>12. LoopInv'
  <2>1. PICK n \in 0 .. Len(Scan(file)) :
          /\ n = Len(Load(Scan(file)))
          /\ n < Len(Scan(file)) => QueueCapacity < Len(Scan(file))
          /\ \A k \in 1 .. n : Load(Scan(file))[k] = AsItem(Scan(file)[k])
    <3>1. /\ Len(Load(Scan(file))) \in Nat /\ Len(Load(Scan(file))) <= Len(Scan(file))
          /\ \A k \in 1 .. Len(Load(Scan(file))) :
               Load(Scan(file))[k] = AsItem(Scan(file)[k])
      BY <1>3, LoadProperties
    <3>2. Len(Load(Scan(file))) =
            IF Len(Scan(file)) < QueueCapacity THEN Len(Scan(file)) ELSE QueueCapacity
      BY <1>1, <1>3 DEF Load
    <3> QED BY <1>1, <1>3, <3>1, <3>2
  <2>2. Len(queue') = n /\ n - 0 = n
    BY <1>2, <2>1
  <2>3. Window(0, n)'
    <3>1. ASSUME NEW k \in 1 .. Len(queue')
          PROVE  queue'[k] = AsItem(entries'[0 + k])
      <4>1. k \in 1 .. n /\ 0 + k = k
        BY <2>2, <3>1
      <4>2. queue'[k] = AsItem(Scan(file)[k])
        BY <1>2, <2>1, <4>1
      <4> QED BY <1>2, <4>1, <4>2
    <3> QED BY <1>2, <1>7, <2>1, <2>2, <3>1 DEF Window
  <2> QED BY <1>2, <1>7, <2>1, <2>3 DEF LoopInv
<1> QED
  BY <1>8, <1>9, <1>10, <1>11, <1>12 DEF SerialInv

LEMMA SerialGone ==
  ASSUME Known, SerialInv, ProcessGone
  PROVE  SerialInv'
<1>1. req \in [Batches -> ReqStates]
  BY KnownTypes
<1>2. /\ UNCHANGED <<file, writes>> /\ ~ Up' /\ loop' = "down"
      /\ Len(pending') = 0 /\ ~ hasWAL' /\ Len(entries') = 0
  BY DEF ProcessGone, Up
<1>3. \A b \in Batches : req'[b] = IF req[b] = "appended" THEN "lost" ELSE req[b]
  BY DEF ProcessGone
<1>4. InEnqueue' = {}
  BY <1>3 DEF InEnqueue
<1>5. FileInv'
  <2>1. \A b : Has(file, b)' <=> Has(file, b)
    BY <1>2 DEF Has
  <2> QED BY <1>2, <1>3, <2>1 DEF SerialInv, FileInv, Need, Stored
<1> QED
  BY <1>2, <1>4, <1>5 DEF SerialInv, OffsetsInOrder, DownInv, EntriesInv, LoopInv

LEMMA SerialStep ==
  ASSUME Known, Serial, SerialInv, [Next]_vars
  PROVE  SerialInv'
<1>1. /\ loop \in LoopStates /\ useWAL /\ req \in [Batches -> ReqStates]
  BY DEF Known, TypeOK
<1>2. CASE UNCHANGED vars
  <2>1. UNCHANGED <<file, fileOpen, entries, queue, pending, ackOffset, hasWAL, held,
                    writes, snapshot, req, loop>>
    BY <1>2 DEF vars, procVars, walVars, queueVars, mergeVars, reqVars, history
  <2>2. InEnqueue' = InEnqueue
    BY <2>1 DEF InEnqueue
  <2> QED BY <2>1, <2>2, SerialFrame
<1>3. ASSUME NEW b \in Batches, RequestStep(b)
      PROVE  SerialInv'
  <2>1. CASE EnqueueRefused(b)
    <3>1. /\ UNCHANGED <<file, fileOpen, entries, queue, pending, ackOffset, hasWAL, held,
                         writes, snapshot, loop>>
          /\ req[b] = "new" /\ req' = [req EXCEPT ![b] = "refused"]
      BY <2>1 DEF EnqueueRefused, walVars, queueVars, loopVars, mergeVars, history
    <3>2. \A c \in Batches : req'[c] = req[c] \/ (req[c] = "new" /\ req'[c] = "refused")
      BY <1>1, <3>1
    <3>3. InEnqueue' = InEnqueue
      BY <3>2 DEF InEnqueue
    <3> QED BY <3>1, <3>2, <3>3, SerialFrame
  <2>2. CASE EnqueueAppend(b)
    BY <2>2, SerialAppendOK, SerialAppendFails DEF EnqueueAppend
  <2>3. CASE EnqueuePush(b)
    BY <2>3, SerialPush
  <2> QED
    BY <1>1, <1>3, <2>1, <2>2, <2>3 DEF RequestStep, EnqueueMemory
<1>4. CASE QueueEmpty \/ SelectNotify \/ SelectTick \/ SelectDone
  <2>1. /\ UNCHANGED <<file, fileOpen, entries, queue, pending, ackOffset, hasWAL, held,
                       writes, snapshot, req>>
        /\ loop \in {"dequeue", "select"}
        /\ loop' \in {"dequeue", "select", "write", "stopped"}
    BY <1>4 DEF QueueEmpty, SelectNotify, SelectTick, SelectDone, AfterTick, walVars,
                queueVars, mergeVars, reqVars, history
  <2>2. InEnqueue' = InEnqueue /\ Up /\ Up'
    BY <2>1 DEF InEnqueue, Up
  <2> QED BY <2>1, <2>2, SerialFrame
<1>5. CASE CancelBatcher \/ CloseResources
  <2>1. /\ UNCHANGED <<file, entries, queue, pending, ackOffset, hasWAL, held,
                       writes, snapshot, req, loop>>
        /\ fileOpen' => fileOpen
    BY <1>5 DEF CancelBatcher, CloseResources, CloseWAL, walVars, queueVars, loopVars,
                mergeVars, reqVars
  <2>2. InEnqueue' = InEnqueue
    BY <2>1 DEF InEnqueue
  <2> QED BY <2>1, <2>2, SerialFrame
<1> QED
  BY <1>2, <1>3, <1>4, <1>5, SerialDequeue, SerialWrite, SerialAcknowledge,
     SerialReload, SerialStart, SerialGone
  DEF Next, RunStep, FlushStep, MainStep

LEMMA SerialHolds == ASSUME Serial PROVE Spec => [](useWAL => SerialInv)
<1>1. ASSUME TypeOK, Backing, IdsInOrder, useWAL => SerialInv, [Next]_vars
      PROVE  (useWAL => SerialInv)'
  <2>1. SUFFICES ASSUME useWAL' PROVE SerialInv'
    OBVIOUS
  <2>2. UNCHANGED useWAL
    BY <1>1 DEF Next, vars
  <2>3. Known /\ SerialInv
    BY <1>1, <2>1, <2>2 DEF Known
  <2> QED BY <1>1, <2>3, SerialStep
<1>2. Init => (useWAL => SerialInv)
  BY SerialInit
<1> QED
  BY <1>1, <1>2, TypeCorrect, BackingHolds, IdsHold, PTL DEF Spec

(* Enqueue returned nil, so the batch is in the store or will be found in  *)
(* the log (batcher.go:111, 184, 283-317; wal.go:137-158), through failed  *)
(* writes, failed acknowledgements, shutdowns, crashes and restarts, in    *)
(* the environment that Serial describes; and without a log, until the     *)
(* process ends, but for what NoLoss says a stop gives up.                 *)
THEOREM NoLossWhenSerial == ASSUME Serial PROVE Spec => []NoLoss
<1>1. ASSUME TypeOK, useWAL, SerialInv
      PROVE  NoLoss
  <2>1. file \in Seq(Record) /\ \A i \in 1 .. Len(file) : file[i].intact
    BY <1>1 DEF TypeOK, WalTypeOK, SerialInv, FileInv
  <2>2. Scan(file) \in Seq(Entry)
    BY <2>1, ScanProperties
  <2>3. SUFFICES ASSUME NEW b \in Batches, req[b] = "accepted", ~ (writes[b] > 0)
                 PROVE  Kept(b)
    BY DEF NoLoss
  <2>4. Has(file, b)
    BY <1>1, <2>3 DEF SerialInv, FileInv, Need, Stored
  <2>5. Has(Scan(file), b)
    BY <2>1, <2>4, HasScan
  <2> QED BY <1>1, <2>2, <2>5 DEF Kept, Has
<1>2. TypeOK /\ (useWAL => SerialInv) /\ (~ useWAL => NoLoss) => NoLoss
  BY <1>1
<1> QED
  BY <1>2, SerialHolds, NoLossInMemory, TypeCorrect, PTL
-----------------------------------------------------------------------------
(* With a log the batch writer implements Delivery: what is owed is what   *)
(* was accepted and is not stored, because NoLoss says that it is kept.    *)
Owed == IF useWAL THEN {b \in Batches : req[b] = "accepted" /\ writes[b] = 0 /\ Kept(b)}
        ELSE {}
InStore == IF useWAL THEN {b \in Batches : writes[b] > 0} ELSE {}

LEMMA OwedBatches ==
  ASSUME TypeOK, NoLoss
  PROVE  /\ useWAL => /\ \A b : b \in Owed <=> b \in Batches /\ Need(b)
                      /\ \A b : b \in InStore <=> b \in Batches /\ Stored(b)
         /\ ~ useWAL => Owed = {} /\ InStore = {}
<1>1. \A b \in Batches : writes[b] \in 0 .. 2
  BY DEF TypeOK
<1>2. ASSUME NEW b \in Batches
      PROVE  (writes[b] = 0) <=> ~ Stored(b)
  BY <1>1, <1>2 DEF Stored
<1> QED
  BY <1>1, <1>2 DEF Owed, InStore, NoLoss, GivenUp, Need, Stored

(* A step on what is owed, from what it does to single batches.            *)
LEMMA DeliverySteps ==
  ASSUME TypeOK, NoLoss, TypeOK', NoLoss', UNCHANGED useWAL, useWAL
  PROVE  /\ (\A b \in Batches : /\ Need(b)' <=> Need(b)
                                /\ Stored(b)' <=> Stored(b))
              => Owed' = Owed /\ InStore' = InStore
         /\ \A c \in Batches :
              /\ ~ Stored(c)
              /\ \A b \in Batches : /\ Need(b)' <=> Need(b) \/ b = c
                                    /\ Stored(b)' <=> Stored(b)
              => c \notin InStore /\ Owed' = Owed \union {c} /\ InStore' = InStore
         /\ \A S \in SUBSET Batches :
              (\A b \in Batches : /\ Need(b)' <=> Need(b) /\ b \notin S
                                  /\ Stored(b)' <=> Stored(b) \/ b \in S)
              => Owed' = Owed \ S /\ InStore' = InStore \union S
<1>1. /\ \A b : b \in Owed <=> b \in Batches /\ Need(b)
      /\ \A b : b \in InStore <=> b \in Batches /\ Stored(b)
  BY OwedBatches
<1>2. /\ \A b : b \in Owed' <=> b \in Batches /\ Need(b)'
      /\ \A b : b \in InStore' <=> b \in Batches /\ Stored(b)'
  <2>1. \A b \in Batches : writes'[b] \in 0 .. 2
    BY DEF TypeOK
  <2>2. ASSUME NEW b \in Batches
        PROVE  (writes'[b] = 0) <=> ~ (writes'[b] > 0)
    BY <2>1, <2>2
  <2> QED BY <2>2 DEF Owed, InStore, NoLoss, GivenUp, Need, Stored
<1> QED
  BY ONLY <1>1, <1>2

LEMMA DeliveryStep ==
  ASSUME TypeOK, NoLoss, TypeOK', NoLoss', useWAL, [Next]_vars
  PROVE  \/ Owed' = Owed /\ InStore' = InStore
         \/ \E b \in Batches : /\ b \notin InStore /\ InStore' = InStore
                               /\ Owed' = Owed \union {b}
         \/ \E S \in SUBSET Batches : /\ InStore' = InStore \union S
                                      /\ Owed' = Owed \ S
<1>1. /\ UNCHANGED useWAL /\ req \in [Batches -> ReqStates]
      /\ PendingSet \in SUBSET Batches /\ \A b \in Batches : writes[b] \in 0 .. 2
  <2>1. \A i \in DOMAIN pending : pending[i] \in Batches
    BY DEF TypeOK
  <2>2. PendingSet \in SUBSET Batches
    BY <2>1 DEF PendingSet
  <2>3. UNCHANGED useWAL
    BY DEF Next, vars
  <2> QED BY <2>2, <2>3 DEF TypeOK
<1>2. CASE /\ UNCHANGED writes
           /\ \A b \in Batches : req'[b] = "accepted" <=> req[b] = "accepted"
  <2>1. \A b \in Batches : /\ Need(b)' <=> Need(b)
                           /\ Stored(b)' <=> Stored(b)
    BY <1>2 DEF Need, Stored
  <2> QED BY <1>1, <2>1, DeliverySteps
<1>3. CASE writes' = StorePending /\ UNCHANGED req
  <2>1. ASSUME NEW b \in Batches
        PROVE  Stored(b)' <=> Stored(b) \/ b \in PendingSet
    BY <1>1, <1>3, <2>1 DEF Stored, StorePending
  <2>2. \A b \in Batches : /\ Need(b)' <=> Need(b) /\ b \notin PendingSet
                           /\ Stored(b)' <=> Stored(b) \/ b \in PendingSet
    BY <1>3, <2>1 DEF Need, Stored
  <2> QED BY <1>1, <2>2, DeliverySteps
<1>4. ASSUME NEW b \in Batches, RequestStep(b)
      PROVE  \/ Owed' = Owed /\ InStore' = InStore
             \/ \E c \in Batches : /\ c \notin InStore /\ InStore' = InStore
                                   /\ Owed' = Owed \union {c}
  <2>1. CASE EnqueueRefused(b) \/ EnqueueAppend(b)
    <3>1. /\ UNCHANGED writes /\ req[b] = "new"
          /\ req' = [req EXCEPT ![b] = "refused"] \/ req' = [req EXCEPT ![b] = "appended"]
      BY <2>1 DEF EnqueueRefused, EnqueueAppend, history
    <3>2. \A c \in Batches : req'[c] = "accepted" <=> req[c] = "accepted"
      BY <1>1, <3>1
    <3>3. \A c \in Batches : /\ Need(c)' <=> Need(c)
                             /\ Stored(c)' <=> Stored(c)
      BY <3>1, <3>2 DEF Need, Stored
    <3> QED BY <1>1, <3>3, DeliverySteps
  <2>2. CASE EnqueuePush(b)
    <3>1. /\ UNCHANGED writes /\ req' = [req EXCEPT ![b] = "accepted"]
      BY <2>2 DEF EnqueuePush, history
    <3>2. CASE Stored(b)
      <4>1. \A c \in Batches : /\ Need(c)' <=> Need(c)
                               /\ Stored(c)' <=> Stored(c)
        BY <1>1, <3>1, <3>2 DEF Need, Stored
      <4> QED BY <1>1, <4>1, DeliverySteps
    <3>3. CASE ~ Stored(b)
      <4>1. \A c \in Batches : /\ Need(c)' <=> Need(c) \/ c = b
                               /\ Stored(c)' <=> Stored(c)
        BY <1>1, <3>1, <3>3 DEF Need, Stored
      <4> QED BY <1>1, <3>3, <4>1, DeliverySteps
    <3> QED BY <3>2, <3>3
  <2> QED BY <1>4, <2>1, <2>2 DEF RequestStep, EnqueueMemory
<1>5. CASE FlushWriteOK \/ FlushWriteFails
  BY <1>2, <1>3, <1>5 DEF FlushWriteOK, FlushWriteFails, reqVars
<1>6. CASE ProcessGone
  BY <1>1, <1>2, <1>6 DEF ProcessGone
<1>7. CASE \/ Dequeue \/ QueueEmpty \/ SelectNotify \/ SelectTick \/ SelectDone
           \/ FlushAcknowledge \/ ReloadRecover \/ ReloadQueue
           \/ StartProcess \/ CancelBatcher \/ CloseResources \/ UNCHANGED vars
  <2>1. UNCHANGED <<writes, req>>
    BY <1>7 DEF Dequeue, QueueEmpty, SelectNotify, SelectTick, SelectDone,
       FlushAcknowledge, ReloadRecover, ReloadQueue, StartProcess, CancelBatcher,
       CloseResources, reqVars, history, vars, procVars
  <2> QED BY <1>2, <2>1
<1> QED
  BY <1>4, <1>5, <1>6, <1>7 DEF Next, RunStep, FlushStep, MainStep

THEOREM DeliversWhenSerial == ASSUME Serial PROVE Spec => D!SafeSpec
<1>1. Init => D!Init
  <2>1. SUFFICES ASSUME Init PROVE D!Init
    OBVIOUS
  <2>2. \A b \in Batches : writes[b] = 0
    BY <2>1 DEF Init
  <2>3. Owed \subseteq Batches /\ InStore = {}
    BY <2>2 DEF Owed, InStore
  <2> QED BY <2>3 DEF D!Init, Owed, InStore
<1>2. ASSUME TypeOK, NoLoss, TypeOK', NoLoss', [Next]_vars
      PROVE  [D!Next]_(D!deliveryVars)
  <2>1. UNCHANGED useWAL
    BY <1>2 DEF Next, vars
  <2>2. CASE useWAL
    <3>1. \/ Owed' = Owed /\ InStore' = InStore
          \/ \E b \in Batches : /\ b \notin InStore /\ InStore' = InStore
                                /\ Owed' = Owed \union {b}
          \/ \E S \in SUBSET Batches : /\ InStore' = InStore \union S
                                       /\ Owed' = Owed \ S
      BY <1>2, <2>2, DeliveryStep
    <3> QED BY <3>1 DEF D!Next, D!Accept, D!Store, D!deliveryVars, Owed, InStore
  <2>3. CASE ~ useWAL
    BY <2>1, <2>3 DEF D!deliveryVars
  <2> QED BY <2>2, <2>3
<1> QED
  BY <1>1, <1>2, TypeCorrect, NoLossWhenSerial, PTL DEF Spec, D!SafeSpec
-----------------------------------------------------------------------------
(* Nothing is stored twice before the process first stops, when the store  *)
(* fails cleanly: a write that returned an error left no row, and the log  *)
(* the first process finds has no batch twice.                             *)
CleanWrites ==
  /\ WriteResidues \subseteq {"nothing"}
  /\ \A backlog \in Backlogs :
       \A i, j \in 1 .. Len(backlog) : backlog[i] = backlog[j] => i = j

(* A batch the store does not have and run has not merged.                 *)
Fresh(b) == ~ Merged(b)

OneEach(s) == \A i, j \in 1 .. Len(s) : s[i].batch = s[j].batch => i = j

(* What pending holds is there once, and until the write it is not stored. *)
PendingOnce ==
  /\ \A b \in Batches : writes[b] <= 1
  /\ \A i, j \in 1 .. Len(pending) : pending[i] = pending[j] => i = j
  /\ loop \notin {"ack", "recover", "reload"} =>
       \A i \in 1 .. Len(pending) : ~ Stored(pending[i])

(* Without a log, the queue and pending have no batch in common.           *)
MemoryOnce ==
  /\ PendingOnce
  /\ OneEach(queue)
  /\ \A i \in 1 .. Len(queue) : Fresh(queue[i].batch)
  /\ \A b \in Batches : req[b] = "new" => ~ Safe(b)

LEMMA StoreOnce ==
  ASSUME TypeOK, PendingOnce, loop = "write"
  PROVE  \A b \in Batches : /\ StorePending[b] <= 1
                            /\ StorePending[b] > 0 <=> Merged(b)
<1>1. pending \in Seq(Batches) /\ Len(pending) \in Nat /\ writes \in [Batches -> 0 .. 2]
  BY DEF TypeOK
<1>2. ASSUME NEW b \in Batches
      PROVE  StorePending[b] <= 1 /\ (StorePending[b] > 0 <=> Merged(b))
  <2>1. StorePending[b] = IF b \notin PendingSet THEN writes[b]
                          ELSE IF writes[b] = 0 /\ ~ MergedTwice(b) THEN 1 ELSE 2
    BY <1>2 DEF StorePending
  <2>2. b \in PendingSet <=> \E i \in 1 .. Len(pending) : pending[i] = b
    BY <1>1 DEF PendingSet
  <2>3. ~ MergedTwice(b)
    BY <1>1 DEF MergedTwice, PendingOnce
  <2>4. writes[b] \in 0 .. 2 /\ writes[b] <= 1
    BY <1>1, <1>2 DEF PendingOnce
  <2>5. CASE b \in PendingSet
    <3>1. ~ Stored(b)
      BY <2>2, <2>5 DEF PendingOnce
    <3>2. writes[b] = 0
      BY <2>4, <3>1 DEF Stored
    <3> QED BY <2>1, <2>2, <2>3, <2>5, <3>2 DEF Merged
  <2>6. CASE b \notin PendingSet
    BY <2>1, <2>2, <2>4, <2>6 DEF Merged, Stored
  <2> QED BY <2>5, <2>6
<1> QED
  BY <1>2

(* Merging one fresh batch.                                                *)
LEMMA MergeOnce ==
  ASSUME TypeOK, PendingOnce, NEW b \in Batches, Fresh(b),
         pending' = Append(pending, b), UNCHANGED writes,
         loop \notin {"ack", "recover", "reload"}
  PROVE  PendingOnce' /\ \A c : Merged(c)' <=> Merged(c) \/ c = b
<1>1. pending \in Seq(Batches) /\ Len(pending) \in Nat
  BY DEF TypeOK
<1>2. /\ Len(pending') = Len(pending) + 1 /\ pending'[Len(pending) + 1] = b
      /\ \A i \in 1 .. Len(pending) : pending'[i] = pending[i]
  BY <1>1, AppendProperties
<1>3. \A i \in 1 .. Len(pending') : i \in 1 .. Len(pending) \/ i = Len(pending) + 1
  BY <1>1, <1>2
<1>4. \A i \in 1 .. Len(pending) : pending[i] # b
  BY DEF Fresh, Merged
<1>5. \A i, j \in 1 .. Len(pending') : pending'[i] = pending'[j] => i = j
  BY <1>2, <1>3, <1>4 DEF PendingOnce
<1>6. \A i \in 1 .. Len(pending') : ~ Stored(pending'[i])
  BY <1>2, <1>3 DEF PendingOnce, Fresh, Merged
<1>7. \A i \in 1 .. Len(pending') : ~ Stored(pending[i])'
  BY <1>6 DEF Stored
<1>8. 1 .. Len(pending) \subseteq 1 .. Len(pending') /\ Len(pending) + 1 \in 1 .. Len(pending')
  BY <1>1, <1>2
<1>9. \A c : Merged(c)' <=> Merged(c) \/ c = b
  BY <1>2, <1>3, <1>8 DEF Merged, Stored
<1> QED
  BY <1>5, <1>7, <1>9 DEF PendingOnce

(* A write: pending is in the store, or a failed write has changed nothing.*)
LEMMA WriteOnce ==
  ASSUME TypeOK, CleanWrites, PendingOnce, FlushWriteOK \/ FlushWriteFails
  PROVE  PendingOnce' /\ \A b \in Batches : Merged(b)' => Merged(b)
<1>1. /\ loop = "write" /\ loop' \in {"ack", "dequeue", "stopped"}
      /\ pending \in Seq(Batches)
  BY DEF FlushWriteOK, FlushWriteFails, EndFlush, AfterFailure, TypeOK
<1>2. \/ writes' = StorePending /\ pending' = pending /\ loop' = "ack"
      \/ writes' = StorePending /\ Len(pending') = 0
      \/ writes' = writes /\ pending' = pending
  BY DEF FlushWriteOK, FlushWriteFails, EndFlush, mergeVars, CleanWrites
<1>3. \A b \in Batches : /\ StorePending[b] <= 1
                         /\ StorePending[b] > 0 <=> Merged(b)
  BY <1>1, StoreOnce
<1>4. CASE writes' = StorePending /\ pending' = pending /\ loop' = "ack"
  BY <1>3, <1>4 DEF PendingOnce, Merged, Stored
<1>5. CASE writes' = StorePending /\ Len(pending') = 0
  BY <1>3, <1>5 DEF PendingOnce, Merged, Stored
<1>6. CASE writes' = writes /\ pending' = pending
  BY <1>1, <1>6 DEF PendingOnce, Merged, Stored
<1> QED
  BY <1>2, <1>4, <1>5, <1>6
-----------------------------------------------------------------------------
LEMMA StopsOnlyGrow == TypeOK /\ [Next]_vars /\ stops' = 0 => stops = 0
<1>1. SUFFICES ASSUME TypeOK, [Next]_vars, stops' = 0 PROVE stops = 0
  OBVIOUS
<1>2. stops \in Nat
  BY <1>1 DEF TypeOK
<1>3. UNCHANGED stops \/ stops' = stops + 1
  BY <1>1 DEF Next, RequestStep, EnqueueRefused, EnqueueAppend, EnqueuePush, EnqueueMemory,
     RunStep, Dequeue, QueueEmpty, SelectNotify, SelectTick, SelectDone, FlushStep,
     FlushWriteOK, FlushWriteFails, FlushAcknowledge, ReloadRecover, ReloadQueue, MainStep,
     StartProcess, CancelBatcher, CloseResources, ProcessGone, history, vars, procVars
<1> QED
  BY <1>1, <1>2, <1>3

LEMMA MemoryOnceInit == Init => (~ useWAL => MemoryOnce)
<1>1. SUFFICES ASSUME Init PROVE MemoryOnce
  OBVIOUS
<1>2. Len(queue) = 0 /\ Len(pending) = 0 /\ \A b \in Batches : writes[b] = 0
  BY <1>1 DEF Init
<1> QED
  BY <1>2 DEF MemoryOnce, PendingOnce, OneEach, Safe, Merged, Stored

LEMMA MemoryOnceStep ==
  ASSUME TypeOK, Backing, CleanWrites, ~ useWAL, UNCHANGED useWAL, stops' = 0,
         MemoryOnce, [Next]_vars
  PROVE  MemoryOnce'
<1>1. /\ queue \in Seq(Item) /\ Len(queue) \in Nat /\ pending \in Seq(Batches)
      /\ req \in [Batches -> ReqStates] /\ stops \in Nat
      /\ \A b \in Batches : req[b] # "appended"
      /\ loop \notin {"ack", "recover", "reload"}
  BY DEF TypeOK, Backing
<1>2. CASE /\ UNCHANGED <<queue, pending, writes>>
           /\ \A b \in Batches : req'[b] = "new" => req[b] = "new"
  <2>1. \A c : (Merged(c)' <=> Merged(c)) /\ (Safe(c)' <=> Safe(c))
    BY <1>2 DEF Safe, Merged, Stored
  <2>2. PendingOnce'
    BY <1>1, <1>2 DEF MemoryOnce, PendingOnce, Stored
  <2> QED BY <1>2, <2>1, <2>2 DEF MemoryOnce, OneEach, Fresh
<1>3. ASSUME NEW b \in Batches, RequestStep(b)
      PROVE  MemoryOnce'
  <2>1. CASE /\ UNCHANGED <<queue, pending, writes>>
             /\ req' = [req EXCEPT ![b] = "refused"]
    <3>1. \A c \in Batches : req'[c] = "new" => req[c] = "new"
      BY <1>1, <2>1
    <3> QED BY <1>2, <2>1, <3>1
  <2>2. ASSUME NEW e \in Item, e.batch = b, queue' = Append(queue, e), req[b] = "new",
               UNCHANGED <<pending, writes>>, req' = [req EXCEPT ![b] = "accepted"]
        PROVE  MemoryOnce'
    <3>1. /\ Len(queue') = Len(queue) + 1 /\ queue'[Len(queue) + 1] = e
          /\ \A i \in 1 .. Len(queue) : queue'[i] = queue[i]
      BY <1>1, <2>2, AppendProperties
    <3>2. \A i \in 1 .. Len(queue') : i \in 1 .. Len(queue) \/ i = Len(queue) + 1
      BY <1>1, <3>1
    <3>3. ~ Safe(b)
      BY <2>2 DEF MemoryOnce
    <3>4. \A i \in 1 .. Len(queue) : queue[i].batch # b
      BY <3>3 DEF Safe
    <3>5. OneEach(queue')
      BY <2>2, <3>1, <3>2, <3>4 DEF MemoryOnce, OneEach
    <3>6. \A c : Merged(c)' <=> Merged(c)
      BY <2>2 DEF Merged, Stored
    <3>7. \A i \in 1 .. Len(queue') : Fresh(queue'[i].batch)
      BY <2>2, <3>1, <3>2, <3>3 DEF MemoryOnce, Fresh, Safe
    <3>8. \A i \in 1 .. Len(queue') : Fresh(queue[i].batch)'
      BY <3>6, <3>7 DEF Fresh, Merged, Stored
    <3>9. \A c \in Batches : req'[c] = "new" => req[c] = "new" /\ c # b
      BY <1>1, <2>2
    <3>10. \A c : Safe(c)' => Safe(c) \/ c = b
      BY <2>2, <3>1, <3>2, <3>6 DEF Safe
    <3>11. UNCHANGED loop
      BY <1>1, <1>3 DEF RequestStep, EnqueueRefused, EnqueueAppend, EnqueuePush,
         EnqueueMemory, loopVars
    <3>12. PendingOnce'
      BY <2>2, <3>11 DEF MemoryOnce, PendingOnce, Stored
    <3> QED BY <3>5, <3>8, <3>9, <3>10, <3>12 DEF MemoryOnce, OneEach
  <2>3. CASE EnqueueRefused(b)
    BY <2>1, <2>3 DEF EnqueueRefused, queueVars, loopVars, mergeVars, history
  <2>4. CASE EnqueueMemory(b)
    <3> DEFINE e == [walID |-> 0, walOffset |-> -1, batch |-> b]
    <3>1. e \in Item /\ e.batch = b
      BY DEF Item
    <3>2. /\ UNCHANGED <<pending, writes>> /\ req[b] = "new"
          /\ \/ queue' = queue /\ req' = [req EXCEPT ![b] = "refused"]
             \/ queue' = Append(queue, e) /\ req' = [req EXCEPT ![b] = "accepted"]
      BY <2>4 DEF EnqueueMemory, loopVars, mergeVars, history
    <3> HIDE DEF e
    <3> QED BY <2>1, <2>2, <3>1, <3>2
  <2> QED BY <1>1, <1>3, <2>3, <2>4 DEF RequestStep, EnqueueAppend, EnqueuePush
<1>4. CASE Dequeue
  <2> DEFINE b == Head(queue).batch
  <2>1. /\ Head(queue) = queue[1] /\ b \in Batches
        /\ Len(queue') = Len(queue) - 1
        /\ \A i \in 1 .. Len(queue') : i + 1 \in 1 .. Len(queue) /\ queue'[i] = queue[i + 1]
    BY <1>4, QueueShiftedProperties DEF Dequeue, Item
  <2>2. /\ 1 \in 1 .. Len(queue) /\ UNCHANGED <<writes, req>>
        /\ pending' = Append(pending, b)
    BY <1>1, <1>4 DEF Dequeue, reqVars, history
  <2>3. b = queue[1].batch
    BY <2>1
  <2> HIDE DEF b
  <2>4. Fresh(b)
    BY <2>2, <2>3 DEF MemoryOnce
  <2>5. PendingOnce' /\ \A c : Merged(c)' <=> Merged(c) \/ c = b
    BY <1>1, <2>1, <2>2, <2>4, MergeOnce DEF MemoryOnce
  <2>6. OneEach(queue')
    <3>1. ASSUME NEW i \in 1 .. Len(queue'), NEW j \in 1 .. Len(queue'),
                 queue'[i].batch = queue'[j].batch
          PROVE  i = j
      <4>1. i + 1 = j + 1
        BY SMTT(30), <2>1, <3>1 DEF MemoryOnce, OneEach
      <4> QED BY <4>1
    <3> QED BY <3>1 DEF OneEach
  <2>7. ASSUME NEW i \in 1 .. Len(queue')
        PROVE  ~ Merged(queue'[i].batch) /\ queue'[i].batch # b
    <3>1. i + 1 \in 1 .. Len(queue) /\ i + 1 # 1 /\ queue'[i] = queue[i + 1]
      BY <2>1
    <3> QED BY <2>2, <2>3, <3>1 DEF MemoryOnce, OneEach, Fresh
  <2>8. \A i \in 1 .. Len(queue') : Fresh(queue[i].batch)'
    BY <2>5, <2>7 DEF Fresh, Merged, Stored
  <2>9. \A c : Safe(c)' => Safe(c)
    <3>1. Safe(b)
      BY <2>2, <2>3 DEF Safe
    <3>2. ASSUME NEW c, NEW i \in 1 .. Len(queue'), queue'[i].batch = c
          PROVE  Safe(c)
      BY <2>1, <3>2 DEF Safe
    <3> QED BY <2>5, <3>1, <3>2 DEF Safe
  <2> QED BY <2>2, <2>5, <2>6, <2>8, <2>9 DEF MemoryOnce, OneEach
<1>5. CASE FlushWriteOK \/ FlushWriteFails
  <2>1. PendingOnce' /\ \A c \in Batches : Merged(c)' => Merged(c)
    BY <1>5, WriteOnce DEF MemoryOnce
  <2>2. UNCHANGED <<queue, req>>
    BY <1>5 DEF FlushWriteOK, FlushWriteFails, queueVars, reqVars
  <2>3. \A i \in 1 .. Len(queue) : queue[i].batch \in Batches
    <3>1. \A i \in 1 .. Len(queue) : queue[i] \in Item
      BY <1>1
    <3> QED BY <3>1 DEF Item
  <2>4. \A i \in 1 .. Len(queue') : Fresh(queue[i].batch)'
    BY <2>1, <2>2, <2>3 DEF MemoryOnce, Fresh, Merged, Stored
  <2>5. \A c \in Batches : Safe(c)' => Safe(c)
    BY <2>1, <2>2 DEF Safe
  <2> QED BY <2>1, <2>2, <2>4, <2>5 DEF MemoryOnce, OneEach
<1>6. CASE \/ QueueEmpty \/ SelectNotify \/ SelectTick \/ SelectDone
           \/ StartProcess \/ CancelBatcher \/ CloseResources \/ UNCHANGED vars
  BY <1>2, <1>6 DEF QueueEmpty, SelectNotify, SelectTick, SelectDone, StartProcess,
     CancelBatcher, CloseResources, queueVars, loopVars, mergeVars, reqVars, history, vars,
     procVars
<1>7. ~ ProcessGone
  BY <1>1 DEF ProcessGone
<1> QED
  BY <1>1, <1>3, <1>4, <1>5, <1>6, <1>7
  DEF Next, RunStep, FlushStep, MainStep, FlushAcknowledge, ReloadRecover, ReloadQueue

LEMMA MemoryOnceHolds ==
  ASSUME CleanWrites
  PROVE  Spec => [](~ useWAL /\ stops = 0 => MemoryOnce)
<1>1. ASSUME TypeOK, Backing, ~ useWAL /\ stops = 0 => MemoryOnce, [Next]_vars
      PROVE  (~ useWAL /\ stops = 0 => MemoryOnce)'
  <2>1. SUFFICES ASSUME ~ useWAL', stops' = 0 PROVE MemoryOnce'
    OBVIOUS
  <2>2. UNCHANGED useWAL
    BY <1>1 DEF Next, vars
  <2>3. stops = 0
    BY <1>1, <2>1, StopsOnlyGrow
  <2> QED BY <1>1, <2>1, <2>2, <2>3, MemoryOnceStep
<1>2. Init => (~ useWAL /\ stops = 0 => MemoryOnce)
  BY MemoryOnceInit
<1> QED
  BY <1>1, <1>2, TypeCorrect, BackingHolds, PTL DEF Spec

(* Without a log a batch is merged into pending once, in whatever order    *)
(* requests come, and a flush empties pending only after a write that      *)
(* succeeded (batcher.go:173-181, 196-203).                                *)
THEOREM OnceInMemory == ASSUME CleanWrites PROVE Spec => [](~ useWAL => OnceUntilStop)
<1>1. (~ useWAL /\ stops = 0 => MemoryOnce) => (~ useWAL => OnceUntilStop)
  BY DEF MemoryOnce, PendingOnce, OnceUntilStop
<1> QED
  BY <1>1, MemoryOnceHolds, PTL
-----------------------------------------------------------------------------
(* With a log, a reload reads again what the queue held.  The argument: an *)
(* entry the queue still holds, or that lies beyond what the next          *)
(* acknowledgement covers, is neither merged nor stored, and after an      *)
(* acknowledgement these are all there are.                                *)
Reloading == loop \in {"recover", "reload"}

Ahead(i) == \/ Len(queue) > 0 /\ queue[1].walOffset <= entries[i].offset
            \/ hasWAL /\ ackOffset < entries[i].offset

OnceInv ==
  /\ PendingOnce
  /\ ~ Up => OneEach(file) /\ \A b \in Batches : ~ Stored(b)
  /\ OneEach(entries)
  /\ \A b \in Batches : req[b] \in {"new", "appended"} => Fresh(b)
  /\ \A i \in 1 .. Len(entries) : Reloading \/ Ahead(i) => Fresh(entries[i].batch)

LEMMA OnceInit == ASSUME CleanWrites PROVE Init /\ useWAL => OnceInv
<1>1. SUFFICES ASSUME Init, useWAL PROVE OnceInv
  OBVIOUS
<1>2. PICK backlog \in Backlogs : file = AsFile(backlog)
  BY <1>1 DEF Init
<1>3. /\ backlog \in Seq(Batches) /\ Len(file) = Len(backlog)
      /\ \A i \in 1 .. Len(file) : file[i] = [id |-> i, batch |-> backlog[i], intact |-> TRUE]
  BY <1>2, BacklogsAssumption, AsFileType
<1>4. \A i \in 1 .. Len(file) : file[i].batch = backlog[i]
  <2>1. ASSUME NEW i \in 1 .. Len(file)
        PROVE  file[i].batch = backlog[i]
    <3>1. file[i] = [id |-> i, batch |-> backlog[i], intact |-> TRUE]
      BY <1>3
    <3> QED BY <3>1
  <2> QED BY <2>1
<1>5. OneEach(file)
  BY <1>3, <1>4 DEF CleanWrites, OneEach
<1>6. Len(entries) = 0 /\ Len(pending) = 0 /\ \A b \in Batches : writes[b] = 0
  BY <1>1 DEF Init
<1>7. \A b \in Batches : ~ Stored(b) /\ Fresh(b)
  <2>1. ASSUME NEW b \in Batches PROVE ~ Stored(b) /\ Fresh(b)
    <3>1. ~ Stored(b)
      BY <1>6, <2>1, SMT DEF Stored
    <3> QED BY <1>6, <3>1 DEF Fresh, Merged
  <2> QED BY <2>1
<1> QED
  BY <1>5, <1>6, <1>7 DEF OnceInv, PendingOnce, OneEach

(* Steps that add nothing to the entries, the queue, pending or the store. *)
LEMMA OnceFrame ==
  ASSUME Known, OnceInv, PendingOnce',
         UNCHANGED <<entries, queue>>, Up, Up', ~ Reloading' \/ Reloading,
         hasWAL' => hasWAL /\ ackOffset' = ackOffset,
         \A b \in Batches : Merged(b)' => Merged(b),
         \A b \in Batches : req'[b] \in {"new", "appended"} => req[b] \in {"new", "appended"}
  PROVE  OnceInv'
<1>1. \A i \in 1 .. Len(entries) : entries[i].batch \in Batches
  BY KnownTypes
<1>2. \A b \in Batches : Fresh(b) => Fresh(b)'
  BY DEF Fresh
<1>3. \A i \in 1 .. Len(entries) : Ahead(i)' => Ahead(i)
  BY DEF Ahead
<1>4. \A i \in 1 .. Len(entries) :
        Fresh(entries[i].batch) => Fresh(entries[i].batch)'
  BY <1>1 DEF Fresh, Merged, Stored
<1>5. \A i \in 1 .. Len(entries') : (Reloading \/ Ahead(i) => Fresh(entries[i].batch))'
  BY <1>3, <1>4 DEF OnceInv
<1> QED
  BY <1>2, <1>5 DEF OnceInv, OneEach

LEMMA OnceStart ==
  ASSUME Known, SerialInv, OnceInv, StartProcess
  PROVE  OnceInv'
<1>1. /\ file \in Seq(Record) /\ \A i \in 1 .. Len(file) : file[i].intact
  BY KnownTypes DEF SerialInv, FileInv
<1>2. /\ entries' = Scan(file) /\ UNCHANGED <<pending, req, writes>>
      /\ loop = "down" /\ loop' = "dequeue" /\ ~ Up /\ Up'
  BY DEF StartProcess, OpenWAL, mergeVars, reqVars, history, Up, Known
<1>3. /\ Scan(file) \in Seq(Entry) /\ Len(Scan(file)) = Len(file)
      /\ \A i \in 1 .. Len(Scan(file)) :
           Scan(file)[i] = [id |-> file[i].id, offset |-> i - 1, batch |-> file[i].batch]
  BY <1>1, ScanProperties, IntactFile
<1>4. \A i \in 1 .. Len(Scan(file)) : Scan(file)[i].batch = file[i].batch
  <2>1. ASSUME NEW i \in 1 .. Len(Scan(file))
        PROVE  Scan(file)[i].batch = file[i].batch
    <3>1. Scan(file)[i] = [id |-> file[i].id, offset |-> i - 1, batch |-> file[i].batch]
      BY <1>3
    <3> QED BY <3>1
  <2> QED BY <2>1
<1>5. OneEach(entries')
  BY <1>2, <1>3, <1>4 DEF OnceInv, OneEach
<1>6. Len(pending') = 0 /\ \A b \in Batches : ~ Stored(b)
  BY <1>2 DEF SerialInv, DownInv, OnceInv
<1>7. \A b \in Batches : Fresh(b)'
  BY <1>2, <1>6 DEF Fresh, Merged, Stored
<1>8. \A i \in 1 .. Len(entries') : entries'[i].batch \in Batches
  <2>1. \A i \in 1 .. Len(Scan(file)) : Scan(file)[i] \in Entry
    BY <1>3
  <2> QED BY <1>2, <2>1 DEF Entry
<1>9. \A i \in 1 .. Len(entries') : Fresh(entries[i].batch)'
  BY <1>7, <1>8 DEF Fresh, Merged, Stored
<1>10. PendingOnce'
  BY <1>2, <1>6 DEF OnceInv, PendingOnce
<1> QED
  BY <1>2, <1>5, <1>7, <1>9, <1>10 DEF OnceInv, OneEach

LEMMA OnceAppendOK ==
  ASSUME Known, Serial, SerialInv, OnceInv, NEW b \in Batches, Up, req[b] = "new",
         RequestMayStep(b), AppendOK(b), req' = [req EXCEPT ![b] = "appended"],
         UNCHANGED <<queueVars, loopVars, cancelled, history>>
  PROVE  OnceInv'
<1> DEFINE e == [id |-> nextID + 1, offset |-> Len(file), batch |-> b]
<1>1. /\ entries \in Seq(Entry) /\ Len(entries) \in Nat /\ req \in [Batches -> ReqStates]
      /\ e \in Entry /\ e.batch = b
  BY KnownTypes DEF Known, TypeOK, WalTypeOK, Entry
<1>2. entries' = Append(entries, e)
  BY DEF AppendOK
<1> HIDE DEF e
<1>3. /\ Len(entries') = Len(entries) + 1 /\ entries'[Len(entries) + 1] = e
      /\ \A i \in 1 .. Len(entries) : entries'[i] = entries[i]
  BY <1>1, <1>2, AppendProperties
<1>4. \A i \in 1 .. Len(entries') : i \in 1 .. Len(entries) \/ i = Len(entries) + 1
  BY <1>1, <1>3
<1>5. /\ UNCHANGED <<queue, loop, pending, ackOffset, hasWAL, writes>>
      /\ Up' /\ ~ Reloading /\ ~ Reloading'
  BY DEF queueVars, loopVars, mergeVars, history, Up, RequestMayStep, Serial, Reloading
<1>6. \A i \in 1 .. Len(entries) : entries[i].batch # b
  BY DEF SerialInv, EntriesInv, Has
<1>7. OneEach(entries')
  BY <1>1, <1>3, <1>4, <1>6 DEF OnceInv, OneEach
<1>8. \A c : Merged(c)' <=> Merged(c)
  BY <1>5 DEF Merged, Stored
<1>9. \A c \in Batches : req'[c] \in {"new", "appended"} => Fresh(c)'
  BY <1>1, <1>8 DEF OnceInv, Fresh
<1>10. PendingOnce'
  BY <1>5 DEF OnceInv, PendingOnce, Stored
<1>11. ASSUME NEW i \in 1 .. Len(entries'), Ahead(i)'
       PROVE  Fresh(entries[i].batch)'
  <2>1. CASE i \in 1 .. Len(entries)
    <3>1. Ahead(i)
      BY <1>3, <1>5, <1>11, <2>1 DEF Ahead
    <3>2. ~ Merged(entries'[i].batch)
      BY <1>3, <2>1, <3>1 DEF OnceInv, Fresh
    <3> QED BY <1>5, <3>2 DEF Fresh, Merged, Stored
  <2>2. CASE i = Len(entries) + 1
    <3>1. ~ Merged(entries'[i].batch)
      BY <1>1, <1>3, <2>2 DEF OnceInv, Fresh
    <3> QED BY <1>5, <3>1 DEF Fresh, Merged, Stored
  <2> QED BY <1>4, <2>1, <2>2
<1> QED
  BY <1>5, <1>7, <1>9, <1>10, <1>11 DEF OnceInv, OneEach

(* The second half of Enqueue may fill an empty queue: its head is then    *)
(* the last entry, the one of the request.                                 *)
LEMMA OncePush ==
  ASSUME Known, Serial, SerialInv, OnceInv, NEW b \in Batches, EnqueuePush(b)
  PROVE  OnceInv'
<1> DEFINE e == [walID |-> held[b].id, walOffset |-> held[b].offset, batch |-> b]
<1>1. /\ Len(entries) \in Nat /\ Len(queue) \in Nat /\ queue \in Seq(Item)
      /\ req \in [Batches -> ReqStates] /\ held[b] \in Held
      /\ \A i \in 1 .. Len(entries) : entries[i].offset \in Nat
  BY KnownTypes
<1>2. e \in Item /\ e.walOffset = held[b].offset
  BY <1>1 DEF Item, Held
<1>3. /\ Up /\ Up' /\ req[b] = "appended" /\ ~ Reloading /\ ~ Reloading'
      /\ loop \notin {"recover", "reload"}
      /\ req' = [req EXCEPT ![b] = "accepted"]
      /\ UNCHANGED <<entries, loop, pending, ackOffset, hasWAL, writes>>
  BY DEF EnqueuePush, RequestMayStep, Serial, walVars, loopVars, mergeVars, history, Up,
         Reloading
<1>4. queue' = queue \/ queue' = Append(queue, e)
  BY DEF EnqueuePush
<1> HIDE DEF e
<1>5. PICK n \in 0 .. Len(entries) : \E m \in 0 .. n : Window(m, n)
  BY <1>3 DEF SerialInv, LoopInv
<1>6. PICK m \in 0 .. n : Window(m, n)
  BY <1>5
<1>7. /\ n = Len(entries) - 1
      /\ held[b].offset = entries[n + 1].offset
      /\ \A i \in 1 .. Len(entries) : entries[i].batch = b <=> i = n + 1
  BY <1>3, <1>6 DEF Window, InEnqueue
<1>8. \A c : Merged(c)' <=> Merged(c)
  BY <1>3 DEF Merged, Stored
<1>9. ASSUME NEW i \in 1 .. Len(entries'), Ahead(i)'
      PROVE  Fresh(entries[i].batch)'
  <2>1. i \in 1 .. Len(entries) /\ entries' = entries /\ hasWAL' = hasWAL
        /\ ackOffset' = ackOffset
    BY <1>3
  <2>2. CASE Ahead(i)
    <3>1. ~ Merged(entries'[i].batch)
      BY <2>1, <2>2 DEF OnceInv, Fresh
    <3> QED BY <1>3, <3>1 DEF Fresh, Merged, Stored
  <2>3. CASE ~ Ahead(i)
    <3>1. Len(queue) = 0 /\ queue' = Append(queue, e)
      <4>1. CASE Len(queue) > 0
        <5>1. queue'[1] = queue[1]
          BY <1>1, <1>2, <1>4, <4>1, AppendProperties
        <5> QED BY <1>9, <2>1, <2>3, <4>1, <5>1 DEF Ahead
      <4>2. CASE queue' = queue
        BY <1>9, <2>1, <2>3, <4>2 DEF Ahead
      <4> QED BY <1>1, <1>4, <4>1, <4>2
    <3>2. queue'[1] = e
      BY <1>1, <1>2, <3>1, AppendProperties
    <3>3. queue'[1].walOffset <= entries[i].offset
      BY <1>9, <2>1, <2>3 DEF Ahead
    <3>4. entries[n + 1].offset <= entries[i].offset
      BY <1>2, <1>7, <3>2, <3>3
    <3>5. i = n + 1
      <4>1. n + 1 \in 1 .. Len(entries) /\ (i < n + 1 \/ i = n + 1)
        BY <1>1, <1>7, <2>1
      <4>2. i < n + 1 => entries[i].offset < entries[n + 1].offset
        BY <2>1, <4>1 DEF SerialInv, OffsetsInOrder
      <4>3. entries[i].offset \in Nat /\ entries[n + 1].offset \in Nat
        BY <1>1, <2>1, <4>1
      <4> QED BY <3>4, <4>1, <4>2, <4>3
    <3>6. entries'[i].batch = b /\ ~ Merged(b)
      BY <1>3, <1>7, <2>1, <3>5 DEF OnceInv, Fresh
    <3>7. ~ Merged(entries'[i].batch)
      BY <3>6
    <3> QED BY <1>3, <3>7 DEF Fresh, Merged, Stored
  <2> QED BY <2>2, <2>3
<1>10. \A c \in Batches : req'[c] \in {"new", "appended"} => Fresh(c)'
  BY <1>1, <1>3, <1>8 DEF OnceInv, Fresh
<1>11. PendingOnce'
  BY <1>3 DEF OnceInv, PendingOnce, Stored
<1> QED
  BY <1>3, <1>9, <1>10, <1>11 DEF OnceInv, OneEach

(* dequeue merges the first entry of the window; what is ahead afterwards  *)
(* lies behind it.                                                         *)
LEMMA OnceDequeue ==
  ASSUME Known, SerialInv, OnceInv, Dequeue
  PROVE  OnceInv'
<1> DEFINE item == Head(queue)
<1>1. /\ Len(entries) \in Nat /\ Len(queue) \in Nat /\ ackOffset \in Nat
      /\ \A i \in 1 .. Len(entries) : /\ entries[i].offset \in Nat
                                      /\ entries[i].batch \in Batches
  BY KnownTypes
<1>2. /\ item = queue[1] /\ Len(queue) > 0 /\ Len(queue') = Len(queue) - 1
      /\ \A k \in 1 .. Len(queue') : queue'[k] = queue[k + 1]
  <2>1. queue # << >> /\ queue' = QueueShifted
    BY DEF Dequeue
  <2>2. Len(queue) > 0
    BY <1>1, <2>1, KnownTypes
  <2> QED BY <2>1, <2>2, QueueShiftedProperties DEF Known
<1>3. /\ UNCHANGED <<entries, held, req, writes>>
      /\ loop = "dequeue" /\ loop' \in {"write", "dequeue"}
      /\ pending' = Append(pending, item.batch)
      /\ IF NewerOffset(item) THEN ackOffset' = item.walOffset /\ hasWAL' = TRUE
                              ELSE UNCHANGED <<ackOffset, hasWAL>>
  BY DEF Dequeue, walVars, reqVars, history
<1>4. Up /\ Up' /\ ~ Reloading /\ ~ Reloading' /\ loop \notin {"recover", "reload"}
  BY <1>3 DEF Up, Reloading
<1> HIDE DEF item
<1>5. PICK n \in 0 .. Len(entries) : \E m \in 0 .. n : Window(m, n)
  BY <1>4 DEF SerialInv, LoopInv
<1>6. PICK m \in 0 .. n : Window(m, n)
  BY <1>5
<1>7. /\ m + 1 \in 1 .. n /\ m + 1 \in 1 .. Len(entries)
      /\ item = AsItem(entries[m + 1])
  BY <1>1, <1>2, <1>6 DEF Window
<1>8. /\ item.walOffset = entries[m + 1].offset
      /\ item.batch = entries[m + 1].batch /\ item.batch \in Batches
      /\ item.walOffset \in Nat
  BY <1>1, <1>7 DEF AsItem
<1>9. Ahead(m + 1) /\ Fresh(item.batch)
  <2>1. Ahead(m + 1)
    BY <1>1, <1>2, <1>8 DEF Ahead
  <2> QED BY <1>7, <1>8, <2>1 DEF OnceInv
<1>10. PendingOnce' /\ \A c : Merged(c)' <=> Merged(c) \/ c = item.batch
  BY <1>3, <1>8, <1>9, MergeOnce DEF OnceInv, Known
<1>11. ASSUME NEW i \in 1 .. Len(entries), Ahead(i)'
       PROVE  entries[m + 1].offset < entries[i].offset
  <2>1. entries'[i].offset = entries[i].offset /\ entries[i].offset \in Nat
    BY <1>1, <1>3
  <2>2. CASE Len(queue') > 0 /\ queue'[1].walOffset <= entries[i].offset
    <3>1. /\ 1 \in 1 .. Len(queue') /\ 2 \in 1 .. Len(queue)
      BY <1>1, <1>2, <2>2
    <3>2. queue'[1] = queue[2] /\ queue[2] = AsItem(entries[m + 2])
      BY <1>2, <1>6, <3>1 DEF Window
    <3>3. queue'[1].walOffset = entries[m + 2].offset
      BY <3>2 DEF AsItem
    <3>4. m + 2 \in 1 .. Len(entries) /\ m + 1 < m + 2
      BY <1>1, <1>6, <3>1 DEF Window
    <3>5. entries[m + 1].offset < entries[m + 2].offset
      BY <1>7, <3>4 DEF SerialInv, OffsetsInOrder
    <3>6. entries[m + 1].offset \in Nat /\ entries[m + 2].offset \in Nat
      BY <1>1, <1>7, <3>4
    <3> QED BY SMTT(30), <2>1, <2>2, <3>3, <3>5, <3>6
  <2>3. CASE hasWAL' /\ ackOffset' < entries[i].offset
    <3>1. NewerOffset(item)
      <4>1. hasWAL => ackOffset < entries[m + 1].offset
        BY <1>1, <1>6, <1>7 DEF Window
      <4> QED BY <1>8, <4>1 DEF NewerOffset
    <3> QED BY <1>3, <1>8, <2>3, <3>1
  <2> QED BY <1>11, <2>1, <2>2, <2>3 DEF Ahead
<1>12. ASSUME NEW i \in 1 .. Len(entries'), Ahead(i)'
       PROVE  Fresh(entries[i].batch)'
  <2>1. i \in 1 .. Len(entries) /\ entries[m + 1].offset < entries[i].offset
        /\ entries'[i] = entries[i]
    BY <1>3, <1>11, <1>12
  <2>2. Ahead(i)
    <3>1. queue[1].walOffset < entries[i].offset
      BY <1>2, <1>8, <2>1
    <3>2. queue[1].walOffset \in Nat /\ entries[i].offset \in Nat
      BY <1>1, <1>2, <1>8, <2>1
    <3> QED BY <1>2, <3>1, <3>2 DEF Ahead
  <2>3. i # m + 1
    BY <1>1, <1>7, <2>1
  <2>4. entries[i].batch # item.batch
    BY <1>7, <1>8, <2>1, <2>3 DEF OnceInv, OneEach
  <2>5. ~ Merged(entries[i].batch)
    BY <2>1, <2>2 DEF OnceInv, Fresh
  <2>6. ~ Merged(entries[i].batch)'
    <3>1. ASSUME NEW c, c = entries[i].batch
          PROVE  ~ Merged(c)'
      BY <1>10, <2>4, <2>5, <3>1
    <3> QED BY <1>3, <3>1 DEF Merged, Stored
  <2> QED BY <2>6 DEF Fresh
<1>13. ASSUME NEW c \in Batches, req'[c] \in {"new", "appended"}
       PROVE  Fresh(c)'
  <2>1. Fresh(c)
    BY <1>3, <1>13 DEF OnceInv
  <2>2. c # item.batch
    <3>1. CASE req[c] = "new"
      BY <1>4, <1>7, <1>8, <3>1 DEF SerialInv, EntriesInv, Has
    <3>2. CASE req[c] = "appended"
      <4>1. \A i \in 1 .. Len(entries) : entries[i].batch = c <=> i = n + 1
        BY <1>6, <3>2 DEF Window, InEnqueue
      <4>2. m + 1 # n + 1
        BY <1>1, <1>7
      <4> QED BY <1>7, <1>8, <4>1, <4>2
    <3> QED BY <1>3, <1>13, <3>1, <3>2
  <2> QED BY <1>10, <2>1, <2>2 DEF Fresh
<1> QED
  BY <1>3, <1>4, <1>10, <1>12, <1>13 DEF OnceInv, OneEach

(* An acknowledgement that succeeds keeps the entries beyond its offset.   *)
LEMMA OnceAcknowledgeOK ==
  ASSUME Known, Serial, SerialInv, OnceInv, FlushAcknowledge, AcknowledgeOK(ackOffset),
         loop' = "recover", UNCHANGED mergeVars
  PROVE  OnceInv'
<1> DEFINE k == AckIndex(ackOffset)
           rs == Remaining(ackOffset)
<1>1. /\ entries \in Seq(Entry) /\ Len(entries) \in Nat
      /\ ackOffset \in Int /\ ackOffset \in Nat
      /\ \A i \in 1 .. Len(entries) : /\ entries[i].offset \in Nat
                                      /\ entries[i].batch \in Batches
  BY KnownTypes
<1>2. /\ loop = "ack" /\ Up /\ Up' /\ hasWAL
      /\ UNCHANGED <<queue, req, writes, pending>>
  BY DEF FlushAcknowledge, Up, queueVars, reqVars, history, Known, Backing,
         PendingIsBacked, mergeVars
<1>3. k \in 0 .. Len(entries) /\ (k = Len(entries) \/ entries[k + 1].offset > ackOffset)
  BY <1>1, AckIndexProperties
<1>4. /\ rs \in Seq(Entry) /\ Len(rs) = Len(entries) - k
      /\ \A i \in 1 .. Len(rs) : i + k \in 1 .. Len(entries) /\ rs[i] = entries[i + k]
  BY <1>1, RemainingProperties
<1>5. /\ Len(Scan(Rewritten(rs))) = Len(rs)
      /\ \A i \in 1 .. Len(rs) :
           Scan(Rewritten(rs))[i] = [id |-> rs[i].id, offset |-> i - 1, batch |-> rs[i].batch]
  BY <1>4, ScanOfRewritten
<1>6. \/ k = 0 /\ entries' = entries
      \/ entries' = Scan(Rewritten(rs))
  BY DEF AcknowledgeOK, walVars
<1> HIDE DEF k, rs
<1>7. /\ Len(entries') = Len(entries) - k
      /\ \A i \in 1 .. Len(entries') : /\ i + k \in 1 .. Len(entries)
                                       /\ entries'[i].batch = entries[i + k].batch
  <2>1. CASE k = 0 /\ entries' = entries
    BY <1>1, <2>1
  <2>2. CASE entries' = Scan(Rewritten(rs))
    <3>1. ASSUME NEW i \in 1 .. Len(rs)
          PROVE  entries'[i].batch = entries[i + k].batch
      <4>1. entries'[i] = [id |-> rs[i].id, offset |-> i - 1, batch |-> rs[i].batch]
        BY <1>5, <2>2
      <4> QED BY <1>4, <4>1
    <3> QED BY <1>4, <1>5, <2>2, <3>1
  <2> QED BY <1>6, <2>1, <2>2
<1>8. ASSUME NEW i \in k + 1 .. Len(entries)
      PROVE  ~ Merged(entries[i].batch)
  <2>1. /\ k + 1 \in 1 .. Len(entries) /\ i \in 1 .. Len(entries)
        /\ entries[k + 1].offset > ackOffset
    BY <1>1, <1>3
  <2>2. k + 1 < i => entries[k + 1].offset < entries[i].offset
    BY <2>1 DEF SerialInv, OffsetsInOrder
  <2>3. entries[k + 1].offset \in Nat /\ entries[i].offset \in Nat /\ (k + 1 < i \/ i = k + 1)
    BY <1>1, <1>3, <2>1
  <2>4. ackOffset < entries[i].offset
    BY <1>1, <2>1, <2>2, <2>3
  <2> QED BY <1>2, <2>1, <2>4 DEF OnceInv, Ahead, Fresh
<1>9. ASSUME NEW i \in 1 .. Len(entries')
      PROVE  Fresh(entries[i].batch)'
  <2>1. i + k \in k + 1 .. Len(entries)
    BY <1>1, <1>3, <1>7
  <2>2. ~ Merged(entries'[i].batch)
    BY <1>7, <1>8, <2>1
  <2> QED BY <1>2, <2>2 DEF Fresh, Merged, Stored
<1>10. OneEach(entries')
  <2>1. ASSUME NEW i \in 1 .. Len(entries'), NEW j \in 1 .. Len(entries'),
               entries'[i].batch = entries'[j].batch
        PROVE  i = j
    <3>1. i + k = j + k
      BY <1>7, <2>1 DEF OnceInv, OneEach
    <3> QED BY <1>3, <3>1
  <2> QED BY <2>1 DEF OneEach
<1>11. \A c \in Batches : req'[c] \in {"new", "appended"} => Fresh(c)'
  BY <1>2 DEF OnceInv, Fresh, Merged, Stored
<1>12. PendingOnce'
  BY <1>2 DEF OnceInv, PendingOnce
<1> QED
  BY <1>2, <1>9, <1>10, <1>11, <1>12 DEF OnceInv, OneEach

(* When a flush ends, pending is empty again.                              *)
LEMMA OnceEndFlush ==
  ASSUME Known, OnceInv, EndFlush, UNCHANGED writes
  PROVE  /\ PendingOnce' /\ Up' /\ ~ Reloading' /\ ~ hasWAL'
         /\ \A c : Merged(c)' => Merged(c)
<1>1. /\ Len(pending') = 0 /\ ~ hasWAL' /\ loop' \in {"stopped", "dequeue"}
  BY DEF EndFlush
<1>2. PendingOnce'
  BY <1>1 DEF OnceInv, PendingOnce
<1> QED
  BY <1>1, <1>2 DEF Merged, Stored, Up, Reloading

LEMMA OnceAcknowledge ==
  ASSUME Known, Serial, SerialInv, OnceInv, FlushAcknowledge
  PROVE  OnceInv'
<1>1. /\ Up /\ UNCHANGED <<queue, req, writes>>
  BY DEF FlushAcknowledge, Up, queueVars, reqVars, history
<1>2. \/ AcknowledgeOK(ackOffset) /\ loop' = "recover" /\ UNCHANGED mergeVars
      \/ AcknowledgeFails(ackOffset) /\ EndFlush
  BY DEF FlushAcknowledge
<1>3. CASE AcknowledgeFails(ackOffset) /\ EndFlush
  <2>1. UNCHANGED entries
    BY <1>3 DEF AcknowledgeFails
  <2> QED BY <1>1, <1>3, <2>1, OnceEndFlush, OnceFrame
<1> QED
  BY <1>2, <1>3, OnceAcknowledgeOK

(* The queue is loaded anew from entries none of which is merged.          *)
LEMMA OnceReload ==
  ASSUME Known, OnceInv, ReloadRecover \/ ReloadQueue
  PROVE  OnceInv'
<1>1. /\ UNCHANGED <<entries, req, writes>> /\ Up /\ Reloading
  BY DEF ReloadRecover, ReloadQueue, walVars, reqVars, history, Up, Reloading
<1>2. PendingOnce' /\ Up' /\ \A c : Merged(c)' => Merged(c)
  <2>1. CASE ReloadRecover
    BY <2>1 DEF ReloadRecover, mergeVars, history, OnceInv, PendingOnce, Merged, Stored, Up
  <2>2. CASE ReloadQueue
    BY <1>1, <2>2, OnceEndFlush DEF ReloadQueue
  <2> QED BY <2>1, <2>2
<1>3. \A i \in 1 .. Len(entries) : ~ Merged(entries[i].batch)
  BY <1>1 DEF OnceInv, Fresh
<1>4. \A i \in 1 .. Len(entries) : ~ Merged(entries[i].batch)'
  <2>1. ASSUME NEW i \in 1 .. Len(entries), NEW c, c = entries[i].batch
        PROVE  ~ Merged(c)'
    BY <1>2, <1>3, <2>1
  <2> QED BY <1>1, <2>1 DEF Merged, Stored
<1>5. \A c \in Batches : req'[c] \in {"new", "appended"} => Fresh(c)'
  BY <1>1, <1>2 DEF OnceInv, Fresh
<1> QED
  BY <1>1, <1>2, <1>4, <1>5 DEF OnceInv, OneEach, Fresh

LEMMA OnceStep ==
  ASSUME Known, Serial, CleanWrites, SerialInv, OnceInv, stops' = 0, [Next]_vars
  PROVE  OnceInv'
<1>1. /\ loop \in LoopStates /\ useWAL /\ req \in [Batches -> ReqStates] /\ stops = 0
      /\ stops + 1 # 0
  BY StopsOnlyGrow DEF Known, TypeOK
<1>2. ASSUME UNCHANGED <<entries, queue, pending, ackOffset, hasWAL, writes>>,
             Up, Up', ~ Reloading' \/ Reloading,
             loop' = loop \/ loop \notin {"ack", "recover", "reload"},
             \A b \in Batches : req'[b] \in {"new", "appended"} => req[b] \in {"new", "appended"}
      PROVE  OnceInv'
  <2>1. PendingOnce' /\ \A c : Merged(c)' => Merged(c)
    BY <1>2 DEF OnceInv, PendingOnce, Merged, Stored
  <2> QED BY <1>2, <2>1, OnceFrame
<1>3. ASSUME NEW b \in Batches, RequestStep(b)
      PROVE  OnceInv'
  <2>1. ASSUME UNCHANGED <<entries, queue, pending, ackOffset, hasWAL, writes, loop>>,
               Up, req' = [req EXCEPT ![b] = "refused"]
        PROVE  OnceInv'
    <3>1. \A c \in Batches : req'[c] \in {"new", "appended"} => req[c] \in {"new", "appended"}
      BY <1>1, <2>1
    <3> QED BY <1>2, <2>1, <3>1 DEF Up, Reloading
  <2>2. CASE EnqueueRefused(b)
    BY <2>1, <2>2 DEF EnqueueRefused, walVars, queueVars, loopVars, mergeVars, history
  <2>3. CASE EnqueueAppend(b)
    <3>1. CASE AppendFails(b) /\ req' = [req EXCEPT ![b] = "refused"]
      BY <2>1, <2>3, <3>1 DEF EnqueueAppend, AppendFails, queueVars, loopVars, mergeVars,
                              history
    <3>2. CASE AppendOK(b) /\ req' = [req EXCEPT ![b] = "appended"]
      BY <2>3, <3>2, OnceAppendOK DEF EnqueueAppend
    <3> QED BY <2>3, <3>1, <3>2 DEF EnqueueAppend
  <2>4. CASE EnqueuePush(b)
    BY <2>4, OncePush
  <2> QED BY <1>1, <1>3, <2>2, <2>3, <2>4 DEF RequestStep, EnqueueMemory
<1>4. CASE QueueEmpty \/ SelectNotify \/ SelectTick \/ SelectDone
  <2>1. /\ UNCHANGED <<entries, queue, pending, ackOffset, hasWAL, writes, req>>
        /\ loop \in {"dequeue", "select"}
        /\ loop' \in {"dequeue", "select", "write", "stopped"}
    BY <1>4 DEF QueueEmpty, SelectNotify, SelectTick, SelectDone, AfterTick, walVars,
                queueVars, mergeVars, reqVars, history
  <2> QED BY <1>2, <2>1 DEF Up, Reloading
<1>5. CASE CancelBatcher \/ CloseResources
  <2>1. /\ UNCHANGED <<entries, queue, pending, ackOffset, hasWAL, writes, req, loop>> /\ Up
    BY <1>5 DEF CancelBatcher, CloseResources, CloseWAL, walVars, queueVars, loopVars,
                mergeVars, reqVars
  <2> QED BY <1>2, <2>1 DEF Up, Reloading
<1>6. CASE UNCHANGED vars
  <2>1. /\ UNCHANGED <<file, entries, queue, pending, ackOffset, hasWAL, writes, req, loop>>
    BY <1>6 DEF vars, procVars, walVars, queueVars, mergeVars, reqVars, history
  <2> QED BY <2>1 DEF OnceInv, PendingOnce, OneEach, Fresh, Merged, Stored, Up, Reloading,
                      Ahead
<1>7. CASE FlushWriteOK \/ FlushWriteFails
  <2>1. PendingOnce' /\ \A b \in Batches : Merged(b)' => Merged(b)
    BY <1>7, WriteOnce DEF OnceInv, Known
  <2>2. /\ UNCHANGED <<entries, queue, req>> /\ Up /\ Up' /\ ~ Reloading'
        /\ hasWAL' => hasWAL /\ ackOffset' = ackOffset
    BY <1>7 DEF FlushWriteOK, FlushWriteFails, EndFlush, AfterFailure, walVars, queueVars,
                reqVars, mergeVars, Up, Reloading
  <2> QED BY <2>1, <2>2, OnceFrame
<1>8. ~ ProcessGone
  BY <1>1 DEF ProcessGone
<1> QED
  BY <1>3, <1>4, <1>5, <1>6, <1>7, <1>8, OnceStart, OnceDequeue, OnceAcknowledge, OnceReload
  DEF Next, RunStep, FlushStep, MainStep

LEMMA OnceHolds ==
  ASSUME Serial, CleanWrites
  PROVE  Spec => [](useWAL /\ stops = 0 => OnceInv)
<1>1. ASSUME TypeOK, Backing, IdsInOrder, useWAL => SerialInv,
             useWAL /\ stops = 0 => OnceInv, [Next]_vars
      PROVE  (useWAL /\ stops = 0 => OnceInv)'
  <2>1. SUFFICES ASSUME useWAL', stops' = 0 PROVE OnceInv'
    OBVIOUS
  <2>2. UNCHANGED useWAL
    BY <1>1 DEF Next, vars
  <2>3. stops = 0
    BY <1>1, <2>1, StopsOnlyGrow
  <2>4. Known /\ SerialInv /\ OnceInv
    BY <1>1, <2>1, <2>2, <2>3 DEF Known
  <2> QED BY <1>1, <2>1, <2>4, OnceStep
<1>2. Init => (useWAL /\ stops = 0 => OnceInv)
  BY OnceInit
<1> QED
  BY <1>1, <1>2, TypeCorrect, BackingHolds, IdsHold, SerialHolds, PTL DEF Spec

(* Nothing is stored twice before the process first stops, although every  *)
(* acknowledgement is followed by a reload of what the queue held          *)
(* (batcher.go:190-194, 283-317), in the environment that Serial           *)
(* describes and with a store that fails cleanly.                          *)
THEOREM OnceWhenSerial == ASSUME Serial, CleanWrites PROVE Spec => []OnceUntilStop
<1>1. (useWAL /\ stops = 0 => OnceInv) /\ (~ useWAL => OnceUntilStop) => OnceUntilStop
  BY DEF OnceInv, PendingOnce, OnceUntilStop
<1> QED
  BY <1>1, OnceHolds, OnceInMemory, PTL
=============================================================================
