--------------------------- MODULE Collect_proofs ---------------------------
(***************************************************************************)
(* Proofs about Collect: for every number of tabs, stray requests, events  *)
(* and restarts, every batch limit and threshold, every set of events the  *)
(* server rejects, and every interleaving of tabs and handlers.            *)
(***************************************************************************)
EXTENDS Collect, SequenceTheorems, TLAPS

Flight == [batch : Seq(Events), hidden : BOOLEAN]

LEMMA Constants ==
  /\ RequestBatchLimit \in Nat /\ RequestBatchLimit > 0
  /\ FlushThreshold \in Nat /\ FlushThreshold > 0
  /\ MaxEvents \in Nat /\ MaxRestarts \in Nat
  /\ \A t \in Tabs : t \in Senders /\ t \notin Strays
  /\ \A o \in Strays : o \in Senders /\ o \notin Tabs
BY TrackerAssumption, CollectAssumption DEF Senders

(* splice cuts a sequence in two, the first part no longer than the limit  *)
(* and empty only if there was nothing.                                    *)
LEMMA Cuts ==
  ASSUME NEW q \in Seq(Events)
  PROVE  /\ First(q) \in Seq(Events) /\ Rest(q) \in Seq(Events)
         /\ Len(First(q)) <= RequestBatchLimit
         /\ q # << >> => First(q) # << >>
<1>1. /\ Cut(q) \in Nat /\ Len(q) \in Nat /\ Cut(q) <= Len(q) /\ Cut(q) <= RequestBatchLimit
      /\ q # << >> => Len(q) > 0 /\ Cut(q) > 0
  BY Constants, EmptySeq DEF Cut
<1>2. \A i \in 1 .. Cut(q) : q[i] \in Events
  BY <1>1
<1>3. \A i \in Cut(q) + 1 .. Len(q) : q[i] \in Events
  BY <1>1
<1>4. First(q) \in Seq(Events) /\ Len(First(q)) = Cut(q)
  BY <1>1, <1>2, SubSeqProperties DEF First
<1>5. Rest(q) \in Seq(Events)
  BY <1>1, <1>3, SubSeqProperties DEF Rest
<1> QED BY <1>1, <1>4, <1>5

LEMMA RequestTypes ==
  /\ NoRequest \in Request /\ NoRequest.batch = {} /\ NoRequest.stage = "none"
  /\ \A s \in Seq(Events) :
       Sent(s) \in Request /\ Sent(s).batch = {} /\ Sent(s).stage = "sent"
  /\ NoFlush \in Flight /\ NoFlush.batch = << >>
BY EmptySeq DEF NoRequest, Sent, Request, NoFlush, Flight

LEMMA MembersType ==
  ASSUME NEW q \in Seq(Events)
  PROVE  Members(q) \subseteq Events
BY DEF Members

-----------------------------------------------------------------------------
(* What any handler of tab t does to the tabs and to the other requests:   *)
(* it touches its own tab only, and starts requests in empty places only.  *)
Outcome(t, others) ==
  /\ queue' \in [Tabs -> Seq(Events)]
  /\ flight' \in [Tabs -> Flight]
  /\ backup' \in Seq(Events)
  /\ requests' \in [Senders -> Request]
  /\ \A s \in Senders : \/ requests'[s] = others[s]
                        \/ others[s] = NoRequest /\ requests'[s].batch = {}
  /\ \A u \in Tabs \ {t} : flight'[u] = flight[u] /\ requests'[u] = others[u]
  /\ Len(flight'[t].batch) <= RequestBatchLimit
  /\ flight'[t].batch # << >> <=> requests'[t] # NoRequest

LEMMA IdleOutcome ==
  ASSUME TypeOK, NEW t \in Tabs, NEW q \in Seq(Events), NEW stored \in Seq(Events),
         NEW others \in [Senders -> Request], others[t] = NoRequest,
         queue' = [queue EXCEPT ![t] = q],
         flight' = [flight EXCEPT ![t] = NoFlush],
         backup' = stored, requests' = others
  PROVE  Outcome(t, others)
<1>1. Len(NoFlush.batch) <= RequestBatchLimit
  BY RequestTypes, Constants, EmptySeq
<1>2. flight'[t] = NoFlush /\ \A u \in Tabs \ {t} : flight'[u] = flight[u]
  BY DEF TypeOK
<1>3. queue' \in [Tabs -> Seq(Events)] /\ flight' \in [Tabs -> Flight]
  BY RequestTypes DEF TypeOK, Flight
<1> QED BY <1>1, <1>2, <1>3, RequestTypes, Constants DEF Outcome

LEMMA FetchOutcome ==
  ASSUME TypeOK, NEW t \in Tabs, NEW q \in Seq(Events), q # << >>,
         NEW stored \in Seq(Events), NEW hidden \in BOOLEAN,
         NEW others \in [Senders -> Request], others[t] = NoRequest,
         queue' = [queue EXCEPT ![t] = Rest(q)],
         flight' = [flight EXCEPT ![t] = [batch |-> First(q), hidden |-> hidden]],
         backup' = stored,
         requests' = [others EXCEPT ![t] = Sent(First(q))]
  PROVE  Outcome(t, others)
<1> DEFINE f == [batch |-> First(q), hidden |-> hidden]
           r == Sent(First(q))
<1>1. f \in Flight /\ f.batch = First(q)
  BY Cuts DEF Flight
<1>2. r \in Request /\ r.batch = {} /\ r # NoRequest
  BY Cuts, RequestTypes
<1> HIDE DEF f, r
<1>3. flight' = [flight EXCEPT ![t] = f] /\ requests' = [others EXCEPT ![t] = r]
  BY DEF f, r
<1>4. flight'[t] = f /\ \A u \in Tabs \ {t} : flight'[u] = flight[u]
  BY <1>3 DEF TypeOK
<1>5. requests'[t] = r /\ \A s \in Senders \ {t} : requests'[s] = others[s]
  BY <1>3, Constants
<1>6. /\ queue' \in [Tabs -> Seq(Events)] /\ flight' \in [Tabs -> Flight]
      /\ requests' \in [Senders -> Request]
  BY <1>1, <1>2, <1>3, Cuts, Constants DEF TypeOK, Flight
<1> QED BY <1>1, <1>2, <1>4, <1>5, <1>6, Cuts, Constants DEF Outcome

(* A beacon takes an empty place, which no tab has.                        *)
LEMMA BeaconedOutcome ==
  ASSUME NEW t \in Tabs, NEW others \in [Senders -> Request],
         NEW o \in Strays, others[o] = NoRequest, NEW s \in Seq(Events),
         Outcome(t, [others EXCEPT ![o] = Sent(s)])
  PROVE  Outcome(t, others)
<1> DEFINE beaconed == [others EXCEPT ![o] = Sent(s)]
<1>1. beaconed[o] = Sent(s) /\ \A u \in Senders \ {o} : beaconed[u] = others[u]
  BY Constants
<1>2. Sent(s).batch = {}
  BY RequestTypes
<1>3. Outcome(t, beaconed)
  OBVIOUS
<1> HIDE DEF beaconed
<1>4. ASSUME NEW u \in Senders
      PROVE  \/ requests'[u] = others[u]
             \/ others[u] = NoRequest /\ requests'[u].batch = {}
  BY <1>1, <1>2, <1>3 DEF Outcome
<1>5. \A u \in Tabs \ {t} : flight'[u] = flight[u] /\ requests'[u] = others[u]
  BY <1>1, <1>3, Constants DEF Outcome
<1> QED BY <1>3, <1>4, <1>5 DEF Outcome

LEMMA BeaconOutcome ==
  ASSUME TypeOK, NEW t \in Tabs, NEW q \in Seq(Events), q # << >>,
         NEW others \in [Senders -> Request], others[t] = NoRequest,
         Beacon(t, q, others)
  PROVE  Outcome(t, others) /\ exposed' \subseteq Events
<1>1. /\ Rest(q) \in Seq(Events) /\ First(q) \in Seq(Events) /\ << >> \in Seq(Events)
      /\ Members(First(q)) \subseteq Events /\ exposed \subseteq Events
  BY Cuts, MembersType, EmptySeq DEF TypeOK
<1>2. CASE Fetch(t, q, TRUE, q, others) /\ UNCHANGED exposed
  <2>1. Outcome(t, others)
    BY <1>2, FetchOutcome DEF Fetch
  <2> QED BY <2>1, <1>1, <1>2
<1>3. ASSUME NEW o \in Strays, others[o] = NoRequest,
             IF Len(Rest(q)) >= FlushThreshold
             THEN Fetch(t, Rest(q), FALSE, << >>, [others EXCEPT ![o] = Sent(First(q))])
             ELSE Idle(t, Rest(q), << >>, [others EXCEPT ![o] = Sent(First(q))]),
             exposed' = exposed \union Members(First(q))
      PROVE  Outcome(t, others) /\ exposed' \subseteq Events
  <2> DEFINE beaconed == [others EXCEPT ![o] = Sent(First(q))]
  <2>1. beaconed \in [Senders -> Request] /\ beaconed[t] = NoRequest
    <3>1. Sent(First(q)) \in Request /\ o # t
      BY <1>1, RequestTypes, Constants
    <3> QED BY <3>1, Constants
  <2>2. \/ Fetch(t, Rest(q), FALSE, << >>, beaconed) /\ Rest(q) # << >>
        \/ Idle(t, Rest(q), << >>, beaconed)
    <3>1. Len(Rest(q)) >= FlushThreshold => Rest(q) # << >>
      BY <1>1, Constants, EmptySeq
    <3> HIDE DEF beaconed
    <3>2. IF Len(Rest(q)) >= FlushThreshold
          THEN Fetch(t, Rest(q), FALSE, << >>, beaconed)
          ELSE Idle(t, Rest(q), << >>, beaconed)
      BY <1>3 DEF beaconed
    <3> QED BY <3>1, <3>2
  <2>3. Outcome(t, beaconed)
    <3> HIDE DEF beaconed
    <3>1. CASE Fetch(t, Rest(q), FALSE, << >>, beaconed) /\ Rest(q) # << >>
      BY <3>1, <2>1, <1>1, FetchOutcome DEF Fetch
    <3>2. CASE Idle(t, Rest(q), << >>, beaconed)
      BY <3>2, <2>1, <1>1, IdleOutcome DEF Idle
    <3> QED BY <2>2, <3>1, <3>2
  <2>4. Outcome(t, others)
    BY <1>1, <1>3, <2>3, BeaconedOutcome
  <2> QED BY <2>4, <1>1, <1>3
<1> QED BY <1>2, <1>3 DEF Beacon

LEMMA FlushOutcome ==
  ASSUME TypeOK, NEW t \in Tabs, NEW q \in Seq(Events), q # << >>,
         NEW hidden \in BOOLEAN, NEW stored \in Seq(Events),
         NEW others \in [Senders -> Request], others[t] = NoRequest,
         Flush(t, q, hidden, stored, others)
  PROVE  Outcome(t, others) /\ exposed' \subseteq Events
<1>1. CASE hidden
  <2>1. Beacon(t, q, others)
    BY <1>1 DEF Flush
  <2> QED BY <2>1, BeaconOutcome
<1>2. CASE ~ hidden
  <2>1. Fetch(t, q, FALSE, stored, others) /\ UNCHANGED exposed
    BY <1>2 DEF Flush
  <2>2. Outcome(t, others)
    BY <2>1, FetchOutcome DEF Fetch
  <2> QED BY <2>1, <2>2 DEF TypeOK
<1> QED BY <1>1, <1>2

LEMMA ContinueOutcome ==
  ASSUME TypeOK, NEW t \in Tabs, NEW ok \in BOOLEAN,
         NEW others \in [Senders -> Request], others[t] = NoRequest,
         Continue(t, ok, others)
  PROVE  Outcome(t, others) /\ exposed' \subseteq Events
<1> DEFINE q == IF ok THEN queue[t] ELSE Requeued(t)
           stored == IF ok THEN << >> ELSE q
           hidden == ~ ok /\ flight[t].hidden
<1>1. queue[t] \in Seq(Events) /\ flight[t].batch \in Seq(Events)
      /\ flight[t].hidden \in BOOLEAN /\ << >> \in Seq(Events)
  BY EmptySeq DEF TypeOK
<1>2. Requeued(t) \in Seq(Events)
  BY <1>1, ConcatProperties DEF Requeued
<1>3. q \in Seq(Events) /\ stored \in Seq(Events) /\ hidden \in BOOLEAN
  BY <1>1, <1>2
<1>4. \/ Idle(t, q, stored, others) /\ UNCHANGED exposed
      \/ ~ Len(q) < FlushThreshold /\ Flush(t, q, hidden, stored, others)
  BY DEF Continue
<1> HIDE DEF q, stored, hidden
<1>5. CASE Idle(t, q, stored, others) /\ UNCHANGED exposed
  <2>1. Outcome(t, others)
    BY <1>3, <1>5, IdleOutcome DEF Idle
  <2> QED BY <2>1, <1>5 DEF TypeOK
<1>6. CASE ~ Len(q) < FlushThreshold /\ Flush(t, q, hidden, stored, others)
  <2>1. q # << >>
    BY <1>3, <1>6, Constants, EmptySeq
  <2> QED BY <1>3, <1>6, <2>1, FlushOutcome
<1> QED BY <1>4, <1>5, <1>6

(* Push keeps every request and starts at most the fetch of tab t.         *)
LEMMA PushOutcome ==
  ASSUME TypeOK, NEW t \in Tabs, NEW q \in Seq(Events), Push(t, q)
  PROVE  Outcome(t, requests)
<1>0. /\ queue \in [Tabs -> Seq(Events)] /\ backup \in Seq(Events)
      /\ flight \in [Tabs -> Flight] /\ requests \in [Senders -> Request]
      /\ Len(flight[t].batch) <= RequestBatchLimit
      /\ flight[t].batch # << >> <=> requests[t] # NoRequest
  BY DEF TypeOK, Flight, InFlight
<1>1. CASE Len(q) >= FlushThreshold /\ ~ InFlight(t)
  <2>1. Fetch(t, q, FALSE, backup, requests)
    BY <1>1 DEF Push
  <2>2. q # << >>
    <3>1. Len(q) >= FlushThreshold
      BY <1>1
    <3> QED BY <3>1, Constants, EmptySeq
  <2>3. requests[t] = NoRequest
    BY <1>1 DEF TypeOK, InFlight
  <2> QED BY <1>0, <2>1, <2>2, <2>3, FetchOutcome DEF Fetch
<1>2. CASE ~ (Len(q) >= FlushThreshold /\ ~ InFlight(t))
  <2>1. queue' = [queue EXCEPT ![t] = q] /\ UNCHANGED <<flight, backup, requests>>
    BY <1>2 DEF Push
  <2> QED BY <1>0, <2>1, Constants DEF Outcome
<1> QED BY <1>1, <1>2

-----------------------------------------------------------------------------
(* A closed page waits for no answer: Open starts from an empty place.     *)
Shut == \A t \in Tabs : ~ page[t] => requests[t] = NoRequest

(* TypeOK is inductive together with Shut; its part about the tabs, ...    *)
TabsInv ==
  /\ page \in [Tabs -> BOOLEAN]
  /\ queue \in [Tabs -> Seq(Events)]
  /\ flight \in [Tabs -> Flight]
  /\ backup \in Seq(Events)
  /\ requests \in [Senders -> Request]
  /\ created \in 0 .. MaxEvents
  /\ exposed \subseteq Events
  /\ \A t \in Tabs : /\ Len(flight[t].batch) <= RequestBatchLimit
                     /\ flight[t].batch # << >> <=> requests[t] # NoRequest
                     /\ ~ page[t] => requests[t] = NoRequest

(* ... and its part about the server.                                      *)
ServerInv ==
  /\ seen \subseteq Events
  /\ accepted \in [Events -> 0 .. 2]
  /\ forgotten \subseteq Events
  /\ dropped \subseteq Events
  /\ restarts \in 0 .. MaxRestarts

TypeInv == TabsInv /\ ServerInv

LEMMA TypeParts == TypeInv => TypeOK /\ Shut /\ TabsInv /\ ServerInv
BY DEF TypeInv, TypeOK, Shut, TabsInv, ServerInv, InFlight, Request, Flight

LEMMA OutcomeTyped ==
  ASSUME TabsInv, NEW t \in Tabs, NEW others \in [Senders -> Request],
         Outcome(t, others),
         \A u \in Tabs \ {t} : others[u] = requests[u],
         page' \in [Tabs -> BOOLEAN], page'[t],
         \A u \in Tabs \ {t} : page'[u] = page[u],
         created' \in 0 .. MaxEvents, exposed' \subseteq Events
  PROVE  TabsInv'
<1>1. ASSUME NEW u \in Tabs
      PROVE  /\ Len(flight'[u].batch) <= RequestBatchLimit
             /\ flight'[u].batch # << >> <=> requests'[u] # NoRequest
             /\ ~ page'[u] => requests'[u] = NoRequest
  <2>1. CASE u = t
    BY <2>1 DEF Outcome
  <2>2. CASE u # t
    <3>1. /\ flight'[u] = flight[u] /\ requests'[u] = requests[u]
          /\ page'[u] = page[u]
      BY <2>2 DEF Outcome
    <3> QED BY <3>1 DEF TabsInv
  <2> QED BY <2>1, <2>2
<1> QED BY <1>1 DEF TabsInv, Outcome

(* The answer to a request empties its place; the rest is as in Outcome.   *)
LEMMA AnswerOutcome ==
  ASSUME TypeInv, NEW s \in Senders, requests[s] # NoRequest,
         NEW ok \in BOOLEAN, Answer(s, ok)
  PROVE  /\ TabsInv'
         /\ requests'[s].batch = {}
         /\ \A u \in Senders \ {s} :
              \/ requests'[u] = requests[u]
              \/ requests[u] = NoRequest /\ requests'[u].batch = {}
<1>1. /\ TabsInv /\ TypeOK
      /\ Without(s) \in [Senders -> Request]
      /\ Without(s)[s] = NoRequest
      /\ \A u \in Senders \ {s} : Without(s)[u] = requests[u]
  BY TypeParts, RequestTypes DEF Without, TypeOK
<1>2. CASE s \in Tabs
  <2> DEFINE others == Without(s)
  <2>1. Continue(s, ok, others) /\ UNCHANGED <<page, created>>
    BY <1>2 DEF Answer
  <2>2. page[s]
    BY <1>1, <1>2 DEF TabsInv
  <2>3. \A u \in Tabs \ {s} : others[u] = requests[u]
    BY <1>1, Constants
  <2> HIDE DEF others
  <2>4. Outcome(s, others) /\ exposed' \subseteq Events
    BY <1>1, <1>2, <2>1, ContinueOutcome DEF others
  <2>5. TabsInv'
    <3>1. page' \in [Tabs -> BOOLEAN] /\ page' = page /\ created' \in 0 .. MaxEvents
      BY <1>1, <2>1 DEF TabsInv
    <3> QED BY <1>1, <1>2, <2>2, <2>3, <2>4, <3>1, OutcomeTyped DEF others
  <2>6. \A u \in Senders : \/ requests'[u] = others[u]
                           \/ others[u] = NoRequest /\ requests'[u].batch = {}
    BY <2>4 DEF Outcome
  <2> QED BY <1>1, <2>5, <2>6, RequestTypes DEF others
<1>3. CASE s \notin Tabs
  <2>1. requests' = Without(s) /\ UNCHANGED <<page, queue, flight, backup, created, exposed>>
    BY <1>3 DEF Answer
  <2>2. \A u \in Tabs : requests'[u] = requests[u]
    BY <1>1, <1>3, <2>1, Constants
  <2>3. TabsInv'
    BY <1>1, <2>1, <2>2 DEF TabsInv
  <2> QED BY <1>1, <2>1, <2>3, RequestTypes
<1> QED BY <1>2, <1>3

(* What the tabs do on their own, and the requests they keep.              *)
LEMMA OpenOutcome ==
  ASSUME TypeInv, NEW t \in Tabs, Open(t)
  PROVE  TabsInv' /\ Outcome(t, requests)
<1>0. /\ TabsInv /\ TypeOK /\ New \in Events
      /\ requests \in [Senders -> Request] /\ requests[t] = NoRequest
  BY TypeParts, Constants DEF Open, Shut, TabsInv, New, Events
<1>1. Outcome(t, requests)
  <2>1. CASE backup = << >>
    <3>1. Push(t, <<New>>) /\ <<New>> \in Seq(Events)
      BY <1>0, <2>1 DEF Open
    <3> QED BY <1>0, <3>1, PushOutcome
  <2>2. CASE backup # << >>
    <3> DEFINE q == Append(Rest(backup), New)
               f == First(backup)
               r == Sent(First(backup))
    <3>1. backup \in Seq(Events) /\ q \in Seq(Events)
          /\ f \in Seq(Events) /\ f # << >> /\ Len(f) <= RequestBatchLimit
      BY <1>0, <2>2, Cuts, AppendProperties DEF TabsInv
    <3>2. r \in Request /\ r.batch = {} /\ r # NoRequest
      BY <3>1, RequestTypes
    <3>3. /\ queue' = [queue EXCEPT ![t] = q]
          /\ flight' = [flight EXCEPT ![t].batch = f]
          /\ requests' = [requests EXCEPT ![t] = r]
          /\ backup' = backup
      BY <2>2 DEF Open
    <3> HIDE DEF q, f, r
    <3>4. /\ queue' \in [Tabs -> Seq(Events)]
          /\ requests' \in [Senders -> Request] /\ requests'[t] = r
          /\ \A u \in Senders \ {t} : requests'[u] = requests[u]
      BY <1>0, <3>1, <3>2, <3>3, Constants DEF TabsInv
    <3>5. /\ flight' \in [Tabs -> Flight] /\ flight'[t].batch = f
          /\ \A u \in Tabs \ {t} : flight'[u] = flight[u]
      <4>1. flight \in [Tabs -> Flight] /\ flight' = [flight EXCEPT ![t] = [@ EXCEPT !.batch = f]]
        BY <1>0, <3>3 DEF TabsInv
      <4>2. [flight[t] EXCEPT !.batch = f] \in Flight /\ [flight[t] EXCEPT !.batch = f].batch = f
        BY <4>1, <3>1 DEF Flight
      <4> QED BY <4>1, <4>2
    <3> QED BY <1>0, <3>1, <3>2, <3>3, <3>4, <3>5, Constants DEF Outcome
  <2> QED BY <2>1, <2>2
<1>2. /\ page' \in [Tabs -> BOOLEAN] /\ page'[t]
      /\ \A u \in Tabs \ {t} : page'[u] = page[u]
      /\ created' \in 0 .. MaxEvents /\ exposed' \subseteq Events
  BY <1>0, Constants DEF Open, New, TabsInv
<1> QED BY <1>0, <1>1, <1>2, OutcomeTyped

LEMMA RecordOutcome ==
  ASSUME TypeInv, NEW t \in Tabs, Record(t)
  PROVE  TabsInv' /\ Outcome(t, requests)
<1>0. TabsInv /\ TypeOK /\ New \in Events /\ requests \in [Senders -> Request]
  BY TypeParts, Constants DEF Record, TabsInv, New, Events
<1>1. Append(queue[t], New) \in Seq(Events)
  BY <1>0, AppendProperties DEF TabsInv
<1>2. Outcome(t, requests)
  BY <1>0, <1>1, PushOutcome DEF Record
<1>3. /\ page' = page /\ page \in [Tabs -> BOOLEAN] /\ page[t]
      /\ created' \in 0 .. MaxEvents /\ exposed' \subseteq Events
  BY <1>0, Constants DEF Record, New, TabsInv
<1> QED BY <1>0, <1>2, <1>3, OutcomeTyped

LEMMA TimedOutcome ==
  ASSUME TypeInv, NEW t \in Tabs, Interval(t) \/ Hide(t)
  PROVE  TabsInv' /\ Outcome(t, requests)
<1>0. TabsInv /\ TypeOK /\ requests \in [Senders -> Request]
  BY TypeParts DEF TabsInv
<1>1. /\ queue[t] \in Seq(Events) /\ queue[t] # << >> /\ requests[t] = NoRequest
      /\ backup \in Seq(Events) /\ page[t]
      /\ UNCHANGED <<page, created>>
  BY <1>0 DEF TabsInv, Interval, Hide, Due, InFlight
<1>2. PICK hidden \in BOOLEAN : Flush(t, queue[t], hidden, backup, requests)
  BY DEF Interval, Hide
<1>3. Outcome(t, requests) /\ exposed' \subseteq Events
  BY <1>0, <1>1, <1>2, FlushOutcome
<1>4. page' \in [Tabs -> BOOLEAN] /\ page'[t] /\ created' \in 0 .. MaxEvents
  BY <1>0, <1>1 DEF TabsInv
<1> QED BY <1>0, <1>1, <1>3, <1>4, OutcomeTyped

(* Close and GiveUp leave the request of the tab to a stray place.         *)
Left(t, o) ==
  /\ requests[o] = NoRequest
  /\ requests'[o] = requests[t]
  /\ requests'[t].batch = {}
  /\ \A u \in Senders \ {t, o} :
       \/ requests'[u] = requests[u]
       \/ requests[u] = NoRequest /\ requests'[u].batch = {}

LEMMA CloseOutcome ==
  ASSUME TypeInv, NEW t \in Tabs, Close(t)
  PROVE  /\ TabsInv'
         /\ requests' = requests \/ \E o \in Strays : Left(t, o)
<1>0. TabsInv
  BY TypeParts
<1>1. /\ page' \in [Tabs -> BOOLEAN] /\ ~ page'[t]
      /\ \A u \in Tabs \ {t} : page'[u] = page[u]
      /\ queue' \in [Tabs -> Seq(Events)]
      /\ backup' \in Seq(Events) /\ created' \in 0 .. MaxEvents
  BY <1>0, EmptySeq DEF Close, TabsInv
<1>2. /\ flight' \in [Tabs -> Flight] /\ flight'[t] = NoFlush
      /\ \A u \in Tabs \ {t} : flight'[u] = flight[u]
  <2>1. flight' = [flight EXCEPT ![t] = NoFlush] /\ flight \in [Tabs -> Flight]
    BY <1>0 DEF Close, TabsInv
  <2> QED BY <2>1, RequestTypes
<1>3. exposed' \subseteq Events
  <2>1. flight[t].batch \o queue[t] \in Seq(Events)
    BY <1>0, ConcatProperties DEF TabsInv, Flight
  <2>2. Members(flight[t].batch \o queue[t]) \subseteq Events
    BY <2>1, MembersType
  <2> QED BY <1>0, <2>2 DEF Close, TabsInv
<1>4. /\ requests' \in [Senders -> Request] /\ requests'[t] = NoRequest
      /\ \A u \in Tabs \ {t} : requests'[u] = requests[u]
      /\ requests' = requests \/ \E o \in Strays : Left(t, o)
  <2>1. CASE requests[t] = NoRequest
    BY <1>0, <2>1 DEF Close, TabsInv
  <2>2. ASSUME NEW o \in Strays, requests[o] = NoRequest,
               requests' = [requests EXCEPT ![o] = requests[t], ![t] = NoRequest]
        PROVE  /\ requests' \in [Senders -> Request] /\ requests'[t] = NoRequest
               /\ \A u \in Tabs \ {t} : requests'[u] = requests[u]
               /\ Left(t, o)
    BY <1>0, <2>2, Constants, RequestTypes DEF TabsInv, Left
  <2> QED BY <2>1, <2>2 DEF Close
<1>5. Len(NoFlush.batch) <= RequestBatchLimit /\ NoFlush.batch = << >>
  BY RequestTypes, Constants, EmptySeq
<1> QED BY <1>0, <1>1, <1>2, <1>3, <1>4, <1>5 DEF TabsInv

LEMMA GiveUpOutcome ==
  ASSUME TypeInv, NEW t \in Tabs, GiveUp(t)
  PROVE  TabsInv' /\ \E o \in Strays : Left(t, o)
<1>0. TabsInv /\ TypeOK /\ page[t]
  BY TypeParts DEF Shut, GiveUp
<1>1. PICK o \in Strays :
        /\ requests[o] = NoRequest
        /\ Continue(t, FALSE, [Without(t) EXCEPT ![o] = requests[t]])
  BY DEF GiveUp
<1> DEFINE others == [Without(t) EXCEPT ![o] = requests[t]]
<1>2. /\ others \in [Senders -> Request]
      /\ others[t] = NoRequest /\ others[o] = requests[t] /\ requests[t] # NoRequest
      /\ \A u \in Senders \ {t, o} : others[u] = requests[u]
      /\ \A u \in Tabs \ {t} : others[u] = requests[u]
  BY <1>0, Constants, RequestTypes DEF Without, TabsInv, GiveUp
<1>3. Continue(t, FALSE, others)
  BY <1>1
<1> HIDE DEF others
<1>4. Outcome(t, others) /\ exposed' \subseteq Events
  BY <1>0, <1>2, <1>3, ContinueOutcome
<1>5. TabsInv'
  <2>1. /\ page' = page /\ page \in [Tabs -> BOOLEAN]
        /\ created' \in 0 .. MaxEvents
    BY <1>0 DEF GiveUp, TabsInv
  <2> QED BY <1>0, <1>2, <1>4, <2>1, OutcomeTyped
<1>6. Left(t, o)
  <2>1. \A u \in Senders : \/ requests'[u] = others[u]
                           \/ others[u] = NoRequest /\ requests'[u].batch = {}
    BY <1>4 DEF Outcome
  <2> QED BY <1>1, <1>2, <2>1, RequestTypes, Constants DEF Left
<1> QED BY <1>5, <1>6

(* A step of a handler on the request of s that is not yet its last.       *)
LEMMA AdvanceTyped ==
  ASSUME TabsInv, NEW s \in Senders, NEW r \in Request, r # NoRequest,
         requests[s] # NoRequest,
         requests' = [requests EXCEPT ![s] = r],
         UNCHANGED <<page, queue, flight, backup, created, exposed>>
  PROVE  TabsInv'
<1>1. /\ requests' \in [Senders -> Request] /\ requests'[s] # NoRequest
      /\ \A u \in Senders \ {s} : requests'[u] = requests[u]
  BY DEF TabsInv
<1>2. \A u \in Tabs : requests'[u] # NoRequest <=> requests[u] # NoRequest
  BY <1>1, Constants
<1> QED BY <1>1, <1>2 DEF TabsInv

LEMMA Begun ==
  ASSUME TypeInv, NEW s \in Senders, Begin(s)
  PROVE  /\ TabsInv'
         /\ requests[s].stage = "sent"
         /\ requests'[s].batch = requests[s].batch
         /\ \A u \in Senders \ {s} : requests'[u] = requests[u]
<1> DEFINE r == [requests[s] EXCEPT !.stage = "working"]
<1>1. /\ TabsInv /\ requests \in [Senders -> Request] /\ requests[s] \in Request
      /\ requests[s].stage = "sent"
  BY TypeParts DEF TabsInv, Begin, Passes
<1>2. r \in Request /\ r # NoRequest /\ r.batch = requests[s].batch
      /\ requests[s] # NoRequest
  BY <1>1, RequestTypes DEF Request
<1>3. requests' = [requests EXCEPT ![s] = r]
  BY <1>1 DEF Begin
<1> HIDE DEF r
<1>4. TabsInv'
  BY <1>1, <1>2, <1>3, AdvanceTyped DEF Begin
<1> QED BY <1>1, <1>2, <1>3, <1>4

(* Observe takes the event into the batch, or leaves the batch alone.      *)
LEMMA Observed ==
  ASSUME TypeInv, NEW s \in Senders, Observe(s)
  PROVE  \E e \in Events :
           /\ TabsInv'
           /\ seen' = seen \union {e}
           /\ \/ /\ \A u \in Senders \ {s} : requests'[u] = requests[u]
                 /\ Working(s)' /\ dropped' = dropped
                 /\ \/ requests'[s].batch = requests[s].batch /\ e \in seen
                    \/ requests'[s].batch = requests[s].batch \union {e} /\ e \notin seen
              \/ /\ e \in Unencodable /\ e \notin seen /\ Answer(s, FALSE)
                 /\ dropped' = dropped \union requests[s].batch \union {e}
<1>1. /\ TabsInv /\ requests \in [Senders -> Request] /\ requests[s] \in Request
      /\ requests[s].stage = "working" /\ requests[s] # NoRequest
  BY TypeParts, RequestTypes DEF TabsInv, Observe, Working
<1>2. /\ requests[s].todo \in Seq(Events) /\ requests[s].batch \subseteq Events
      /\ requests[s].todo # << >>
  BY <1>1 DEF Request, Observe
<1> DEFINE e == Head(requests[s].todo)
           r(b) == [requests[s] EXCEPT !.todo = Tail(@), !.batch = b]
           Advanced(b) ==
             /\ requests' = [requests EXCEPT ![s].todo = Tail(@), ![s].batch = b]
             /\ UNCHANGED <<page, queue, flight, backup, created, exposed>>
<1>3. e \in Events /\ Tail(requests[s].todo) \in Seq(Events)
  BY <1>2, HeadTailProperties
<1>4. ASSUME NEW b \in SUBSET Events, Advanced(b)
      PROVE  /\ TabsInv' /\ Working(s)' /\ requests'[s].batch = b
             /\ \A u \in Senders \ {s} : requests'[u] = requests[u]
  <2>1. r(b) \in Request /\ r(b) # NoRequest /\ r(b).batch = b /\ r(b).stage = "working"
    BY <1>1, <1>2, <1>3, RequestTypes DEF Request
  <2>2. requests' = [requests EXCEPT ![s] = r(b)]
    BY <1>1, <1>4
  <2> HIDE DEF r
  <2>3. TabsInv'
    BY <1>1, <1>4, <2>1, <2>2, AdvanceTyped
  <2> QED BY <1>1, <2>1, <2>2, <2>3 DEF Working
<1>5. CASE e \in seen
  <2>1. Advanced(requests[s].batch) /\ seen' = seen /\ dropped' = dropped
    BY <1>5 DEF Observe
  <2> HIDE DEF Advanced, e
  <2>2. /\ TabsInv' /\ Working(s)' /\ requests'[s].batch = requests[s].batch
        /\ \A u \in Senders \ {s} : requests'[u] = requests[u]
    BY <1>2, <1>4, <2>1
  <2> QED BY <1>3, <1>5, <2>1, <2>2
<1>6. CASE e \notin seen /\ e \notin Unencodable
  <2>1. /\ Advanced(requests[s].batch \union {e})
        /\ seen' = seen \union {e} /\ dropped' = dropped
    BY <1>6 DEF Observe, Remember
  <2> HIDE DEF Advanced, e
  <2>2. requests[s].batch \union {e} \in SUBSET Events
    BY <1>2, <1>3
  <2>3. /\ TabsInv' /\ Working(s)' /\ requests'[s].batch = requests[s].batch \union {e}
        /\ \A u \in Senders \ {s} : requests'[u] = requests[u]
    BY <1>4, <2>1, <2>2
  <2> QED BY <1>3, <1>6, <2>1, <2>3
<1>7. CASE e \notin seen /\ e \in Unencodable
  <2>1. /\ Answer(s, FALSE) /\ seen' = seen \union {e}
        /\ dropped' = dropped \union requests[s].batch \union {e}
    BY <1>7 DEF Observe, Remember, Dropping
  <2>2. TabsInv'
    BY <1>1, <2>1, AnswerOutcome
  <2> HIDE DEF e
  <2> QED BY <1>3, <1>7, <2>1, <2>2
<1> QED BY <1>5, <1>6, <1>7

(* The other answers: the request ends, and it was a real one.             *)
LEMMA Ended ==
  ASSUME TypeInv, NEW s \in Senders,
         Reject(s) \/ Accept(s) \/ AcceptUnheard(s) \/ Refuse(s)
  PROVE  /\ TabsInv'
         /\ requests'[s].batch = {}
         /\ \A u \in Senders \ {s} :
              \/ requests'[u] = requests[u]
              \/ requests[u] = NoRequest /\ requests'[u].batch = {}
<1>1. requests[s] # NoRequest
  BY RequestTypes DEF Reject, Accept, AcceptUnheard, Refuse, Enqueue, Working
<1>2. PICK ok \in BOOLEAN : Answer(s, ok)
  BY DEF Reject, Accept, AcceptUnheard, Refuse
<1> QED BY <1>1, <1>2, AnswerOutcome

LEMMA Restarted ==
  ASSUME TypeInv, Restart
  PROVE  /\ TabsInv'
         /\ \A s \in Senders : requests'[s].batch \subseteq requests[s].batch
<1> DEFINE gone == [NoRequest EXCEPT !.stage = "gone"]
<1>1. /\ TabsInv /\ requests \in [Senders -> Request]
      /\ requests' = [s \in Senders |-> IF Working(s) THEN gone ELSE requests[s]]
      /\ UNCHANGED <<page, queue, flight, backup, created>>
  BY TypeParts DEF Restart, TabsInv
<1>2. gone \in Request /\ gone.batch = {} /\ gone # NoRequest
  BY RequestTypes, EmptySeq DEF Request, NoRequest
<1> HIDE DEF gone
<1>3. \A s \in Senders : Working(s) => requests[s] # NoRequest
  BY RequestTypes DEF Working
<1>4. /\ requests' \in [Senders -> Request]
      /\ \A s \in Senders : requests'[s] # NoRequest <=> requests[s] # NoRequest
      /\ \A s \in Senders : requests'[s].batch \subseteq requests[s].batch
  BY <1>1, <1>2, <1>3
<1>5. exposed' \subseteq Events
  <2>1. \A s \in Senders : requests[s].batch \subseteq Events
    BY <1>1 DEF Request
  <2>2. UNION {requests[s].batch : s \in Senders} \subseteq Events
    BY <2>1
  <2>3. exposed' = exposed \union UNION {requests[s].batch : s \in Senders}
    BY DEF Restart
  <2> QED BY <1>1, <2>2, <2>3 DEF TabsInv
<1>6. \A t \in Tabs : requests'[t] # NoRequest <=> requests[t] # NoRequest
  BY <1>4, Constants
<1> QED BY <1>1, <1>4, <1>5, <1>6 DEF TabsInv

(* What Enqueue does to the counts.                                        *)
LEMMA Enqueued ==
  ASSUME TypeInv, NEW s \in Senders, Accept(s) \/ AcceptUnheard(s)
  PROVE  /\ accepted' \in [Events -> 0 .. 2]
         /\ \A e \in Events :
              IF e \in requests[s].batch /\ accepted[e] < 2
              THEN accepted'[e] = accepted[e] + 1 ELSE accepted'[e] = accepted[e]
         /\ UNCHANGED <<seen, forgotten, dropped, restarts>>
<1>1. accepted \in [Events -> 0 .. 2]
  BY TypeParts DEF ServerInv
<1>2. Enqueue(s)
  BY DEF Accept, AcceptUnheard
<1>3. \A e \in Events : accepted[e] \in 0 .. 2
  BY <1>1
<1>4. \A e \in Events :
        (IF e \in requests[s].batch /\ accepted[e] < 2 THEN accepted[e] + 1
         ELSE accepted[e]) \in 0 .. 2
  BY <1>3
<1> QED BY <1>2, <1>4 DEF Enqueue

LEMMA TypeInit == Init => TypeInv
<1> SUFFICES ASSUME Init PROVE TabsInv /\ ServerInv
  BY DEF TypeInv
<1>1. TabsInv
  BY RequestTypes, Constants, EmptySeq DEF Init, TrackerInit, TabsInv
<1>2. ServerInv
  BY Constants DEF Init, ServerInv
<1> QED BY <1>1, <1>2

LEMMA TypeTab ==
  ASSUME TypeInv, NEW t \in Tabs, Browse(t) \/ GiveUp(t)
  PROVE  TypeInv'
<1>1. ServerInv'
  BY TypeParts DEF ServerInv, Browse, GiveUp, serverVars
<1>2. TabsInv'
  BY OpenOutcome, RecordOutcome, TimedOutcome, CloseOutcome, GiveUpOutcome
  DEF Browse, TabStep
<1> QED BY <1>1, <1>2 DEF TypeInv

LEMMA TypeHandler ==
  ASSUME TypeInv, NEW s \in Senders, HandlerStep(s) \/ Reject(s)
  PROVE  TypeInv'
<1>0. ServerInv
  BY TypeParts
<1>1. CASE Begin(s)
  <2>1. ServerInv'
    BY <1>0, <1>1 DEF ServerInv, Begin, serverVars
  <2> QED BY <1>1, <2>1, Begun DEF TypeInv
<1>2. CASE Observe(s)
  <2>1. TabsInv' /\ seen' \subseteq Events /\ dropped' \subseteq Events
    <3>1. requests[s].batch \subseteq Events
      BY TypeParts DEF TabsInv, Request
    <3> QED BY <1>0, <1>2, <3>1, Observed DEF ServerInv
  <2>2. ServerInv'
    BY <1>0, <1>2, <2>1 DEF ServerInv, Observe
  <2> QED BY <2>1, <2>2 DEF TypeInv
<1>3. CASE Accept(s) \/ AcceptUnheard(s)
  <2>1. ServerInv'
    BY <1>0, <1>3, Enqueued DEF ServerInv
  <2> QED BY <1>3, <2>1, Ended DEF TypeInv
<1>4. CASE Refuse(s) \/ Reject(s)
  <2>1. ServerInv'
    <3>1. requests[s].batch \subseteq Events
      BY TypeParts DEF TabsInv, Request
    <3> QED BY <1>0, <1>4, <3>1 DEF ServerInv, Refuse, Dropping, Reject, serverVars
  <2> QED BY <1>4, <2>1, Ended DEF TypeInv
<1> QED BY <1>1, <1>2, <1>3, <1>4 DEF HandlerStep

LEMMA TypeForget ==
  ASSUME TypeInv, NEW e \in Events, Forget(e)
  PROVE  TypeInv'
<1>1. TabsInv'
  BY TypeParts DEF TabsInv, Forget, trackerVars
<1>2. ServerInv'
  BY TypeParts DEF ServerInv, Forget
<1> QED BY <1>1, <1>2 DEF TypeInv

LEMMA TypeRestart ==
  ASSUME TypeInv, Restart
  PROVE  TypeInv'
<1>1. ServerInv'
  BY TypeParts, Constants DEF ServerInv, Restart, NoneSeen
<1> QED BY <1>1, Restarted DEF TypeInv

LEMMA TypeStep ==
  ASSUME TypeInv, [Next]_vars
  PROVE  TypeInv'
<1>1. CASE UNCHANGED vars
  <2>1. TabsInv' /\ ServerInv'
    BY <1>1, TypeParts DEF vars, trackerVars, serverVars, TabsInv, ServerInv
  <2> QED BY <2>1 DEF TypeInv
<1>2. CASE Next
  BY <1>2, TypeTab, TypeHandler, TypeForget, TypeRestart DEF Next
<1> QED BY <1>1, <1>2

(* Every variable keeps its type, a batch its limit, and a tab waits for   *)
(* an answer exactly while its flush is at work.                           *)
THEOREM CollectTypeCorrect == Spec => []TypeOK
<1>1. TypeInv => TypeOK
  BY TypeParts
<1> QED BY <1>1, TypeInit, TypeStep, PTL DEF Spec

-----------------------------------------------------------------------------
(* AcceptedOnce, strengthened: of an event whose id is remembered or was   *)
(* never met, at most one handler holds a copy, only as long as none was   *)
(* accepted, and whatever is held or accepted is remembered.               *)
OnceFor(e) ==
  /\ accepted[e] <= 1
  /\ accepted[e] > 0 => e \in seen
  /\ \A s \in Senders : e \in requests[s].batch => e \in seen /\ accepted[e] = 0
  /\ \A s, u \in Senders :
       e \in requests[s].batch /\ e \in requests[u].batch => s = u

Once == \A e \in Events \ forgotten : OnceFor(e)

(* Nothing is added to a batch, and no event but a forgotten one leaves    *)
(* seen.                                                                   *)
LEMMA OnceKept ==
  ASSUME Once, forgotten \subseteq forgotten',
         \A s \in Senders : requests'[s].batch \subseteq requests[s].batch,
         \A e \in Events \ forgotten' :
           (e \in seen => e \in seen') /\ accepted'[e] = accepted[e]
  PROVE  Once'
<1> SUFFICES ASSUME NEW e \in Events \ forgotten' PROVE OnceFor(e)'
  BY DEF Once
<1>1. OnceFor(e)
  BY DEF Once
<1> QED BY <1>1 DEF OnceFor

LEMMA OnceLeft ==
  ASSUME TypeInv, Once, NEW t \in Tabs, NEW o \in Strays, Left(t, o),
         UNCHANGED serverVars
  PROVE  Once'
<1> SUFFICES ASSUME NEW e \in Events \ forgotten PROVE OnceFor(e)'
  BY DEF Once, serverVars
<1>1. OnceFor(e) /\ t \in Senders /\ o \in Senders /\ t # o
  BY Constants DEF Once
<1> DEFINE from(s) == IF s = o THEN t ELSE s
<1>2. ASSUME NEW s \in Senders, e \in requests'[s].batch
      PROVE  s # t /\ from(s) \in Senders /\ e \in requests[from(s)].batch
  BY <1>1, <1>2 DEF Left
<1>3. \A s \in Senders : e \in requests'[s].batch => e \in seen /\ accepted[e] = 0
  BY <1>1, <1>2 DEF OnceFor
<1>4. ASSUME NEW s \in Senders, NEW u \in Senders,
             e \in requests'[s].batch, e \in requests'[u].batch
      PROVE  s = u
  <2>1. from(s) = from(u) /\ s # t /\ u # t
    BY <1>1, <1>2, <1>4 DEF OnceFor
  <2> QED BY <2>1
<1>5. accepted' = accepted /\ seen' = seen
  BY DEF serverVars
<1> QED BY <1>1, <1>3, <1>4, <1>5 DEF OnceFor

LEMMA OnceTab ==
  ASSUME TypeInv, Once, NEW t \in Tabs, Browse(t) \/ GiveUp(t)
  PROVE  Once'
<1>1. UNCHANGED serverVars
  BY DEF Browse, GiveUp
<1>2. \/ Outcome(t, requests) \/ requests' = requests
      \/ \E o \in Strays : Left(t, o)
  BY OpenOutcome, RecordOutcome, TimedOutcome, CloseOutcome, GiveUpOutcome
  DEF Browse, TabStep
<1>3. CASE \E o \in Strays : Left(t, o)
  BY <1>1, <1>3, OnceLeft
<1>4. CASE Outcome(t, requests) \/ requests' = requests
  <2>1. \A s \in Senders : requests'[s].batch \subseteq requests[s].batch
    BY <1>4 DEF Outcome
  <2> QED BY <1>1, <2>1, OnceKept DEF serverVars
<1> QED BY <1>2, <1>3, <1>4

LEMMA EndedSmaller ==
  ASSUME NEW s \in Senders, requests'[s].batch = {},
         \A u \in Senders \ {s} :
           \/ requests'[u] = requests[u]
           \/ requests[u] = NoRequest /\ requests'[u].batch = {}
  PROVE  \A u \in Senders : requests'[u].batch \subseteq requests[u].batch
OBVIOUS

LEMMA OnceObserve ==
  ASSUME TypeInv, Once, NEW s \in Senders, Observe(s)
  PROVE  Once'
<1>1. PICK e \in Events :
        /\ seen' = seen \union {e}
        /\ \/ /\ \A u \in Senders \ {s} : requests'[u] = requests[u]
              /\ \/ requests'[s].batch = requests[s].batch
                 \/ requests'[s].batch = requests[s].batch \union {e} /\ e \notin seen
           \/ Answer(s, FALSE)
  BY Observed
<1>2. accepted' = accepted /\ forgotten' = forgotten
  BY DEF Observe
<1>3. CASE \A u \in Senders : requests'[u].batch \subseteq requests[u].batch
  BY <1>1, <1>2, <1>3, OnceKept
<1>4. CASE /\ \A u \in Senders \ {s} : requests'[u] = requests[u]
           /\ requests'[s].batch = requests[s].batch \union {e} /\ e \notin seen
  <2> SUFFICES ASSUME NEW x \in Events \ forgotten PROVE OnceFor(x)'
    BY <1>2 DEF Once
  <2>1. OnceFor(x) /\ accepted[x] \in 0 .. 2
    BY TypeParts DEF Once, ServerInv
  <2>2. CASE x # e
    BY <1>1, <1>2, <1>4, <2>1, <2>2 DEF OnceFor
  <2>3. CASE x = e
    <3>1. accepted[x] = 0 /\ \A u \in Senders : x \notin requests[u].batch
      BY <1>4, <2>1, <2>3 DEF OnceFor
    <3> QED BY <1>1, <1>2, <1>4, <2>3, <3>1 DEF OnceFor
  <2> QED BY <2>2, <2>3
<1>5. CASE Answer(s, FALSE)
  <2>1. requests[s] # NoRequest
    BY RequestTypes DEF Observe, Working
  <2> QED BY <1>3, <1>5, <2>1, AnswerOutcome, EndedSmaller
<1> QED BY <1>1, <1>3, <1>4, <1>5

LEMMA OnceAccept ==
  ASSUME TypeInv, Once, NEW s \in Senders, Accept(s) \/ AcceptUnheard(s)
  PROVE  Once'
<1>1. /\ requests'[s].batch = {}
      /\ \A u \in Senders : requests'[u].batch \subseteq requests[u].batch
  BY Ended, EndedSmaller
<1> SUFFICES ASSUME NEW e \in Events \ forgotten PROVE OnceFor(e)'
  BY Enqueued DEF Once
<1>2. OnceFor(e) /\ accepted[e] \in 0 .. 2
  BY TypeParts DEF Once, ServerInv
<1>3. CASE e \in requests[s].batch
  <2>1. accepted[e] = 0 /\ e \in seen
    BY <1>2, <1>3 DEF OnceFor
  <2>2. accepted'[e] = 1 /\ seen' = seen
    BY <1>3, <2>1, Enqueued
  <2>3. \A u \in Senders : e \notin requests'[u].batch
    BY <1>1, <1>2, <1>3 DEF OnceFor
  <2> QED BY <2>1, <2>2, <2>3 DEF OnceFor
<1>4. CASE e \notin requests[s].batch
  <2>1. accepted'[e] = accepted[e] /\ seen' = seen
    BY <1>4, Enqueued
  <2> QED BY <1>1, <1>2, <2>1 DEF OnceFor
<1> QED BY <1>3, <1>4

LEMMA OnceHandler ==
  ASSUME TypeInv, Once, NEW s \in Senders, HandlerStep(s) \/ Reject(s)
  PROVE  Once'
<1>1. CASE Begin(s)
  <2>1. UNCHANGED serverVars /\ \A u \in Senders : requests'[u].batch \subseteq requests[u].batch
    BY <1>1, Begun DEF Begin
  <2> QED BY <2>1, OnceKept DEF serverVars
<1>2. CASE Refuse(s) \/ Reject(s)
  <2>1. /\ UNCHANGED <<seen, accepted, forgotten>>
        /\ \A u \in Senders : requests'[u].batch \subseteq requests[u].batch
    BY <1>2, Ended, EndedSmaller DEF Refuse, Reject, serverVars
  <2> QED BY <2>1, OnceKept
<1> QED BY <1>1, <1>2, OnceObserve, OnceAccept DEF HandlerStep

LEMMA OnceForget ==
  ASSUME Once, NEW e \in Events, Forget(e)
  PROVE  Once'
<1>1. \A s \in Senders : requests'[s].batch \subseteq requests[s].batch
  BY DEF Forget, trackerVars
<1> QED BY <1>1, OnceKept DEF Forget

LEMMA OnceRestart ==
  ASSUME TypeInv, Once, Restart
  PROVE  Once'
BY Restarted, OnceKept DEF Restart

LEMMA OnceStep ==
  ASSUME TypeInv, Once, [Next]_vars
  PROVE  Once'
<1>1. CASE UNCHANGED vars
  BY <1>1, OnceKept DEF vars, trackerVars, serverVars
<1>2. CASE Next
  BY <1>2, OnceTab, OnceHandler, OnceForget, OnceRestart DEF Next
<1> QED BY <1>1, <1>2

LEMMA OnceInit == Init => Once
<1> SUFFICES ASSUME Init, NEW e \in Events PROVE OnceFor(e)
  BY DEF Once
<1>1. accepted[e] = 0 /\ \A s \in Senders : requests[s].batch = {}
  BY RequestTypes DEF Init, TrackerInit
<1> QED BY <1>1 DEF OnceFor

(* The batch writer is given an event once, however many tabs, retries and *)
(* beacons send it and however their handlers interleave, unless the       *)
(* server forgot its id.                                                   *)
THEOREM AcceptedOnceHolds == Spec => []AcceptedOnce
<1>1. Init => TypeInv /\ Once
  BY TypeInit, OnceInit
<1>2. TypeInv /\ Once /\ [Next]_vars => (TypeInv /\ Once)'
  BY TypeStep, OnceStep
<1>3. Once => AcceptedOnce
  BY DEF Once, OnceFor, AcceptedOnce
<1> QED BY <1>1, <1>2, <1>3, PTL DEF Spec

-----------------------------------------------------------------------------
(* What a handler holds stays in a handler, is accepted or was dropped, and *)
(* an id is remembered only of what a handler holds or drops.              *)
Keeps ==
  /\ dropped \subseteq dropped'
  /\ \A e \in Events : accepted[e] > 0 => accepted'[e] > 0
  /\ \A s \in Senders : Working(s) =>
       \/ \E u \in Senders : Working(u)' /\ requests[s].batch \subseteq requests'[u].batch
       \/ \A e \in requests[s].batch : accepted'[e] > 0 \/ e \in dropped'
  /\ \A e \in seen' \ seen :
       \/ e \in dropped'
       \/ \E u \in Senders : Working(u)' /\ e \in requests'[u].batch

(* What a tab does on its own moves a handler at most to another place.    *)
LEMMA TabBatches ==
  ASSUME TypeInv, NEW t \in Tabs, Browse(t) \/ GiveUp(t)
  PROVE  \A s \in Senders : Working(s) =>
           \E u \in Senders : Working(u)' /\ requests[s].batch \subseteq requests'[u].batch
<1>1. \/ Outcome(t, requests) \/ requests' = requests
      \/ \E o \in Strays : Left(t, o)
  BY OpenOutcome, RecordOutcome, TimedOutcome, CloseOutcome, GiveUpOutcome
  DEF Browse, TabStep
<1>2. ASSUME NEW s \in Senders, Working(s)
      PROVE  \E u \in Senders : requests'[u] = requests[s]
  <2>1. requests[s] # NoRequest
    BY <1>2, RequestTypes DEF Working
  <2>2. CASE Outcome(t, requests) \/ requests' = requests
    BY <2>1, <2>2 DEF Outcome
  <2>3. ASSUME NEW o \in Strays, Left(t, o)
        PROVE  \/ requests'[s] = requests[s]
               \/ s = t /\ requests'[o] = requests[s]
    BY <2>1, <2>3 DEF Left
  <2> QED BY <1>1, <2>2, <2>3, Constants
<1> QED BY <1>2 DEF Working

LEMMA TabKeeps ==
  ASSUME TypeInv, NEW t \in Tabs, Browse(t) \/ GiveUp(t)
  PROVE  Keeps
<1>1. UNCHANGED <<seen, accepted, dropped>>
  BY DEF Browse, GiveUp, serverVars
<1> QED BY <1>1, TabBatches DEF Keeps

LEMMA ObserveKeeps ==
  ASSUME TypeInv, NEW s \in Senders, Observe(s)
  PROVE  Keeps
<1>1. accepted' = accepted
  BY DEF Observe
<1>2. PICK e \in Events :
        /\ seen' = seen \union {e}
        /\ \/ /\ \A u \in Senders \ {s} : requests'[u] = requests[u]
              /\ Working(s)' /\ dropped' = dropped
              /\ \/ requests'[s].batch = requests[s].batch /\ e \in seen
                 \/ requests'[s].batch = requests[s].batch \union {e} /\ e \notin seen
           \/ /\ Answer(s, FALSE)
              /\ dropped' = dropped \union requests[s].batch \union {e}
  BY Observed
<1>3. CASE /\ Answer(s, FALSE)
           /\ dropped' = dropped \union requests[s].batch \union {e}
  <2>1. requests[s] # NoRequest
    BY RequestTypes DEF Observe, Working
  <2>2. \A u \in Senders \ {s} : Working(u) => requests'[u] = requests[u]
    BY <1>3, <2>1, AnswerOutcome, RequestTypes DEF Working
  <2>3. \A u \in Senders : Working(u) =>
          \/ Working(u)' /\ requests[u].batch \subseteq requests'[u].batch
          \/ \A x \in requests[u].batch : x \in dropped'
    BY <1>3, <2>2 DEF Working
  <2> QED BY <1>1, <1>2, <1>3, <2>3 DEF Keeps
<1>4. CASE /\ \A u \in Senders \ {s} : requests'[u] = requests[u]
           /\ Working(s)' /\ dropped' = dropped
           /\ \/ requests'[s].batch = requests[s].batch /\ e \in seen
              \/ requests'[s].batch = requests[s].batch \union {e} /\ e \notin seen
  <2>1. \A u \in Senders : Working(u) =>
          Working(u)' /\ requests[u].batch \subseteq requests'[u].batch
    BY <1>4 DEF Working
  <2> QED BY <1>1, <1>2, <1>4, <2>1 DEF Keeps
<1> QED BY <1>2, <1>3, <1>4

LEMMA HandlerKeeps ==
  ASSUME TypeInv, NEW s \in Senders, HandlerStep(s) \/ Reject(s)
  PROVE  Keeps
<1>1. CASE Begin(s) \/ Reject(s)
  <2>1. UNCHANGED <<seen, accepted, dropped>> /\ ~ Working(s)
    BY <1>1, Begun DEF Begin, Reject, Working, serverVars
  <2>2. \A u \in Senders : Working(u) => requests'[u] = requests[u]
    BY <1>1, <2>1, Begun, Ended, RequestTypes DEF Working
  <2>3. \A u \in Senders : Working(u) => Working(u)' /\ requests'[u] = requests[u]
    BY <2>2 DEF Working
  <2> QED BY <2>1, <2>3 DEF Keeps
<1>2. CASE Refuse(s)
  <2>1. /\ UNCHANGED <<seen, accepted>>
        /\ dropped' = dropped \union requests[s].batch
    BY <1>2 DEF Refuse, Dropping
  <2>2. \A u \in Senders \ {s} : Working(u) => Working(u)' /\ requests'[u] = requests[u]
    BY <1>2, Ended, RequestTypes DEF Working
  <2>3. \A x \in requests[s].batch : x \in dropped'
    BY <2>1
  <2> QED BY <2>1, <2>2, <2>3 DEF Keeps
<1>3. CASE Accept(s) \/ AcceptUnheard(s)
  <2>1. UNCHANGED <<seen, dropped>>
    BY <1>3, Enqueued
  <2>2. \A u \in Senders \ {s} : Working(u) => Working(u)' /\ requests'[u] = requests[u]
    BY <1>3, Ended, RequestTypes DEF Working
  <2>3. \A e \in Events : accepted[e] \in 0 .. 2
    BY TypeParts DEF ServerInv
  <2>4. \A e \in Events : /\ accepted[e] > 0 => accepted'[e] > 0
                          /\ e \in requests[s].batch => accepted'[e] > 0
    BY <1>3, <2>3, Enqueued
  <2>5. requests[s].batch \subseteq Events
    BY TypeParts DEF TabsInv, Request
  <2>6. \A e \in requests[s].batch : accepted'[e] > 0
    BY <2>4, <2>5
  <2> QED BY <2>1, <2>2, <2>4, <2>6 DEF Keeps
<1> QED BY <1>1, <1>2, <1>3, ObserveKeeps DEF HandlerStep

LEMMA ForgetKeeps ==
  ASSUME NEW e \in Events, Forget(e)
  PROVE  Keeps
<1>1. seen' \subseteq seen /\ UNCHANGED <<requests, accepted, dropped>>
  BY DEF Forget, trackerVars
<1> QED BY <1>1 DEF Keeps, Working

LEMMA TakenKept ==
  ASSUME TypeInv, SeenUnlessDropped, Keeps
  PROVE  SeenUnlessDropped'
<1> SUFFICES ASSUME NEW e \in seen', e \notin dropped'
             PROVE  \/ accepted'[e] > 0
                    \/ \E s \in Senders : Working(s)' /\ e \in requests'[s].batch
  BY DEF SeenUnlessDropped
<1>1. CASE e \notin seen
  BY <1>1 DEF Keeps
<1>2. CASE e \in seen
  <2>1. e \in Events /\ e \notin dropped
    BY <1>2, TypeParts DEF ServerInv, Keeps
  <2>2. accepted[e] > 0 \/ \E s \in Senders : Working(s) /\ e \in requests[s].batch
    BY <1>2, <2>1 DEF SeenUnlessDropped
  <2> QED BY <2>1, <2>2 DEF Keeps
<1> QED BY <1>1, <1>2

LEMMA TakenStep ==
  ASSUME TypeInv, SeenUnlessDropped, [Next]_vars
  PROVE  SeenUnlessDropped'
<1>1. CASE UNCHANGED vars
  BY <1>1 DEF vars, trackerVars, serverVars, SeenUnlessDropped, Working
<1>2. CASE Restart
  BY <1>2 DEF Restart, NoneSeen, SeenUnlessDropped
<1>3. CASE Next
  BY <1>2, <1>3, TabKeeps, HandlerKeeps, ForgetKeeps, TakenKept DEF Next
<1> QED BY <1>1, <1>3

(* "Duplicate" means "lost" only where a handler failed after it had the   *)
(* ids remembered: every other event of which an id is remembered is       *)
(* stored, or a handler is about to store it, whatever is retried,         *)
(* overtaken, unheard or restarted.  Nothing is assumed of Enqueue, which  *)
(* may refuse any request.                                                 *)
THEOREM SeenUnlessDroppedHolds == Spec => []SeenUnlessDropped
<1>1. Init => TypeInv /\ SeenUnlessDropped
  BY TypeInit DEF Init, SeenUnlessDropped
<1>2. TypeInv /\ SeenUnlessDropped /\ [Next]_vars => (TypeInv /\ SeenUnlessDropped)'
  BY TypeStep, TakenStep
<1> QED BY <1>1, <1>2, PTL DEF Spec

-----------------------------------------------------------------------------
(* What a tab still has to send, in the order it will send it.             *)
LineOf(t) == flight[t].batch \o queue[t]

LEMMA LineType ==
  ASSUME TypeOK, NEW t \in Tabs
  PROVE  /\ flight[t].batch \in Seq(Events) /\ queue[t] \in Seq(Events)
         /\ LineOf(t) \in Seq(Events) /\ LineOf(t) = Requeued(t)
         /\ ~ InFlight(t) => LineOf(t) = queue[t]
BY ConcatProperties, ConcatEmptySeq DEF TypeOK, LineOf, Requeued, InFlight

(* splice loses nothing and changes no order.                              *)
LEMMA CutsWhole ==
  ASSUME NEW q \in Seq(Events)
  PROVE  First(q) \o Rest(q) = q
<1>1. /\ 1 \in 1 .. Len(q) + 1 /\ Cut(q) \in 1 - 1 .. Len(q)
      /\ Len(q) \in Cut(q) .. Len(q)
  BY Constants DEF Cut
<1>2. SubSeq(q, 1, Cut(q)) \o SubSeq(q, Cut(q) + 1, Len(q)) = SubSeq(q, 1, Len(q))
  <2> HIDE DEF Cut
  <2> QED BY ONLY <1>1, q \in Seq(Events), ConcatAdjacentSubSeq
<1> QED BY <1>2, SubSeqFull DEF First, Rest

(* A handler of tab t that has the line q leaves q, or takes its first     *)
(* events into a beacon; it never touches the line of another tab.         *)
LineOutcome(t, q) ==
  /\ \A u \in Tabs \ {t} : LineOf(u)' = LineOf(u)
  /\ \/ LineOf(t)' = q /\ exposed' = exposed
     \/ LineOf(t)' = Rest(q) /\ exposed' = exposed \union Members(First(q))

LEMMA IdleLine ==
  ASSUME TypeOK, NEW t \in Tabs, NEW q \in Seq(Events), NEW stored, NEW others,
         Idle(t, q, stored, others)
  PROVE  /\ LineOf(t)' = q /\ backup' = stored
         /\ \A u \in Tabs \ {t} : LineOf(u)' = LineOf(u)
<1>1. /\ queue'[t] = q /\ flight'[t] = NoFlush
      /\ \A u \in Tabs \ {t} : queue'[u] = queue[u] /\ flight'[u] = flight[u]
  BY DEF Idle, TypeOK
<1>2. << >> \o q = q
  BY ConcatEmptySeq
<1> QED BY <1>1, <1>2, RequestTypes DEF LineOf, Idle

LEMMA FetchLine ==
  ASSUME TypeOK, NEW t \in Tabs, NEW q \in Seq(Events), NEW hidden, NEW stored, NEW others,
         Fetch(t, q, hidden, stored, others)
  PROVE  /\ LineOf(t)' = q /\ backup' = stored
         /\ \A u \in Tabs \ {t} : LineOf(u)' = LineOf(u)
<1>1. /\ queue'[t] = Rest(q) /\ flight'[t].batch = First(q)
      /\ \A u \in Tabs \ {t} : queue'[u] = queue[u] /\ flight'[u] = flight[u]
  BY DEF Fetch, TypeOK
<1> QED BY <1>1, CutsWhole DEF LineOf, Fetch

LEMMA FlushLine ==
  ASSUME TypeOK, NEW t \in Tabs, NEW q \in Seq(Events), NEW hidden, NEW stored, NEW others,
         Flush(t, q, hidden, stored, others)
  PROVE  LineOutcome(t, q) /\ backup' \in {stored, << >>, q}
<1>1. Rest(q) \in Seq(Events)
  BY Cuts
<1>2. CASE ~ hidden
  BY <1>2, FetchLine DEF Flush, LineOutcome
<1>3. CASE hidden /\ Fetch(t, q, TRUE, q, others) /\ UNCHANGED exposed
  BY <1>3, FetchLine DEF LineOutcome
<1>4. CASE hidden /\ ~ (Fetch(t, q, TRUE, q, others) /\ UNCHANGED exposed)
  <2>1. PICK o \in Strays :
          /\ LET beaconed == [others EXCEPT ![o] = Sent(First(q))]
             IN IF Len(Rest(q)) >= FlushThreshold
                THEN Fetch(t, Rest(q), FALSE, << >>, beaconed)
                ELSE Idle(t, Rest(q), << >>, beaconed)
          /\ exposed' = exposed \union Members(First(q))
    BY <1>4 DEF Flush, Beacon
  <2> DEFINE beaconed == [others EXCEPT ![o] = Sent(First(q))]
  <2>2. Fetch(t, Rest(q), FALSE, << >>, beaconed) \/ Idle(t, Rest(q), << >>, beaconed)
    BY <2>1
  <2> HIDE DEF beaconed
  <2>3. /\ LineOf(t)' = Rest(q) /\ backup' = << >>
        /\ \A u \in Tabs \ {t} : LineOf(u)' = LineOf(u)
    BY <1>1, <2>2, FetchLine, IdleLine
  <2> QED BY <2>1, <2>3 DEF LineOutcome
<1> QED BY <1>2, <1>3, <1>4

LEMMA ContinueLine ==
  ASSUME TypeOK, NEW t \in Tabs, NEW ok \in BOOLEAN, NEW others, Continue(t, ok, others)
  PROVE  LET q == IF ok THEN queue[t] ELSE LineOf(t)
         IN LineOutcome(t, q) /\ backup' \in {<< >>, q}
<1> DEFINE q == IF ok THEN queue[t] ELSE LineOf(t)
           stored == IF ok THEN << >> ELSE q
           hidden == ~ ok /\ flight[t].hidden
<1>1. q \in Seq(Events) /\ stored \in {<< >>, q}
  BY LineType
<1>2. \/ Idle(t, q, stored, others) /\ UNCHANGED exposed
      \/ Flush(t, q, hidden, stored, others)
  BY LineType DEF Continue
<1> HIDE DEF q, stored, hidden
<1>3. LineOutcome(t, q) /\ backup' \in {<< >>, q}
  BY <1>1, <1>2, IdleLine, FlushLine DEF LineOutcome
<1> QED BY <1>3 DEF q

LEMMA PushLine ==
  ASSUME TypeOK, NEW t \in Tabs, NEW q \in Seq(Events), Push(t, q)
  PROVE  /\ LineOf(t)' = flight[t].batch \o q /\ backup' = backup
         /\ \A u \in Tabs \ {t} : LineOf(u)' = LineOf(u)
<1>1. CASE Len(q) >= FlushThreshold /\ ~ InFlight(t)
  <2>1. Fetch(t, q, FALSE, backup, requests) /\ flight[t].batch = << >>
    BY <1>1 DEF Push, InFlight
  <2>2. << >> \o q = q
    BY ConcatEmptySeq
  <2> QED BY <2>1, <2>2, FetchLine
<1>2. CASE ~ (Len(q) >= FlushThreshold /\ ~ InFlight(t))
  <2>1. queue' = [queue EXCEPT ![t] = q] /\ UNCHANGED <<flight, backup>>
    BY <1>2 DEF Push
  <2> QED BY <2>1 DEF LineOf, TypeOK
<1> QED BY <1>1, <1>2

LEMMA ConcatAppend ==
  ASSUME NEW b \in Seq(Events), NEW q \in Seq(Events), NEW e \in Events
  PROVE  b \o Append(q, e) = Append(b \o q, e)
<1>1. <<e>> \in Seq(Events) /\ b \o q \in Seq(Events)
  BY ConcatProperties
<1>2. b \o (q \o <<e>>) = (b \o q) \o <<e>>
  BY <1>1, ConcatAssociative
<1> QED BY <1>1, <1>2, AppendIsConcat

(* What each step does to the lines and to the backup.                     *)
LEMMA GrownLine ==
  ASSUME TypeInv, NEW t \in Tabs, Open(t) \/ Record(t)
  PROVE  /\ LineOf(t)' \in {Append(LineOf(t), New), Append(backup, New)}
         /\ Record(t) => LineOf(t)' = Append(LineOf(t), New)
         /\ Open(t) => LineOf(t)' = Append(backup, New)
         /\ \A u \in Tabs \ {t} : LineOf(u)' = LineOf(u)
         /\ backup' = backup /\ created' = New /\ exposed' = exposed /\ New \in Events
<1>0. TypeOK /\ New \in Events /\ backup \in Seq(Events) /\ ~ (Open(t) /\ Record(t))
  BY TypeParts, Constants DEF Open, Record, TabsInv, New, Events
<1>1. CASE Record(t)
  <2>1. /\ Append(queue[t], New) \in Seq(Events)
        /\ flight[t].batch \o Append(queue[t], New) = Append(LineOf(t), New)
    <3>1. flight[t].batch \in Seq(Events) /\ queue[t] \in Seq(Events)
      BY <1>0, LineType
    <3>2. Append(queue[t], New) \in Seq(Events)
      BY ONLY <1>0, <3>1, AppendProperties
    <3> QED BY <1>0, <3>1, <3>2, ConcatAppend DEF LineOf
  <2>2. Push(t, Append(queue[t], New)) /\ created' = New /\ exposed' = exposed
    BY <1>1 DEF Record
  <2> QED BY <1>0, <1>1, <2>1, <2>2, PushLine
<1>2. CASE Open(t) /\ backup = << >>
  <2>1. Push(t, <<New>>) /\ <<New>> \in Seq(Events)
    BY <1>0, <1>2 DEF Open
  <2>2. flight[t].batch = << >>
    BY <1>2, TypeParts, RequestTypes DEF Open, Shut, TabsInv
  <2>3. << >> \o <<New>> = <<New>> /\ Append(backup, New) = <<New>>
    BY <1>2, <2>1, ConcatEmptySeq
  <2> QED BY <1>0, <1>2, <2>1, <2>2, <2>3, PushLine DEF Open
<1>3. CASE Open(t) /\ backup # << >>
  <2>1. /\ flight'[t].batch = First(backup) /\ queue'[t] = Append(Rest(backup), New)
        /\ \A u \in Tabs \ {t} : flight'[u] = flight[u] /\ queue'[u] = queue[u]
        /\ backup' = backup /\ created' = New /\ exposed' = exposed
    <3>1. /\ queue' = [queue EXCEPT ![t] = Append(Rest(backup), New)]
          /\ flight' = [flight EXCEPT ![t] = [@ EXCEPT !.batch = First(backup)]]
          /\ backup' = backup /\ created' = New /\ exposed' = exposed
      BY <1>3 DEF Open
    <3>2. flight[t] \in Flight
      BY TypeParts DEF TabsInv
    <3>3. [flight[t] EXCEPT !.batch = First(backup)].batch = First(backup)
      BY <3>2 DEF Flight
    <3> QED BY <1>0, <3>1, <3>3 DEF TypeOK
  <2>2. First(backup) \o Append(Rest(backup), New) = Append(backup, New)
    <3>1. First(backup) \in Seq(Events) /\ Rest(backup) \in Seq(Events)
      BY <1>0, Cuts
    <3> QED BY SMTT(30), <1>0, <3>1, CutsWhole, ConcatAppend
  <2> QED BY <1>0, <1>3, <2>1, <2>2 DEF LineOf
<1> QED BY <1>1, <1>2, <1>3

LEMMA TimedLine ==
  ASSUME TypeInv, NEW t \in Tabs, Interval(t) \/ Hide(t)
  PROVE  /\ LineOutcome(t, LineOf(t)) /\ backup' \in {backup, << >>, LineOf(t)}
         /\ created' = created
<1>1. TypeOK
  BY TypeParts
<1>2. PICK hidden \in BOOLEAN : Flush(t, queue[t], hidden, backup, requests)
  BY DEF Interval, Hide
<1>3. queue[t] = LineOf(t) /\ created' = created
  BY <1>1, LineType DEF Interval, Hide
<1>4. LineOf(t) \in Seq(Events)
  BY <1>1, LineType
<1> QED BY <1>1, <1>2, <1>3, <1>4, FlushLine

LEMMA ClosedLine ==
  ASSUME TypeInv, NEW t \in Tabs, Close(t)
  PROVE  /\ LineOf(t)' = << >>
         /\ \A u \in Tabs \ {t} : LineOf(u)' = LineOf(u)
         /\ backup' = backup /\ created' = created
         /\ exposed' = exposed \union (Members(LineOf(t)) \ Members(backup))
<1>1. /\ queue'[t] = << >> /\ flight'[t] = NoFlush
      /\ \A u \in Tabs \ {t} : queue'[u] = queue[u] /\ flight'[u] = flight[u]
  BY TypeParts DEF Close, TypeOK
<1> QED BY ZenonT(30), <1>1, RequestTypes, ConcatEmptySeq, EmptySeq DEF LineOf, Close

LEMMA GivenUpLine ==
  ASSUME TypeInv, NEW t \in Tabs, GiveUp(t)
  PROVE  /\ LineOutcome(t, LineOf(t)) /\ backup' \in {<< >>, LineOf(t)}
         /\ created' = created
<1>1. TypeOK /\ FALSE \in BOOLEAN
  BY TypeParts
<1>2. PICK others : Continue(t, FALSE, others)
  BY DEF GiveUp
<1> QED BY <1>1, <1>2, ContinueLine DEF GiveUp

LEMMA AnsweredLine ==
  ASSUME TypeInv, NEW s \in Senders, NEW ok \in BOOLEAN, Answer(s, ok)
  PROVE  /\ created' = created
         /\ s \in Tabs => LET q == IF ok THEN queue[s] ELSE LineOf(s)
                          IN LineOutcome(s, q) /\ backup' \in {<< >>, q}
         /\ s \notin Tabs => /\ \A u \in Tabs : LineOf(u)' = LineOf(u)
                             /\ UNCHANGED <<backup, exposed>>
<1>1. TypeOK
  BY TypeParts
<1>2. CASE s \in Tabs
  <2>1. Continue(s, ok, Without(s)) /\ created' = created
    BY <1>2 DEF Answer
  <2> QED BY <1>1, <1>2, <2>1, ContinueLine
<1>3. CASE s \notin Tabs
  BY <1>3 DEF Answer, LineOf
<1> QED BY <1>2, <1>3

(* The other steps: a handler answers, or no line and no event is touched. *)
Unlined == UNCHANGED <<queue, flight, backup, created>>

LEMMA HandledLine ==
  ASSUME TypeInv, NEW s \in Senders, HandlerStep(s) \/ Reject(s)
  PROVE  Unlined \/ \E ok \in BOOLEAN : Answer(s, ok)
BY DEF HandlerStep, Reject, Begin, Observe, Accept, AcceptUnheard, Refuse, Unlined
-----------------------------------------------------------------------------
(* InOrder, strengthened: what a tab records is later than all it has.     *)
Known(s, n) == Ascending(s) /\ \A i \in DOMAIN s : s[i] <= n

Orderly ==
  /\ \A t \in Tabs : Known(LineOf(t), created)
  /\ Known(backup, created)

LEMMA KnownEmpty == ASSUME NEW n PROVE Known(<< >>, n)
BY DEF Known, Ascending

LEMMA KnownLonger ==
  ASSUME NEW q \in Seq(Events), NEW n \in Nat, Known(q, n), n + 1 \in Events
  PROVE  Known(q, n + 1) /\ Known(Append(q, n + 1), n + 1)
<1> DEFINE a == Append(q, n + 1)
<1>1. /\ DOMAIN a = 1 .. Len(q) + 1 /\ DOMAIN q = 1 .. Len(q) /\ Len(q) \in Nat
      /\ \A i \in 1 .. Len(q) : a[i] = q[i] /\ q[i] \in Nat
      /\ a[Len(q) + 1] = n + 1
  <2>1. a \in Seq(Events) /\ Len(a) = Len(q) + 1 /\ Len(q) \in Nat
    BY AppendProperties, LenProperties
  <2>2. \A i \in 1 .. Len(q) : q[i] \in Nat
    BY ElementOfSeq, Constants DEF Events
  <2> QED BY <2>1, <2>2, AppendProperties, LenProperties
<1>2. \A i \in 1 .. Len(q) : q[i] <= n
  BY <1>1 DEF Known
<1>3. \A i, j \in 1 .. Len(q) : i < j => q[i] < q[j]
  BY <1>1 DEF Known, Ascending
<1>4. Known(q, n + 1)
  BY <1>1, <1>2, <1>3 DEF Known, Ascending
<1> HIDE DEF a
<1>5. ASSUME NEW i \in 1 .. Len(q) + 1, NEW j \in 1 .. Len(q) + 1, i < j
      PROVE  a[i] < a[j]
  <2>1. i \in 1 .. Len(q)
    BY <1>1, <1>5
  <2>2. CASE j = Len(q) + 1
    BY <1>1, <1>2, <2>1, <2>2
  <2>3. CASE j # Len(q) + 1
    <3>1. j \in 1 .. Len(q)
      BY <1>1, <2>3
    <3> QED BY <1>1, <1>3, <1>5, <2>1, <3>1
  <2> QED BY <2>2, <2>3
<1>6. ASSUME NEW i \in 1 .. Len(q) + 1
      PROVE  a[i] <= n + 1
  <2>1. CASE i = Len(q) + 1
    BY <1>1, <2>1
  <2>2. CASE i # Len(q) + 1
    <3>1. i \in 1 .. Len(q)
      BY <1>1, <2>2
    <3> QED BY <1>1, <1>2, <3>1
  <2> QED BY <2>1, <2>2
<1>7. Known(a, n + 1)
  BY <1>1, <1>5, <1>6 DEF Known, Ascending
<1> QED BY <1>4, <1>7 DEF a

LEMMA KnownBehind ==
  ASSUME NEW b \in Seq(Events), NEW q \in Seq(Events), NEW n, Known(b \o q, n)
  PROVE  Known(q, n)
<1> DEFINE c == b \o q
<1>1. /\ DOMAIN q = 1 .. Len(q) /\ Len(q) \in Nat /\ Len(b) \in Nat
      /\ DOMAIN c = 1 .. Len(b) + Len(q)
      /\ \A i \in 1 .. Len(q) : i + Len(b) \in DOMAIN c /\ c[i + Len(b)] = q[i]
  BY ConcatProperties, LenProperties
<1>2. Known(c, n)
  OBVIOUS
<1> HIDE DEF c
<1>3. ASSUME NEW i \in 1 .. Len(q), NEW j \in 1 .. Len(q), i < j
      PROVE  q[i] < q[j]
  <2>1. i + Len(b) < j + Len(b)
    BY <1>1, <1>3
  <2> QED BY <1>1, <1>2, <2>1 DEF Known, Ascending
<1> QED BY <1>1, <1>2, <1>3 DEF Known, Ascending

LEMMA KnownRest ==
  ASSUME NEW q \in Seq(Events), NEW n, Known(q, n)
  PROVE  Known(Rest(q), n)
<1>1. First(q) \in Seq(Events) /\ Rest(q) \in Seq(Events)
  BY Cuts
<1> QED BY ZenonT(30), <1>1, CutsWhole, KnownBehind

LEMMA OrderlyOutcome ==
  ASSUME TypeInv, Orderly, NEW t \in Tabs, NEW q \in Seq(Events), Known(q, created),
         LineOutcome(t, q), Known(backup', created), created' = created
  PROVE  Orderly'
<1>1. Known(Rest(q), created)
  BY KnownRest
<1>2. \A u \in Tabs : Known(LineOf(u)', created)
  BY <1>1 DEF LineOutcome, Orderly
<1> QED BY <1>2 DEF Orderly

LEMMA OrderlyGrown ==
  ASSUME TypeInv, Orderly, NEW t \in Tabs, Open(t) \/ Record(t)
  PROVE  Orderly'
<1>0. TypeOK /\ created \in Nat
  BY TypeParts DEF TabsInv
<1>1. \A q \in Seq(Events) :
        Known(q, created) => Known(q, New) /\ Known(Append(q, New), New)
  BY <1>0, GrownLine, KnownLonger DEF New
<1>2. /\ backup \in Seq(Events) /\ \A u \in Tabs : LineOf(u) \in Seq(Events)
  BY <1>0, LineType DEF TypeOK
<1>3. /\ Known(backup, New) /\ \A u \in Tabs : Known(LineOf(u), New)
      /\ Known(Append(backup, New), New) /\ Known(Append(LineOf(t), New), New)
  BY <1>1, <1>2 DEF Orderly
<1>4. /\ LineOf(t)' \in {Append(LineOf(t), New), Append(backup, New)}
      /\ \A u \in Tabs \ {t} : LineOf(u)' = LineOf(u)
      /\ backup' = backup /\ created' = New
  BY GrownLine
<1>5. \A u \in Tabs : Known(LineOf(u)', New)
  BY <1>3, <1>4
<1> QED BY <1>3, <1>4, <1>5 DEF Orderly

LEMMA OrderlyTab ==
  ASSUME TypeInv, Orderly, NEW t \in Tabs, Browse(t) \/ GiveUp(t)
  PROVE  Orderly'
<1>1. LineOf(t) \in Seq(Events) /\ Known(LineOf(t), created) /\ Known(backup, created)
  BY TypeParts, LineType DEF Orderly
<1>2. CASE Interval(t) \/ Hide(t) \/ GiveUp(t)
  <2>1. /\ LineOutcome(t, LineOf(t)) /\ backup' \in {backup, << >>, LineOf(t)}
        /\ created' = created
    BY <1>2, TimedLine, GivenUpLine
  <2>2. Known(backup', created)
    BY <1>1, <2>1, KnownEmpty
  <2> QED BY <1>1, <2>1, <2>2, OrderlyOutcome
<1>3. CASE Close(t)
  <2>1. \A u \in Tabs : Known(LineOf(u)', created)
    BY <1>3, ClosedLine, KnownEmpty DEF Orderly
  <2> QED BY <1>1, <1>3, <2>1, ClosedLine DEF Orderly
<1> QED BY <1>2, <1>3, OrderlyGrown DEF Browse, TabStep

LEMMA OrderlyAnswer ==
  ASSUME TypeInv, Orderly, NEW s \in Senders, NEW ok \in BOOLEAN, Answer(s, ok)
  PROVE  Orderly'
<1>1. CASE s \notin Tabs
  BY <1>1, AnsweredLine DEF Orderly
<1>2. CASE s \in Tabs
  <2> DEFINE q == IF ok THEN queue[s] ELSE LineOf(s)
  <2>1. LineOutcome(s, q) /\ backup' \in {<< >>, q} /\ created' = created
    BY <1>2, AnsweredLine
  <2>2. q \in Seq(Events) /\ Known(q, created)
    <3>1. Known(LineOf(s), created)
      BY <1>2 DEF Orderly
    <3>2. flight[s].batch \in Seq(Events) /\ queue[s] \in Seq(Events) /\ LineOf(s) \in Seq(Events)
      BY <1>2, TypeParts, LineType
    <3>3. Known(queue[s], created)
      BY <3>1, <3>2, KnownBehind DEF LineOf
    <3> QED BY <3>1, <3>2, <3>3
  <2> HIDE DEF q
  <2>3. Known(backup', created)
    BY <2>1, <2>2, KnownEmpty
  <2> QED BY <1>2, <2>1, <2>2, <2>3, OrderlyOutcome
<1> QED BY <1>1, <1>2

LEMMA OrderlyStep ==
  ASSUME TypeInv, Orderly, [Next]_vars
  PROVE  Orderly'
<1>1. CASE Unlined
  BY <1>1 DEF Unlined, Orderly, LineOf
<1>2. ASSUME NEW s \in Senders, HandlerStep(s) \/ Reject(s) PROVE Orderly'
  BY <1>1, <1>2, HandledLine, OrderlyAnswer
<1>3. (\E e \in Events : Forget(e)) \/ Restart \/ UNCHANGED vars => Unlined
  BY DEF Forget, Restart, vars, trackerVars, Unlined
<1> QED BY <1>1, <1>2, <1>3, OrderlyTab DEF Next

LEMMA OrderlyInit == Init => Orderly
<1> SUFFICES ASSUME Init PROVE Orderly
  OBVIOUS
<1>1. /\ \A t \in Tabs : flight[t].batch = << >> /\ queue[t] = << >>
      /\ backup = << >> /\ created = 0
  BY RequestTypes DEF Init, TrackerInit
<1>2. << >> \o << >> = << >>
  BY ConcatEmptySeq, EmptySeq
<1> QED BY <1>1, <1>2, KnownEmpty DEF Orderly, LineOf

(* Every tab sends its events in the order they were recorded in, and the  *)
(* backup keeps that order for the next page, for any number of tabs that  *)
(* share the backup and whatever fails, is rejected or restarts.           *)
THEOREM InOrderHolds == Spec => []InOrder
<1>1. Init => TypeInv /\ Orderly
  BY TypeInit, OrderlyInit
<1>2. TypeInv /\ Orderly /\ [Next]_vars => (TypeInv /\ Orderly)'
  BY TypeStep, OrderlyStep
<1>3. Orderly => InOrder
  BY DEF Orderly, Known, InOrder, LineOf
<1> QED BY <1>1, <1>2, <1>3, PTL DEF Spec

-----------------------------------------------------------------------------
(* An event beyond the tabs: with the batch writer, knowingly exposed,     *)
(* dropped by a handler that failed, or in the batch of a handler.         *)
Held(e) ==
  \/ accepted[e] > 0
  \/ e \in exposed \union dropped
  \/ \E s \in Senders : Working(s) /\ e \in requests[s].batch

(* Accounted, strengthened: with one tab, an open page has all of the      *)
(* backup in its line, and of the events in flight those the handler no    *)
(* longer has to look at are beyond the tabs.                              *)
OneTab == \A t, u \in Tabs : t = u

Backed ==
  \A t \in Tabs : page[t] =>
    \A e \in Members(backup) : Held(e) \/ e \in Members(LineOf(t))

Looked ==
  \A t \in Tabs : requests[t].stage \in {"sent", "working"} =>
    \A e \in Members(flight[t].batch) : Held(e) \/ e \in Members(requests[t].todo)

Located ==
  \A e \in 1 .. created :
    \/ Held(e)
    \/ \E t \in Tabs : page[t] /\ e \in Members(LineOf(t))
    \/ e \in Members(backup)

Account == Backed /\ Looked /\ Located

LEMMA MembersConcat ==
  ASSUME NEW b \in Seq(Events), NEW q \in Seq(Events)
  PROVE  Members(b \o q) = Members(b) \union Members(q)
<1>1. Members(b) = Range(b) /\ Members(q) = Range(q) /\ Members(b \o q) = Range(b \o q)
  BY DEF Members, Range
<1> QED BY <1>1, RangeConcatenation

LEMMA MembersAppend ==
  ASSUME NEW q \in Seq(Events), NEW e \in Events
  PROVE  Members(Append(q, e)) = Members(q) \union {e}
<1>1. <<e>> \in Seq(Events) /\ Members(<<e>>) = {e}
  <2>1. <<e>> \in Seq(Events) /\ DOMAIN <<e>> = {1} /\ <<e>>[1] = e
    OBVIOUS
  <2> QED BY <2>1 DEF Members
<1>2. Append(q, e) = q \o <<e>>
  BY AppendIsConcat
<1>3. Members(q \o <<e>>) = Members(q) \union Members(<<e>>)
  BY <1>1, MembersConcat
<1> QED BY <1>1, <1>2, <1>3

LEMMA MembersCut ==
  ASSUME NEW q \in Seq(Events)
  PROVE  Members(q) = Members(First(q)) \union Members(Rest(q))
<1>1. First(q) \in Seq(Events) /\ Rest(q) \in Seq(Events)
  BY Cuts
<1> QED BY <1>1, CutsWhole, MembersConcat

LEMMA MembersLine ==
  ASSUME TypeOK, NEW t \in Tabs
  PROVE  Members(LineOf(t)) = Members(flight[t].batch) \union Members(queue[t])
BY LineType, MembersConcat DEF LineOf

(* An event exposed stays so.                                              *)
LEMMA ExposedGrows ==
  ASSUME TypeInv, Next
  PROVE  exposed \subseteq exposed'
<1>1. ASSUME NEW s \in Senders, HandlerStep(s) \/ Reject(s)
      PROVE  exposed \subseteq exposed'
  <2>1. ASSUME NEW ok \in BOOLEAN, Answer(s, ok)
        PROVE  exposed \subseteq exposed'
    BY <2>1, AnsweredLine DEF LineOutcome
  <2> QED BY <1>1, <2>1 DEF HandlerStep, Reject, Begin, Observe, Accept, AcceptUnheard, Refuse
<1>2. ASSUME NEW t \in Tabs, Browse(t) \/ GiveUp(t)
      PROVE  exposed \subseteq exposed'
  BY <1>2, GrownLine, TimedLine, ClosedLine, GivenUpLine DEF Browse, TabStep, LineOutcome
<1> QED BY <1>1, <1>2 DEF Next, Forget, Restart, trackerVars

LEMMA HeldKept ==
  ASSUME TypeInv, Next, NEW e \in Events, Held(e)
  PROVE  Held(e)'
<1>0. exposed \subseteq exposed'
  BY ExposedGrows
<1>1. CASE Restart
  <2>1. \A s \in Senders : requests[s].batch \subseteq exposed'
    BY <1>1 DEF Restart
  <2>2. UNCHANGED <<accepted, dropped>>
    BY <1>1 DEF Restart
  <2> QED BY <1>0, <2>1, <2>2 DEF Held
<1>2. CASE Keeps
  BY <1>0, <1>2 DEF Keeps, Held
<1> QED BY <1>1, <1>2, TabKeeps, HandlerKeeps, ForgetKeeps DEF Next

(* What a handler of tab t leaves in flight: what its request asks for, or *)
(* what was in flight, or nothing the server will take.                    *)
Awaits(t) ==
  \/ requests'[t] = Sent(flight'[t].batch)
  \/ requests'[t].stage \notin {"sent", "working"}
  \/ flight'[t].batch = flight[t].batch /\ requests'[t] = requests[t]

LEMMA FlushAwaits ==
  ASSUME TypeOK, NEW t \in Tabs, NEW q \in Seq(Events), NEW hidden, NEW stored,
         NEW others \in [Senders -> Request], others[t] = NoRequest,
         Idle(t, q, stored, others) \/ Flush(t, q, hidden, stored, others)
  PROVE  Awaits(t)
<1>1. ASSUME NEW x, NEW h, NEW b, NEW r \in [Senders -> Request], r[t] = NoRequest,
             Idle(t, x, b, r) \/ Fetch(t, x, h, b, r)
      PROVE  Awaits(t)
  <2>1. CASE Idle(t, x, b, r)
    BY <1>1, <2>1, RequestTypes DEF Idle, Awaits
  <2>2. CASE Fetch(t, x, h, b, r)
    <3>1. requests'[t] = Sent(First(x)) /\ flight'[t].batch = First(x)
      BY <1>1, <2>2, Constants DEF Fetch, TypeOK
    <3> QED BY <3>1 DEF Awaits
  <2> QED BY <1>1, <2>1, <2>2
<1>2. CASE Idle(t, q, stored, others) \/ Fetch(t, q, FALSE, stored, others)
           \/ Fetch(t, q, TRUE, q, others)
  BY <1>1, <1>2
<1>3. ASSUME NEW o \in Strays,
             IF Len(Rest(q)) >= FlushThreshold
             THEN Fetch(t, Rest(q), FALSE, << >>, [others EXCEPT ![o] = Sent(First(q))])
             ELSE Idle(t, Rest(q), << >>, [others EXCEPT ![o] = Sent(First(q))])
      PROVE  Awaits(t)
  <2> DEFINE r == [others EXCEPT ![o] = Sent(First(q))]
  <2>1. r \in [Senders -> Request] /\ r[t] = NoRequest
    BY Constants, Cuts, RequestTypes
  <2>2. Fetch(t, Rest(q), FALSE, << >>, r) \/ Idle(t, Rest(q), << >>, r)
    BY <1>3
  <2> HIDE DEF r
  <2> QED BY <1>1, <2>1, <2>2
<1> QED BY <1>2, <1>3 DEF Flush, Beacon

LEMMA ContinueAwaits ==
  ASSUME TypeOK, NEW t \in Tabs, NEW ok \in BOOLEAN,
         NEW others \in [Senders -> Request], others[t] = NoRequest,
         Continue(t, ok, others)
  PROVE  Awaits(t)
<1> DEFINE q == IF ok THEN queue[t] ELSE Requeued(t)
           stored == IF ok THEN << >> ELSE q
           hidden == ~ ok /\ flight[t].hidden
<1>1. q \in Seq(Events)
  BY LineType
<1>2. Idle(t, q, stored, others) \/ Flush(t, q, hidden, stored, others)
  BY DEF Continue
<1> HIDE DEF q, stored, hidden
<1> QED BY <1>1, <1>2, FlushAwaits

LEMMA TabAwaits ==
  ASSUME TypeInv, NEW t \in Tabs, Browse(t) \/ GiveUp(t)
  PROVE  Awaits(t)
<1>0. /\ TypeOK /\ TabsInv /\ requests \in [Senders -> Request] /\ t \in Senders
      /\ flight \in [Tabs -> Flight]
  BY TypeParts, Constants DEF TabsInv
<1>1. ASSUME NEW q, Push(t, q) PROVE Awaits(t)
  <2>1. CASE Fetch(t, q, FALSE, backup, requests)
    <3>1. requests'[t] = Sent(First(q)) /\ flight'[t].batch = First(q)
      BY <1>0, <2>1 DEF Fetch
    <3> QED BY <3>1 DEF Awaits
  <2> QED BY <1>1, <2>1 DEF Push, Awaits
<1>2. CASE Open(t)
  <2>1. CASE backup = << >>
    BY <1>1, <1>2, <2>1 DEF Open
  <2>2. CASE backup # << >>
    <3>1. /\ flight' = [flight EXCEPT ![t] = [@ EXCEPT !.batch = First(backup)]]
          /\ requests' = [requests EXCEPT ![t] = Sent(First(backup))]
      BY <1>2, <2>2 DEF Open
    <3>2. [flight[t] EXCEPT !.batch = First(backup)].batch = First(backup)
      BY <1>0 DEF Flight
    <3>3. requests'[t] = Sent(First(backup)) /\ flight'[t].batch = First(backup)
      BY <1>0, <3>1, <3>2
    <3> QED BY <3>3 DEF Awaits
  <2> QED BY <2>1, <2>2
<1>3. CASE Record(t)
  BY <1>1, <1>3 DEF Record
<1>4. CASE Interval(t) \/ Hide(t)
  <2>1. requests[t] = NoRequest /\ queue[t] \in Seq(Events)
    BY <1>0, <1>4 DEF Interval, Hide, TypeOK
  <2> QED BY <1>0, <1>4, <2>1, FlushAwaits DEF Interval, Hide
<1>5. CASE Close(t)
  <2>1. requests'[t] = NoRequest
    BY <1>0, <1>5, Constants DEF Close
  <2> QED BY <2>1, RequestTypes DEF Awaits
<1>6. CASE GiveUp(t)
  <2>1. PICK o \in Strays : Continue(t, FALSE, [Without(t) EXCEPT ![o] = requests[t]])
    BY <1>6 DEF GiveUp
  <2> DEFINE others == [Without(t) EXCEPT ![o] = requests[t]]
  <2>2. others \in [Senders -> Request] /\ others[t] = NoRequest
    BY <1>0, Constants, RequestTypes DEF Without
  <2> HIDE DEF others
  <2>3. Continue(t, FALSE, others)
    BY <2>1 DEF others
  <2> QED BY <1>0, <2>2, <2>3, ContinueAwaits
<1> QED BY <1>2, <1>3, <1>4, <1>5, <1>6 DEF Browse, TabStep

LEMMA AnswerAwaits ==
  ASSUME TypeInv, NEW s \in Senders, NEW ok \in BOOLEAN, Answer(s, ok), NEW t \in Tabs,
         OneTab
  PROVE  Awaits(t)
<1>0. TypeOK /\ requests \in [Senders -> Request] /\ t \in Senders
  BY TypeParts, Constants DEF TypeOK
<1>1. CASE s = t
  <2>1. Without(t) \in [Senders -> Request] /\ Without(t)[t] = NoRequest
    BY <1>0, RequestTypes DEF Without
  <2>2. Continue(t, ok, Without(t))
    BY <1>1 DEF Answer
  <2> QED BY <1>0, <2>1, <2>2, ContinueAwaits
<1>2. CASE s # t
  <2>1. s \notin Tabs
    BY <1>2 DEF OneTab
  <2>2. requests'[t] = requests[t] /\ flight' = flight
    BY <1>0, <1>2, <2>1 DEF Answer, Without
  <2> QED BY <2>2 DEF Awaits
<1> QED BY <1>1, <1>2

(* The line of an open tab, when it is the only one: nothing leaves it but *)
(* to the batch writer, into a handler or by exposure.                     *)
Whole(t) ==
  \A e \in Events : Held(e) \/ e \in Members(LineOf(t)) =>
                    Held(e)' \/ e \in Members(LineOf(t)')

LEMMA AccountOpen ==
  ASSUME OneTab, Account, NEW t \in Tabs, page[t], page' = page,
         Whole(t), created' = created, created \in 0 .. MaxEvents,
         Members(backup) \subseteq Events,
         Members(backup') \subseteq Members(backup)
           \/ \A e \in Members(backup') : Held(e)' \/ e \in Members(LineOf(t)')
  PROVE  Backed' /\ Located'
<1>1. \A u \in Tabs : u = t
  BY DEF OneTab
<1>2. \A e \in Members(backup) : Held(e)' \/ e \in Members(LineOf(t)')
  BY DEF Account, Backed, Whole
<1>3. Backed'
  BY <1>1, <1>2 DEF Backed
<1>4. ASSUME NEW e \in 1 .. created
      PROVE  Held(e)' \/ e \in Members(LineOf(t)')
  <2>1. e \in Events
    BY Constants DEF Events
  <2>2. Held(e) \/ e \in Members(LineOf(t)) \/ e \in Members(backup)
    BY <1>1 DEF Account, Located
  <2> QED BY <1>2, <2>1, <2>2 DEF Whole
<1>5. Located'
  BY <1>4 DEF Located
<1> QED BY <1>3, <1>5

LEMMA WholeOutcome ==
  ASSUME TypeInv, NEW t \in Tabs, NEW q \in Seq(Events), LineOutcome(t, q),
         \A e \in Events : Held(e) => Held(e)',
         \A e \in Members(LineOf(t)) : e \in Members(q) \/ Held(e)'
  PROVE  /\ Whole(t)
         /\ \A e \in Members(q) : Held(e)' \/ e \in Members(LineOf(t)')
<1>1. Members(q) = Members(First(q)) \union Members(Rest(q))
  BY MembersCut
<1>2. \A e \in Members(q) : e \in exposed' \/ e \in Members(LineOf(t)')
  BY <1>1 DEF LineOutcome
<1>3. \A e : e \in exposed' => Held(e)'
  BY DEF Held
<1> QED BY <1>2, <1>3 DEF Whole

(* Looked only depends on the tab's own request.                           *)
LEMMA LookedKept ==
  ASSUME TypeInv, Looked, NEW t \in Tabs, OneTab, Awaits(t),
         \A e \in Events : Held(e) => Held(e)'
  PROVE  Looked'
<1>1. \A u \in Tabs : u = t
  BY DEF OneTab
<1>2. Members(flight[t].batch) \subseteq Events
  BY TypeParts, MembersType DEF TypeOK
<1>3. CASE requests'[t] = Sent(flight'[t].batch)
  BY <1>1, <1>3 DEF Looked, Sent
<1>4. CASE requests'[t].stage \notin {"sent", "working"}
  BY <1>1, <1>4 DEF Looked
<1>5. CASE flight'[t].batch = flight[t].batch /\ requests'[t] = requests[t]
  BY <1>1, <1>2, <1>5 DEF Looked
<1> QED BY <1>3, <1>4, <1>5 DEF Awaits

LEMMA AccountTab ==
  ASSUME TypeInv, OneTab, Account, NEW t \in Tabs, Browse(t) \/ GiveUp(t),
         \A e \in Events : Held(e) => Held(e)'
  PROVE  Account'
<1>0. /\ TypeOK /\ page \in [Tabs -> BOOLEAN] /\ created \in 0 .. MaxEvents
      /\ LineOf(t) \in Seq(Events) /\ backup \in Seq(Events)
      /\ Members(LineOf(t)) \subseteq Events /\ Members(backup) \subseteq Events
      /\ \A u \in Tabs : u = t
  BY TypeParts, LineType, MembersType DEF TypeOK, OneTab
<1>1. Looked'
  BY TabAwaits, LookedKept DEF Account
<1>2. CASE Interval(t) \/ Hide(t) \/ GiveUp(t)
  <2>1. /\ LineOutcome(t, LineOf(t)) /\ backup' \in {backup, << >>, LineOf(t)}
        /\ created' = created
    BY <1>2, TimedLine, GivenUpLine
  <2>2. /\ Whole(t)
        /\ \A e \in Members(LineOf(t)) : Held(e)' \/ e \in Members(LineOf(t)')
    BY <1>0, <2>1, WholeOutcome
  <2>3. page[t] /\ page' = page
    BY <1>2, TypeParts DEF Interval, Hide, GiveUp, Shut
  <2>4. Members(<< >>) = {}
    BY DEF Members
  <2> QED BY <1>0, <1>1, <2>1, <2>2, <2>3, <2>4, AccountOpen DEF Account
<1>3. CASE Open(t) \/ Record(t)
  <2>1. /\ Record(t) => LineOf(t)' = Append(LineOf(t), New)
        /\ Open(t) => LineOf(t)' = Append(backup, New)
        /\ backup' = backup /\ created' = New /\ New \in Events
    BY <1>3, GrownLine
  <2>2. /\ Members(Append(LineOf(t), New)) = Members(LineOf(t)) \union {New}
        /\ Members(Append(backup, New)) = Members(backup) \union {New}
    BY <1>0, <2>1, MembersAppend
  <2>3. page'[t] /\ (Open(t) => ~ page[t]) /\ (Record(t) => page[t])
    BY <1>0, <1>3 DEF Open, Record
  <2>4. \A e \in Members(backup) : Held(e)' \/ e \in Members(LineOf(t)')
    <3>1. CASE Open(t)
      BY <2>1, <2>2, <3>1
    <3>2. CASE Record(t)
      BY <1>0, <2>1, <2>2, <2>3, <3>2 DEF Account, Backed
    <3> QED BY <1>3, <3>1, <3>2
  <2>5. ASSUME NEW e \in 1 .. New
        PROVE  Held(e)' \/ e \in Members(LineOf(t)')
    <3>1. CASE e = New
      BY <1>3, <2>1, <2>2, <3>1
    <3>2. CASE e # New
      <4>1. e \in 1 .. created /\ e \in Events
        BY <1>0, <3>2, Constants DEF New, Events
      <4>2. Held(e) \/ (page[t] /\ e \in Members(LineOf(t))) \/ e \in Members(backup)
        BY <1>0, <4>1 DEF Account, Located
      <4> QED BY <1>3, <2>1, <2>2, <2>3, <2>4, <4>1, <4>2
    <3> QED BY <3>1, <3>2
  <2>6. Backed' /\ Located'
    BY <1>0, <2>1, <2>3, <2>4, <2>5 DEF Backed, Located
  <2> QED BY <1>1, <2>6 DEF Account
<1>4. CASE Close(t)
  <2>1. /\ backup' = backup /\ created' = created
        /\ exposed' = exposed \union (Members(LineOf(t)) \ Members(backup))
    BY <1>4, ClosedLine
  <2>2. ~ page'[t]
    BY <1>0, <1>4 DEF Close
  <2>3. Backed'
    BY <1>0, <2>2 DEF Backed
  <2>4. ASSUME NEW e \in 1 .. created
        PROVE  Held(e)' \/ e \in Members(backup)
    <3>1. e \in Events
      BY <1>0, Constants DEF Events
    <3>2. Held(e) \/ e \in Members(LineOf(t)) \/ e \in Members(backup)
      BY <1>0 DEF Account, Located
    <3>3. e \in exposed' => Held(e)'
      BY DEF Held
    <3> QED BY <2>1, <3>1, <3>2, <3>3
  <2>5. Located'
    BY <2>1, <2>4 DEF Located
  <2> QED BY <1>1, <2>3, <2>5 DEF Account
<1> QED BY <1>2, <1>3, <1>4 DEF Browse, TabStep

LEMMA AccountUnlined ==
  ASSUME TypeInv, Account, UNCHANGED <<page, backup, created>>,
         \A t \in Tabs : LineOf(t)' = LineOf(t),
         \A e \in Events : Held(e) => Held(e)'
  PROVE  Backed' /\ Located'
<1>1. created \in 0 .. MaxEvents /\ Members(backup) \subseteq Events
  BY TypeParts, MembersType DEF TypeOK
<1>2. \A e \in 1 .. created : e \in Events
  BY <1>1, Constants DEF Events
<1>3. Backed'
  BY <1>1 DEF Account, Backed
<1>4. Located'
  BY <1>2 DEF Account, Located
<1> QED BY <1>3, <1>4

LEMMA AccountAnswer ==
  ASSUME TypeInv, OneTab, Account, NEW s \in Senders, NEW ok \in BOOLEAN, Answer(s, ok),
         \A e \in Events : Held(e) => Held(e)',
         ok /\ s \in Tabs => \A e \in Members(flight[s].batch) : Held(e),
         requests[s] # NoRequest
  PROVE  Account'
<1>1. page' = page /\ created' = created
  BY DEF Answer
<1>2. Looked'
  BY AnswerAwaits, LookedKept DEF Looked, Account
<1>3. CASE s \notin Tabs
  BY <1>1, <1>2, <1>3, AnsweredLine, AccountUnlined DEF Account
<1>4. CASE s \in Tabs
  <2>1. /\ TypeOK /\ LineOf(s) \in Seq(Events) /\ queue[s] \in Seq(Events)
        /\ flight[s].batch \in Seq(Events)
        /\ Members(flight[s].batch) \subseteq Events /\ Members(backup) \subseteq Events
        /\ Members(LineOf(s)) = Members(flight[s].batch) \union Members(queue[s])
        /\ created \in 0 .. MaxEvents
    BY <1>4, TypeParts, LineType, MembersType, MembersLine DEF TypeOK
  <2> DEFINE q == IF ok THEN queue[s] ELSE LineOf(s)
  <2>2. LineOutcome(s, q) /\ backup' \in {<< >>, q}
    BY <1>4, AnsweredLine
  <2>3. q \in Seq(Events) /\ \A e \in Members(LineOf(s)) : e \in Members(q) \/ Held(e)'
    BY <1>4, <2>1
  <2> HIDE DEF q
  <2>4. /\ Whole(s)
        /\ \A e \in Members(q) : Held(e)' \/ e \in Members(LineOf(s)')
    BY <1>4, <2>2, <2>3, WholeOutcome
  <2>5. \A e \in Members(backup') : Held(e)' \/ e \in Members(LineOf(s)')
    BY <2>2, <2>4 DEF Members
  <2>6. CASE page[s]
    BY <1>1, <1>2, <1>4, <2>1, <2>4, <2>5, <2>6, AccountOpen DEF Account
  <2>7. page[s]
    BY <1>4, TypeParts DEF Shut
  <2> QED BY <2>6, <2>7
<1> QED BY <1>3, <1>4

LEMMA AccountHandler ==
  ASSUME TypeInv, SeenUnlessDropped', OneTab, Account,
         NEW s \in Senders, HandlerStep(s) \/ Reject(s),
         \A e \in Events : Held(e) => Held(e)'
  PROVE  Account'
<1>0. /\ requests \in [Senders -> Request] /\ requests[s] \in Request
      /\ requests[s].todo \in Seq(Events) /\ requests[s] # NoRequest
  BY TypeParts, RequestTypes
  DEF TypeOK, Request, HandlerStep, Begin, Passes, Observe, Accept, AcceptUnheard, Refuse,
      Enqueue, Reject, Working
<1>1. CASE Begin(s)
  <2>1. UNCHANGED <<page, queue, flight, backup, created>>
    BY <1>1 DEF Begin
  <2>2. \A t \in Tabs : /\ requests'[t].todo = requests[t].todo
                        /\ requests[t].stage \notin {"sent", "working"} =>
                             requests'[t].stage = requests[t].stage
    <3>1. requests' = [requests EXCEPT ![s] = [@ EXCEPT !.stage = "working"]]
      BY <1>1 DEF Begin
    <3>2. /\ [requests[s] EXCEPT !.stage = "working"].todo = requests[s].todo
          /\ requests[s].stage = "sent"
      BY <1>0, <1>1 DEF Begin, Passes, Request
    <3> QED BY <1>0, <3>1, <3>2, Constants
  <2>3. Looked'
    <3>1. \A t \in Tabs : Members(flight[t].batch) \subseteq Events
      BY TypeParts, MembersType DEF TypeOK
    <3> QED BY <2>1, <2>2, <3>1 DEF Account, Looked
  <2> QED BY <2>1, <2>3, AccountUnlined DEF Account, LineOf
<1>2. CASE Observe(s) /\ ~ Answer(s, FALSE)
  <2>0. PICK e \in Events : e = Head(requests[s].todo)
    BY <1>0, <1>2, HeadTailProperties DEF Observe
  <2>1. /\ UNCHANGED <<page, queue, flight, backup, created>>
        /\ \A u \in Senders \ {s} : requests'[u] = requests[u]
        /\ requests'[s].todo = Tail(requests[s].todo)
        /\ e \in seen' /\ requests[s].todo # << >> /\ requests[s].stage = "working"
    <3>1. PICK b : /\ requests' = [requests EXCEPT ![s].todo = Tail(@), ![s].batch = b]
                   /\ UNCHANGED <<page, queue, flight, backup, created>>
                   /\ e \in seen'
      BY <1>2, <2>0 DEF Observe, Remember
    <3>2. /\ requests' = [requests EXCEPT ![s] =
                            [requests[s] EXCEPT !.todo = Tail(@), !.batch = b]]
          /\ [requests[s] EXCEPT !.todo = Tail(@), !.batch = b].todo = Tail(requests[s].todo)
      BY <1>0, <3>1 DEF Request
    <3> QED BY <1>0, <1>2, <3>1, <3>2 DEF Observe, Working
  <2>2. Held(e)'
    BY <2>1 DEF SeenUnlessDropped, Held
  <2>3. Members(requests[s].todo) \subseteq {e} \union Members(Tail(requests[s].todo))
    <3> DEFINE q == requests[s].todo
    <3>1. /\ q \in Seq(Events) /\ q # << >> /\ Len(q) \in Nat /\ DOMAIN q = 1 .. Len(q)
          /\ Tail(q) \in Seq(Events) /\ Len(Tail(q)) = Len(q) - 1
          /\ \A i \in 1 .. Len(Tail(q)) : Tail(q)[i] = q[i + 1]
      BY <1>0, <2>1, LenProperties, HeadTailProperties
    <3> HIDE DEF q
    <3>2. ASSUME NEW i \in DOMAIN q
          PROVE  q[i] = Head(q) \/ q[i] \in Members(Tail(q))
      <4>1. CASE i = 1
        BY <3>1, <4>1
      <4>2. CASE i # 1
        <5>1. i - 1 \in 1 .. Len(Tail(q)) /\ Tail(q)[i - 1] = q[i - 1 + 1] /\ i - 1 + 1 = i
          BY <3>1, <4>2
        <5>2. DOMAIN Tail(q) = 1 .. Len(Tail(q))
          BY <3>1, LenProperties
        <5> QED BY <5>1, <5>2 DEF Members
      <4> QED BY <4>1, <4>2
    <3> QED BY <2>0, <3>2 DEF Members, q
  <2>4. Looked'
    <3>1. \A t \in Tabs : Members(flight[t].batch) \subseteq Events /\ t \in Senders
      BY TypeParts, MembersType, Constants DEF TypeOK
    <3>2. ASSUME NEW t \in Tabs, requests'[t].stage \in {"sent", "working"},
                 NEW x \in Members(flight[t].batch)
          PROVE  Held(x)' \/ x \in Members(requests'[t].todo)
      <4>1. x \in Events
        BY <3>1, <3>2
      <4>2. CASE t = s
        BY <2>1, <2>2, <2>3, <3>2, <4>1, <4>2 DEF Account, Looked
      <4>3. CASE t # s
        BY <2>1, <3>1, <3>2, <4>1, <4>3 DEF Account, Looked
      <4> QED BY <4>2, <4>3
    <3> QED BY <2>1, <3>2 DEF Looked
  <2> QED BY <2>1, <2>4, AccountUnlined DEF Account, LineOf
<1>3. CASE Accept(s)
  <2>1. s \in Tabs => \A x \in Members(flight[s].batch) : Held(x)
    <3>1. requests[s].stage = "working" /\ Members(requests[s].todo) = {}
      BY <1>3, EmptySeq DEF Accept, Enqueue, Working, Members
    <3> QED BY <3>1 DEF Account, Looked
  <2> QED BY <1>0, <1>3, <2>1, AccountAnswer DEF Accept
<1>4. CASE AcceptUnheard(s) \/ Reject(s) \/ Refuse(s) \/ (Observe(s) /\ Answer(s, FALSE))
  <2>1. Answer(s, FALSE)
    BY <1>4 DEF AcceptUnheard, Reject, Refuse
  <2> QED BY <1>0, <2>1, AccountAnswer
<1> QED BY <1>1, <1>2, <1>3, <1>4 DEF HandlerStep

LEMMA AccountStep ==
  ASSUME TypeInv, SeenUnlessDropped', OneTab, Account, [Next]_vars
  PROVE  Account'
<1>1. CASE UNCHANGED vars
  BY <1>1 DEF vars, trackerVars, serverVars, Account, Backed, Looked, Located, Held, LineOf,
              Working
<1>2. CASE Next
  <2>1. \A e \in Events : Held(e) => Held(e)'
    BY <1>2, HeldKept
  <2>2. ASSUME Restart \/ \E e \in Events : Forget(e)
        PROVE  Account'
    <3>1. /\ UNCHANGED <<page, queue, flight, backup, created>>
          /\ \A t \in Tabs : requests'[t] = requests[t] \/ requests'[t].stage = "gone"
      BY <2>2, Constants, RequestTypes DEF Restart, Forget, trackerVars, Working, NoRequest
    <3>2. \A t \in Tabs : Awaits(t)
      BY <3>1 DEF Awaits
    <3>3. Looked'
      BY <2>1, <3>2, LookedKept DEF Account, Looked
    <3> QED BY <2>1, <3>1, <3>3, AccountUnlined DEF Account, LineOf
  <2> QED BY <1>2, <2>1, <2>2, AccountTab, AccountHandler DEF Next
<1> QED BY <1>1, <1>2

LEMMA AccountInit == Init => Account
BY Constants DEF Init, TrackerInit, NoRequest, Account, Backed, Looked, Located

(* With one tab, an event recorded is never lost without a word, whatever  *)
(* fails: it is with the batch writer, in a handler, in an open page, in   *)
(* the backup, or among those the tracker knowingly exposes; unless it was *)
(* dropped by a handler that failed after it had the id remembered.  With  *)
(* two tabs it is false: they share one backup, and the success of one     *)
(* empties what the other stored.                                          *)
THEOREM AccountedHolds ==
  ASSUME OneTab
  PROVE  Spec => []Accounted
<1>1. Init => TypeInv /\ SeenUnlessDropped /\ Account
  BY TypeInit, AccountInit DEF Init, SeenUnlessDropped
<1>2. TypeInv /\ SeenUnlessDropped /\ Account /\ [Next]_vars =>
        (TypeInv /\ SeenUnlessDropped /\ Account)'
  BY TypeStep, TakenStep, AccountStep
<1>3. Account => Accounted
  BY DEF Account, Located, Held, Accounted, LineOf
<1> QED BY <1>1, <1>2, <1>3, PTL DEF Spec
=============================================================================
