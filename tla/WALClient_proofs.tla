-------------------------- MODULE WALClient_proofs --------------------------
(***************************************************************************)
(* Proofs about WALClient, for every set of batches, every number of       *)
(* restarts and every fault but a failing rescan after a swap ("stale"),   *)
(* which leaves the entries of a file that is gone.                        *)
(*                                                                         *)
(* The argument: the entries of the running process and the entries a      *)
(* restart would scan are both in good order.  They need not be the same:  *)
(* a failed append may leave a record only the file has, a torn record     *)
(* hides from the scan what the running process still lists, and a rewrite *)
(* that fails half way replaces the file under the old entries.            *)
(***************************************************************************)
EXTENDS WALClient, WAL_proofs, Lists_proofs

GoodOrder(es, n, S) ==
  /\ \A i \in 1 .. Len(es) : es[i].id <= n /\ es[i].batch \in S
  /\ \A i, j \in 1 .. Len(es) :
       i < j => /\ es[i].offset < es[j].offset
                /\ es[i].id < es[j].id
                /\ es[i].batch # es[j].batch

Backed ==
  \A i \in 1 .. Len(entries) :
    /\ entries[i].offset < Len(file)
    /\ file[entries[i].offset + 1] =
         [id |-> entries[i].id, batch |-> entries[i].batch, intact |-> TRUE]

Pending == attempted \ released

IInv ==
  /\ TypeOK
  /\ GoodOrder(entries, nextID, Pending)
  /\ GoodOrder(Scan(file), nextID, Pending)
  /\ fileOpen => Backed
-----------------------------------------------------------------------------
LEMMA GoodOrderMonotonic ==
  ASSUME NEW es \in Seq(Entry), NEW n \in Nat, NEW m \in Nat, n <= m,
         NEW S, NEW T, S \subseteq T, GoodOrder(es, n, S)
  PROVE  GoodOrder(es, m, T)
<1>1. \A i \in 1 .. Len(es) : es[i] \in Entry
  OBVIOUS
<1> QED
  BY <1>1 DEF GoodOrder, Entry

(* A new entry at the end, numbered and placed beyond all the others.      *)
LEMMA GoodOrderAppend ==
  ASSUME NEW es \in Seq(Entry), NEW n \in Nat, NEW S, GoodOrder(es, n, S),
         NEW e \in Entry, e.id = n + 1, e.batch \notin S,
         \A i \in 1 .. Len(es) : es[i].offset < e.offset
  PROVE  GoodOrder(Append(es, e), n + 1, S \union {e.batch})
<1> DEFINE fs == Append(es, e)
<1>1. /\ Len(es) \in Nat /\ Len(fs) = Len(es) + 1
      /\ \A i \in 1 .. Len(es) : fs[i] = es[i] /\ es[i] \in Entry
      /\ fs[Len(es) + 1] = e
  BY AppendProperties
<1> HIDE DEF fs
<1>2. ASSUME NEW i \in 1 .. Len(fs)
      PROVE  fs[i].id <= n + 1 /\ fs[i].batch \in S \union {e.batch}
  <2>1. CASE i \in 1 .. Len(es)
    <3>1. fs[i] = es[i] /\ es[i].id \in Nat
      BY <1>1, <2>1 DEF Entry
    <3> QED BY <2>1, <3>1 DEF GoodOrder
  <2>2. CASE i = Len(es) + 1
    BY <1>1, <2>2
  <2> QED BY <1>1, <2>1, <2>2
<1>3. ASSUME NEW i \in 1 .. Len(fs), NEW j \in 1 .. Len(fs), i < j
      PROVE  /\ fs[i].offset < fs[j].offset
             /\ fs[i].id < fs[j].id
             /\ fs[i].batch # fs[j].batch
  <2>1. i \in 1 .. Len(es) /\ fs[i] = es[i] /\ es[i].id \in Nat
    BY <1>1, <1>3 DEF Entry
  <2>2. CASE j \in 1 .. Len(es)
    <3>1. fs[j] = es[j]
      BY <1>1, <2>2
    <3> QED BY <1>3, <2>1, <2>2, <3>1 DEF GoodOrder
  <2>3. CASE j = Len(es) + 1
    <3>1. es[i].id <= n /\ es[i].batch \in S
      BY <2>1 DEF GoodOrder
    <3> QED BY <1>1, <2>1, <2>3, <3>1
  <2> QED BY <1>1, <2>2, <2>3
<1> QED
  BY <1>2, <1>3 DEF GoodOrder, fs

(* Acknowledging the offset of the i-th entry drops exactly i entries.     *)
LEMMA AckIndexExact ==
  ASSUME entries \in Seq(Entry), NEW n, NEW S, GoodOrder(entries, n, S),
         NEW i \in 1 .. Len(entries)
  PROVE  AckIndex(entries[i].offset) = i
<1> DEFINE o == entries[i].offset
           k == AckIndex(o)
<1>1. Len(entries) \in Nat /\ \A j \in 1 .. Len(entries) : entries[j].offset \in Nat
  <2>1. \A j \in 1 .. Len(entries) : entries[j] \in Entry
    OBVIOUS
  <2> QED BY <2>1 DEF Entry
<1>2. o \in Int
  BY <1>1
<1>3. /\ k \in 0 .. Len(entries)
      /\ \A j \in 1 .. k : entries[j].offset <= o
      /\ k = Len(entries) \/ entries[k + 1].offset > o
  BY <1>2, AckIndexProperties
<1> HIDE DEF k
<1>4. \A j \in 1 .. Len(entries) : i < j => o < entries[j].offset
  BY DEF GoodOrder
<1>5. \A j \in 1 .. Len(entries) : j < i => entries[j].offset < o
  BY DEF GoodOrder
<1>6. ~ (k < i)
  <2>1. SUFFICES ASSUME k < i PROVE FALSE
    OBVIOUS
  <2>2. k + 1 \in 1 .. Len(entries) /\ entries[k + 1].offset > o /\ k + 1 <= i
    BY <1>1, <1>3, <2>1
  <2>3. entries[k + 1].offset <= o
    BY <1>1, <1>5, <2>2
  <2> QED BY <1>1, <2>2, <2>3
<1>7. ~ (i < k)
  <2>1. SUFFICES ASSUME i < k PROVE FALSE
    OBVIOUS
  <2>2. k \in 1 .. Len(entries) /\ k \in 1 .. k
    BY <1>1, <1>3, <2>1
  <2> QED BY <1>1, <1>3, <1>4, <2>1, <2>2
<1> QED
  BY <1>1, <1>3, <1>6, <1>7 DEF k

(* What a rewrite leaves behind, as the next scan reads it.                *)
LEMMA GoodOrderRewritten ==
  ASSUME entries \in Seq(Entry), NEW n \in Nat, NEW S, GoodOrder(entries, n, S),
         NEW i \in 1 .. Len(entries)
  PROVE  LET es == Scan(Rewritten(Remaining(entries[i].offset)))
         IN  /\ es \in Seq(Entry)
             /\ GoodOrder(es, n, S \ UpTo(i))
             /\ \A k \in 1 .. Len(es) :
                  /\ es[k].offset = k - 1
                  /\ Rewritten(Remaining(entries[i].offset))[k] =
                       [id |-> es[k].id, batch |-> es[k].batch, intact |-> TRUE]
             /\ Len(es) = Len(Rewritten(Remaining(entries[i].offset)))
<1> DEFINE rs == Remaining(entries[i].offset)
           es == Scan(Rewritten(rs))
<1>1. entries[i] \in Entry /\ Len(entries) \in Nat
  OBVIOUS
<1>2. entries[i].offset \in Int
  BY <1>1 DEF Entry
<1>3. AckIndex(entries[i].offset) = i
  BY AckIndexExact
<1>4. /\ rs \in Seq(Entry)
      /\ Len(rs) = Len(entries) - i
      /\ \A k \in 1 .. Len(rs) : /\ k + i \in 1 .. Len(entries)
                                 /\ rs[k] = entries[k + i]
  BY <1>2, <1>3, RemainingProperties
<1> HIDE DEF rs
<1>5. /\ Rewritten(rs) \in Seq(Record)
      /\ Len(Rewritten(rs)) = Len(rs)
      /\ \A k \in 1 .. Len(rs) :
           Rewritten(rs)[k] = [id |-> rs[k].id, batch |-> rs[k].batch, intact |-> TRUE]
  BY <1>4, RewrittenProperties
<1>6. /\ Len(es) = Len(rs)
      /\ \A k \in 1 .. Len(rs) :
           es[k] = [id |-> rs[k].id, offset |-> k - 1, batch |-> rs[k].batch]
  BY <1>4, ScanOfRewritten
<1>7. es \in Seq(Entry)
  BY <1>5, ScanProperties
<1> HIDE DEF es
<1>8. ASSUME NEW k \in 1 .. Len(es)
      PROVE  es[k].id <= n /\ es[k].batch \in S \ UpTo(i)
  <2>1. /\ k + i \in 1 .. Len(entries) /\ k \in 1 .. Len(rs)
        /\ es[k].id = entries[k + i].id /\ es[k].batch = entries[k + i].batch
    <3>1. k \in 1 .. Len(rs)
      BY <1>6
    <3>2. es[k] = [id |-> rs[k].id, offset |-> k - 1, batch |-> rs[k].batch]
      BY <1>6, <3>1
    <3> QED BY <1>4, <3>1, <3>2
  <2>2. es[k].id <= n /\ es[k].batch \in S
    BY <2>1 DEF GoodOrder
  <2>3. ASSUME NEW j \in 1 .. i
        PROVE  entries[j].batch # es[k].batch
    <3>1. j \in 1 .. Len(entries) /\ j < k + i
      BY <1>1, <2>1
    <3> QED BY <2>1, <3>1 DEF GoodOrder
  <2> QED BY <2>2, <2>3 DEF UpTo
<1>9. ASSUME NEW k \in 1 .. Len(es), NEW l \in 1 .. Len(es), k < l
      PROVE  /\ es[k].offset < es[l].offset
             /\ es[k].id < es[l].id
             /\ es[k].batch # es[l].batch
  <2>1. /\ k + i \in 1 .. Len(entries) /\ l + i \in 1 .. Len(entries)
        /\ k + i < l + i /\ k \in 1 .. Len(rs) /\ l \in 1 .. Len(rs)
        /\ rs[k] = entries[k + i] /\ rs[l] = entries[l + i]
    <3>1. k \in 1 .. Len(rs) /\ l \in 1 .. Len(rs)
      BY <1>6
    <3>2. k + i < l + i
      BY <1>9
    <3> QED BY <1>4, <3>1, <3>2
  <2>2. /\ entries[k + i].id < entries[l + i].id
        /\ entries[k + i].batch # entries[l + i].batch
    BY <2>1 DEF GoodOrder
  <2>3. /\ es[k] = [id |-> rs[k].id, offset |-> k - 1, batch |-> rs[k].batch]
        /\ es[l] = [id |-> rs[l].id, offset |-> l - 1, batch |-> rs[l].batch]
    BY <1>6, <2>1
  <2>4. k - 1 < l - 1
    BY <1>9
  <2> QED BY <2>1, <2>2, <2>3, <2>4
<1>10. GoodOrder(es, n, S \ UpTo(i))
  BY <1>8, <1>9 DEF GoodOrder
<1>11. ASSUME NEW k \in 1 .. Len(es)
       PROVE  /\ es[k].offset = k - 1
              /\ Rewritten(rs)[k] = [id |-> es[k].id, batch |-> es[k].batch,
                                     intact |-> TRUE]
  <2>1. k \in 1 .. Len(rs)
    BY <1>6
  <2>2. es[k] = [id |-> rs[k].id, offset |-> k - 1, batch |-> rs[k].batch]
    BY <1>6, <2>1
  <2>3. Rewritten(rs)[k] = [id |-> rs[k].id, batch |-> rs[k].batch, intact |-> TRUE]
    BY <1>5, <2>1
  <2> QED BY <2>2, <2>3
<1> QED
  BY <1>5, <1>6, <1>7, <1>10, <1>11 DEF es, rs
-----------------------------------------------------------------------------
LEMMA InvInit == Init => IInv
<1>1. SUFFICES ASSUME Init PROVE IInv
  OBVIOUS
<1>2. file \in Seq(Record) /\ Len(file) = 0 /\ entries \in Seq(Entry) /\ Len(entries) = 0
  <2>1. << >> \in Seq(Record) /\ << >> \in Seq(Entry) /\ Len(<< >>) = 0
    BY EmptySeq
  <2>2. file = << >> /\ entries = << >>
    BY <1>1 DEF Init, WalInit
  <2> QED BY <2>1, <2>2
<1>3. TypeOK
  <2>1. 0 \in 0 .. MaxRestarts
    BY RestartsAssumption
  <2> QED BY <1>1, <1>2, <2>1 DEF Init, WalInit, TypeOK, WalTypeOK
<1>4. Len(Scan(file)) = 0
  <2>1. IntactPrefix(file) \in 0 .. Len(file) /\ Len(Scan(file)) = IntactPrefix(file)
    BY <1>2, IntactPrefixProperties, ScanProperties
  <2> QED BY <1>2, <2>1
<1>5. GoodOrder(entries, nextID, Pending) /\ GoodOrder(Scan(file), nextID, Pending)
  BY <1>2, <1>4 DEF GoodOrder
<1>6. Backed
  BY <1>2 DEF Backed
<1> QED
  BY <1>3, <1>5, <1>6 DEF IInv

LEMMA InvAppend ==
  ASSUME IInv, NEW b \in Batches, ClientAppend(b)
  PROVE  IInv'
<1>1. /\ WalTypeOK /\ Len(file) \in Nat /\ nextID \in Nat
      /\ file \in Seq(Record) /\ entries \in Seq(Entry) /\ Scan(file) \in Seq(Entry)
      /\ Len(Scan(file)) = IntactPrefix(file)
      /\ attempted \subseteq Batches /\ released \subseteq attempted
  BY ScanProperties DEF IInv, TypeOK, WalTypeOK
<1>2. /\ Pending' = Pending \union {b} /\ b \notin Pending
      /\ Pending \subseteq Pending' /\ nextID' = nextID + 1
  BY <1>1 DEF ClientAppend, Pending, AppendOK, AppendFails
<1>3. TypeOK'
  <2>1. WalTypeOK'
    BY <1>1, AppendOKType, AppendFailsType DEF ClientAppend
  <2> QED BY <2>1 DEF ClientAppend, IInv, TypeOK
<1>4. /\ GoodOrder(entries, nextID', Pending')
      /\ GoodOrder(Scan(file), nextID', Pending')
  BY <1>1, <1>2, GoodOrderMonotonic DEF IInv
<1>5. ASSUME NEW r \in Record, r.id = nextID + 1, r.batch = b,
             file' = Append(file, r)
      PROVE  GoodOrder(Scan(file'), nextID', Pending')
  <2>1. CASE Scan(file') = Scan(file)
    BY <1>4, <2>1
  <2>2. CASE /\ IntactPrefix(file) = Len(file)
             /\ Scan(file') = Append(Scan(file), [id |-> r.id, offset |-> Len(file),
                                                 batch |-> r.batch])
    <3> DEFINE e == [id |-> r.id, offset |-> Len(file), batch |-> r.batch]
    <3>1. e \in Entry /\ e.id = nextID + 1 /\ e.batch \notin Pending /\ e.batch = b
      BY <1>1, <1>2, <1>5 DEF Entry, Record
    <3>2. \A i \in 1 .. Len(Scan(file)) : Scan(file)[i].offset < e.offset
      <4>1. ASSUME NEW i \in 1 .. Len(Scan(file))
            PROVE  Scan(file)[i].offset = i - 1
        <5>1. Scan(file)[i] = [id |-> file[i].id, offset |-> i - 1,
                               batch |-> file[i].batch]
          BY <1>1, ScanProperties
        <5> QED BY <5>1
      <4> QED BY <1>1, <2>2, <4>1
    <3> HIDE DEF e
    <3>3. GoodOrder(Append(Scan(file), e), nextID + 1, Pending \union {b})
      BY <1>1, <3>1, <3>2, GoodOrderAppend DEF IInv
    <3> QED BY <1>2, <2>2, <3>3 DEF e
  <2> QED BY <1>1, <1>5, <2>1, <2>2, ScanOfAppend
<1>6. ASSUME NEW r \in Record, Backed, file' = Append(file, r), UNCHANGED entries
      PROVE  Backed'
  <2>1. \A i \in 1 .. Len(entries) : entries[i].offset + 1 \in 1 .. Len(file)
    <3>1. \A i \in 1 .. Len(entries) : entries[i].offset \in Nat
      <4>1. \A i \in 1 .. Len(entries) : entries[i] \in Entry
        BY <1>1
      <4> QED BY <4>1 DEF Entry
    <3>2. \A i \in 1 .. Len(entries) : entries[i].offset < Len(file)
      BY <1>6 DEF Backed
    <3> QED BY <1>1, <3>1, <3>2
  <2>2. /\ Len(file') = Len(file) + 1
        /\ \A i \in 1 .. Len(file) : file'[i] = file[i]
    BY <1>1, <1>6, AppendProperties
  <2>3. ASSUME NEW i \in 1 .. Len(entries)
        PROVE  /\ entries[i].offset < Len(file')
               /\ file'[entries[i].offset + 1] =
                    [id |-> entries[i].id, batch |-> entries[i].batch, intact |-> TRUE]
    <3>1. file'[entries[i].offset + 1] = file[entries[i].offset + 1]
      BY <2>1, <2>2
    <3>2. entries[i] \in Entry
      BY <1>1
    <3>3. entries[i].offset \in Nat
      BY <3>2 DEF Entry
    <3> QED BY <1>1, <1>6, <2>2, <3>1, <3>3 DEF Backed
  <2> QED BY <1>6, <2>3 DEF Backed
<1>7. CASE AppendOK(b)
  <2> DEFINE r == [id |-> nextID + 1, batch |-> b, intact |-> TRUE]
             e == [id |-> nextID + 1, offset |-> Len(file), batch |-> b]
  <2>1. /\ r \in Record /\ e \in Entry /\ r.id = nextID + 1 /\ r.batch = b
        /\ e.id = nextID + 1 /\ e.batch = b /\ e.offset = Len(file)
    BY <1>1 DEF Record, Entry
  <2>2. /\ file' = Append(file, r) /\ entries' = Append(entries, e)
        /\ fileOpen /\ fileOpen'
    BY <1>7 DEF AppendOK
  <2>3. Backed
    BY <2>2 DEF IInv
  <2> HIDE DEF r, e
  <2>4. GoodOrder(Scan(file'), nextID', Pending')
    BY <1>5, <2>1, <2>2
  <2>5. GoodOrder(entries', nextID', Pending')
    <3>1. \A i \in 1 .. Len(entries) : entries[i].offset < e.offset
      BY <2>1, <2>3 DEF Backed
    <3>2. GoodOrder(Append(entries, e), nextID + 1, Pending \union {b})
      BY <1>1, <1>2, <2>1, <3>1, GoodOrderAppend DEF IInv
    <3> QED BY <1>2, <2>2, <3>2
  <2>6. Backed'
    <3>1. /\ Len(file') = Len(file) + 1 /\ Len(entries') = Len(entries) + 1
          /\ \A i \in 1 .. Len(file) : file'[i] = file[i]
          /\ \A i \in 1 .. Len(entries) : entries'[i] = entries[i] /\ entries[i] \in Entry
          /\ file'[Len(file) + 1] = r /\ entries'[Len(entries) + 1] = e
          /\ Len(entries) \in Nat
      BY <1>1, <2>1, <2>2, AppendProperties
    <3>2. ASSUME NEW i \in 1 .. Len(entries')
          PROVE  /\ entries'[i].offset < Len(file')
                 /\ file'[entries'[i].offset + 1] =
                      [id |-> entries'[i].id, batch |-> entries'[i].batch,
                       intact |-> TRUE]
      <4>1. CASE i \in 1 .. Len(entries)
        <5>1. entries'[i] = entries[i] /\ entries[i].offset \in Nat
          BY <3>1, <4>1 DEF Entry
        <5>2. /\ entries[i].offset + 1 \in 1 .. Len(file)
              /\ file[entries[i].offset + 1] =
                   [id |-> entries[i].id, batch |-> entries[i].batch, intact |-> TRUE]
          BY <1>1, <2>3, <4>1, <5>1 DEF Backed
        <5> QED BY <1>1, <3>1, <5>1, <5>2
      <4>2. CASE i = Len(entries) + 1
        <5>1. /\ entries'[i].offset = Len(file) /\ entries'[i].id = nextID + 1
              /\ entries'[i].batch = b
          BY <2>1, <3>1, <4>2
        <5>2. file'[Len(file) + 1] = [id |-> nextID + 1, batch |-> b, intact |-> TRUE]
          BY <3>1 DEF r
        <5> QED BY <1>1, <3>1, <5>1, <5>2
      <4>3. i \in 1 .. Len(entries) \/ i = Len(entries) + 1
        BY <3>1
      <4> QED BY <4>1, <4>2, <4>3
    <3> QED BY <3>2 DEF Backed
  <2> QED BY <1>3, <2>4, <2>5, <2>6 DEF IInv
<1>8. CASE AppendFails(b)
  <2>1. UNCHANGED <<fileOpen, entries>>
    BY <1>8 DEF AppendFails
  <2>2. CASE UNCHANGED file
    <3>1. fileOpen' => Backed'
      BY <2>1, <2>2 DEF IInv, Backed
    <3> QED BY <1>3, <1>4, <2>1, <2>2, <3>1 DEF IInv
  <2>3. ASSUME NEW x \in BOOLEAN, fileOpen,
               file' = Append(file, [id |-> nextID + 1, batch |-> b, intact |-> x])
        PROVE  IInv'
    <3> DEFINE r == [id |-> nextID + 1, batch |-> b, intact |-> x]
    <3>1. r \in Record /\ r.id = nextID + 1 /\ r.batch = b /\ file' = Append(file, r)
      BY <1>1, <2>3 DEF Record
    <3> HIDE DEF r
    <3>2. GoodOrder(Scan(file'), nextID', Pending') /\ Backed'
      BY <1>5, <1>6, <2>1, <2>3, <3>1 DEF IInv
    <3> QED BY <1>3, <1>4, <2>1, <3>2 DEF IInv
  <2> QED BY <1>8, <2>2, <2>3 DEF AppendFails
<1> QED
  BY <1>7, <1>8 DEF ClientAppend

LEMMA InvAcknowledge ==
  ASSUME "stale" \notin AckFaults, IInv,
         NEW i \in 1 .. Len(entries), ClientAcknowledge(i)
  PROVE  IInv'
<1> DEFINE o == entries[i].offset
           f == Rewritten(Remaining(o))
<1>1. /\ WalTypeOK /\ nextID \in Nat /\ Len(entries) \in Nat
      /\ file \in Seq(Record) /\ entries \in Seq(Entry) /\ Scan(file) \in Seq(Entry)
      /\ attempted \subseteq Batches /\ released \subseteq attempted
      /\ promised \subseteq attempted /\ UNCHANGED <<attempted, restarts>>
      /\ GoodOrder(entries, nextID, Pending)
  BY ScanProperties DEF IInv, TypeOK, WalTypeOK, ClientAcknowledge
<1>2. o \in Int
  <2>1. entries[i] \in Entry
    BY <1>1
  <2> QED BY <2>1 DEF Entry
<1>3. AckIndex(o) = i
  BY <1>1, AckIndexExact
<1>4. UpTo(i) \subseteq attempted
  <2>1. \A j \in 1 .. i : j \in 1 .. Len(entries)
    BY <1>1
  <2> QED BY <1>1, <2>1 DEF UpTo, GoodOrder, Pending
<1>5. /\ Scan(f) \in Seq(Entry)
      /\ GoodOrder(Scan(f), nextID, Pending \ UpTo(i))
      /\ \A k \in 1 .. Len(Scan(f)) :
           /\ Scan(f)[k].offset = k - 1
           /\ f[k] = [id |-> Scan(f)[k].id, batch |-> Scan(f)[k].batch, intact |-> TRUE]
      /\ Len(Scan(f)) = Len(f)
  BY <1>1, GoodOrderRewritten
<1>6. WalTypeOK'
  BY <1>1, <1>2, AcknowledgeOKType, AcknowledgeFailsType DEF ClientAcknowledge
<1>7. TypeOK'
  BY <1>1, <1>4, <1>6 DEF ClientAcknowledge, IInv, TypeOK
<1> HIDE DEF f
<1>8. CASE /\ AcknowledgeOK(o)
           /\ released' = released \union UpTo(i)
  <2>1. /\ file' = f /\ entries' = Scan(f) /\ nextID' = nextID
        /\ Pending' = Pending \ UpTo(i)
    BY <1>1, <1>3, <1>8 DEF AcknowledgeOK, f, Pending
  <2>2. Backed'
    <3>1. ASSUME NEW k \in 1 .. Len(entries')
          PROVE  /\ entries'[k].offset < Len(file')
                 /\ file'[entries'[k].offset + 1] =
                      [id |-> entries'[k].id, batch |-> entries'[k].batch,
                       intact |-> TRUE]
      <4>1. k \in 1 .. Len(Scan(f)) /\ Len(Scan(f)) \in Nat
        BY <1>5, <2>1
      <4>2. /\ Scan(f)[k].offset = k - 1 /\ (k - 1) + 1 = k /\ k - 1 < Len(f)
            /\ f[k] = [id |-> Scan(f)[k].id, batch |-> Scan(f)[k].batch,
                       intact |-> TRUE]
        BY <1>5, <4>1
      <4> QED BY <2>1, <4>2
    <3> QED BY <3>1 DEF Backed
  <2> QED BY <1>5, <1>7, <2>1, <2>2 DEF IInv
<1>9. CASE AcknowledgeFails(o) /\ UNCHANGED released
  <2>1. /\ UNCHANGED <<entries, nextID>> /\ Pending' = Pending
    BY <1>1, <1>9 DEF AcknowledgeFails, Pending
  <2>2. CASE UNCHANGED file /\ (fileOpen' => fileOpen)
    <3>1. fileOpen' => Backed'
      BY <2>1, <2>2 DEF IInv, Backed
    <3> QED BY <1>7, <2>1, <2>2, <3>1 DEF IInv
  <2>3. CASE file' = f /\ ~ fileOpen'
    <3>1. GoodOrder(Scan(f), nextID, Pending)
      BY <1>1, <1>5, GoodOrderMonotonic
    <3> QED BY <1>1, <1>7, <2>1, <2>3, <3>1 DEF IInv
  <2> QED BY <1>9, <2>2, <2>3 DEF AcknowledgeFails, f
<1> QED
  BY <1>8, <1>9 DEF ClientAcknowledge

LEMMA InvRestart ==
  ASSUME IInv, ClientRestart
  PROVE  IInv'
<1> DEFINE es == Scan(file)
<1>1. /\ WalTypeOK /\ file \in Seq(Record) /\ es \in Seq(Entry) /\ nextID \in Nat
      /\ restarts \in Nat /\ GoodOrder(es, nextID, Pending)
      /\ \A k \in 1 .. Len(es) :
           /\ k \in 1 .. Len(file)
           /\ file[k].intact
           /\ es[k] = [id |-> file[k].id, offset |-> k - 1, batch |-> file[k].batch]
  BY ScanProperties, RestartsAssumption DEF IInv, TypeOK, WalTypeOK
<1>2. /\ file' = file /\ entries' = es /\ nextID' = LastID(es) /\ Pending' = Pending
  BY DEF ClientRestart, OpenWAL, Pending
<1>3. TypeOK'
  BY <1>1, OpenWALType, RestartsAssumption DEF ClientRestart, IInv, TypeOK
<1> HIDE DEF es
<1>4. GoodOrder(es, LastID(es), Pending)
  <2>1. ASSUME NEW k \in 1 .. Len(es)
        PROVE  es[k].id <= LastID(es)
    <3>1. /\ Len(es) \in 1 .. Len(es) /\ es # << >> /\ k <= Len(es)
          /\ es[k] \in Entry
      BY <1>1
    <3>2. es[k].id \in Nat
      BY <3>1 DEF Entry
    <3>3. k < Len(es) => es[k].id < es[Len(es)].id
      BY <1>1, <3>1 DEF GoodOrder
    <3>4. LastID(es) = es[Len(es)].id
      BY <3>1 DEF LastID
    <3>5. LastID(es) \in Nat
      BY <1>1, LastIDType
    <3> QED BY <3>1, <3>2, <3>3, <3>4, <3>5
  <2> QED BY <1>1, <2>1 DEF GoodOrder
<1>5. Backed'
  <2>1. ASSUME NEW k \in 1 .. Len(es)
        PROVE  /\ es[k].offset < Len(file)
               /\ file[es[k].offset + 1] =
                    [id |-> es[k].id, batch |-> es[k].batch, intact |-> TRUE]
    <3>1. /\ es[k] = [id |-> file[k].id, offset |-> k - 1, batch |-> file[k].batch]
          /\ file[k] \in Record /\ file[k].intact /\ (k - 1) + 1 = k /\ k - 1 < Len(file)
      BY <1>1
    <3>2. file[k] = [id |-> file[k].id, batch |-> file[k].batch, intact |-> TRUE]
      BY <3>1 DEF Record
    <3> QED BY <3>1, <3>2
  <2> QED BY <1>2, <2>1 DEF Backed
<1> QED
  BY <1>2, <1>3, <1>4, <1>5 DEF IInv, es

LEMMA InvClose ==
  ASSUME IInv, ClientClose
  PROVE  IInv'
<1>1. TypeOK'
  BY CloseWALType DEF IInv, TypeOK, ClientClose, clientVars
<1> QED
  BY <1>1 DEF IInv, ClientClose, CloseWAL, clientVars, Pending

LEMMA InvStutter ==
  ASSUME IInv, UNCHANGED vars
  PROVE  IInv'
BY DEF IInv, TypeOK, WalTypeOK, vars, Pending, Backed

(* The entries of the process and those of the file stay in good order.    *)
THEOREM InvHolds ==
  ASSUME "stale" \notin AckFaults
  PROVE  Spec => []IInv
<1>1. IInv /\ [Next]_vars => IInv'
  BY InvAppend, InvAcknowledge, InvClose, InvRestart, InvStutter DEF Next
<1> QED
  BY InvInit, <1>1, PTL DEF Spec

(* The variables keep their types.                                         *)
THEOREM TypeCorrect ==
  ASSUME "stale" \notin AckFaults
  PROVE  Spec => []TypeOK
BY InvHolds, PTL DEF IInv

LEMMA InvImpliesMirror == IInv => EntriesMirrorFile
<1>1. SUFFICES ASSUME IInv PROVE EntriesMirrorFile
  OBVIOUS
<1>2. DOMAIN entries = 1 .. Len(entries)
  BY <1>1 DEF IInv, TypeOK, WalTypeOK
<1> QED
  BY <1>1, <1>2 DEF IInv, Backed, GoodOrder, EntriesMirrorFile

(* Every listed entry is intact where its offset says, in the order of ids *)
(* and offsets (wal.go:97-158): Acknowledge drops exactly the prefix up to *)
(* the acknowledged entry.  Torn records in the file do not disturb it.    *)
THEOREM EntriesMirrorFileHolds ==
  ASSUME "stale" \notin AckFaults
  PROVE  Spec => []EntriesMirrorFile
BY InvHolds, InvImpliesMirror, PTL

LEMMA InvImpliesFresh == IInv => IdsAreFresh /\ ReleasedNeverReturns
<1>1. SUFFICES ASSUME IInv PROVE IdsAreFresh /\ ReleasedNeverReturns
  OBVIOUS
<1>2. DOMAIN Scan(file) = 1 .. Len(Scan(file))
  <2>1. Scan(file) \in Seq(Entry)
    BY <1>1, ScanProperties DEF IInv, TypeOK, WalTypeOK
  <2> QED BY <2>1
<1> QED
  BY <1>1, <1>2 DEF IInv, GoodOrder, Pending, IdsAreFresh, ReleasedNeverReturns

(* OpenWAL's numbering (wal.go:63-66) hands out no id that a record still  *)
(* in reach of a scan has.                                                 *)
THEOREM IdsAreFreshHolds ==
  ASSUME "stale" \notin AckFaults
  PROVE  Spec => []IdsAreFresh
BY InvHolds, InvImpliesFresh, PTL

(* What was acknowledged with success is in no later scan of the file,     *)
(* whatever fails afterwards.                                              *)
THEOREM ReleasedNeverReturnsHolds ==
  ASSUME "stale" \notin AckFaults
  PROVE  Spec => []ReleasedNeverReturns
BY InvHolds, InvImpliesFresh, PTL
-----------------------------------------------------------------------------
(* The log loses nothing as long as no append tears a record: then a scan  *)
(* reads the whole file.  A promised batch is in the file, and while the   *)
(* file is open also among the entries, from which the file is rewritten.  *)
Has(s, b) == \E i \in 1 .. Len(s) : s[i].batch = b

Lossless ==
  /\ \A i \in 1 .. Len(file) : file[i].intact
  /\ \A b \in promised : Has(file, b) /\ (fileOpen => Has(entries, b))

LEMMA HasAfterAppend ==
  ASSUME NEW S, NEW s \in Seq(S), NEW e \in S
  PROVE  /\ \A b : Has(s, b) => Has(Append(s, e), b)
         /\ Has(Append(s, e), e.batch)
<1>1. /\ Len(s) \in Nat /\ Len(Append(s, e)) = Len(s) + 1
      /\ \A i \in 1 .. Len(s) : Append(s, e)[i] = s[i]
      /\ Append(s, e)[Len(s) + 1] = e
  BY AppendProperties
<1> QED
  BY <1>1 DEF Has

(* A scan of an intact file lists every batch in it, and nothing else.     *)
LEMMA ScanOfIntact ==
  ASSUME NEW f \in Seq(Record), \A i \in 1 .. Len(f) : f[i].intact
  PROVE  /\ Len(Scan(f)) = Len(f)
         /\ \A i \in 1 .. Len(f) : Scan(f)[i].batch = f[i].batch
<1>1. Len(Scan(f)) = Len(f)
  BY ScanProperties, IntactFile
<1>2. ASSUME NEW i \in 1 .. Len(f)
      PROVE  Scan(f)[i].batch = f[i].batch
  <2>1. Scan(f)[i] = [id |-> f[i].id, offset |-> i - 1, batch |-> f[i].batch]
    BY <1>1, ScanProperties
  <2> QED BY <2>1
<1> QED
  BY <1>1, <1>2

LEMMA LosslessAppend ==
  ASSUME "torn" \notin AppendResidues, IInv, Lossless,
         NEW b \in Batches, ClientAppend(b)
  PROVE  Lossless'
<1>1. /\ file \in Seq(Record) /\ entries \in Seq(Entry)
      /\ nextID \in Nat /\ Len(file) \in Nat
  BY DEF IInv, TypeOK, WalTypeOK
<1> DEFINE r == [id |-> nextID + 1, batch |-> b, intact |-> TRUE]
           e == [id |-> nextID + 1, offset |-> Len(file), batch |-> b]
<1>2. /\ r \in Record /\ e \in Entry /\ r.batch = b /\ e.batch = b /\ r.intact
  BY <1>1 DEF Record, Entry
<1> HIDE DEF r, e
<1>3. ASSUME file' = Append(file, r)
      PROVE  /\ \A i \in 1 .. Len(file') : file'[i].intact
             /\ \A c : Has(file, c) => Has(file', c)
             /\ Has(file', b)
  <2>1. /\ Len(file') = Len(file) + 1 /\ file'[Len(file) + 1] = r
        /\ \A i \in 1 .. Len(file) : file'[i] = file[i]
    BY <1>1, <1>2, <1>3, AppendProperties
  <2>2. ASSUME NEW i \in 1 .. Len(file')
        PROVE  file'[i].intact
    <3>1. i \in 1 .. Len(file) \/ i = Len(file) + 1
      BY <1>1, <2>1
    <3> QED BY <1>2, <2>1, <3>1 DEF Lossless
  <2>3. /\ \A c : Has(file, c) => Has(Append(file, r), c)
        /\ Has(Append(file, r), b)
    BY <1>1, <1>2, HasAfterAppend
  <2> QED BY <1>3, <2>2, <2>3
<1>4. CASE AppendOK(b) /\ promised' = promised \union {b}
  <2>1. file' = Append(file, r) /\ entries' = Append(entries, e) /\ fileOpen
    BY <1>4 DEF AppendOK, r, e
  <2>2. /\ \A c : Has(entries, c) => Has(entries', c)
        /\ Has(entries', b)
    BY <1>1, <1>2, <2>1, HasAfterAppend
  <2> QED BY <1>3, <1>4, <2>1, <2>2 DEF Lossless
<1>5. CASE AppendFails(b) /\ UNCHANGED promised
  <2>1. UNCHANGED <<fileOpen, entries>> /\ (file' = file \/ file' = Append(file, r))
    BY <1>5 DEF AppendFails, r
  <2>2. CASE file' = file
    BY <1>5, <2>1, <2>2 DEF Lossless
  <2>3. CASE file' = Append(file, r)
    BY <1>3, <1>5, <2>1, <2>3 DEF Lossless
  <2> QED BY <2>1, <2>2, <2>3
<1> QED
  BY <1>4, <1>5 DEF ClientAppend

LEMMA LosslessAcknowledge ==
  ASSUME "stale" \notin AckFaults, IInv, Lossless,
         NEW i \in 1 .. Len(entries), ClientAcknowledge(i)
  PROVE  Lossless'
<1> DEFINE o == entries[i].offset
           rs == Remaining(o)
           f == Rewritten(rs)
<1>1. /\ entries \in Seq(Entry) /\ Len(entries) \in Nat
      /\ GoodOrder(entries, nextID, Pending)
      /\ promised' = promised \ UpTo(i)
  BY DEF IInv, TypeOK, WalTypeOK, ClientAcknowledge
<1>2. o \in Int
  <2>1. entries[i] \in Entry
    BY <1>1
  <2> QED BY <2>1 DEF Entry
<1>3. AckIndex(o) = i
  BY <1>1, AckIndexExact
<1>4. /\ rs \in Seq(Entry) /\ Len(rs) = Len(entries) - i
      /\ \A k \in 1 .. Len(rs) : rs[k] = entries[k + i]
  BY <1>1, <1>2, <1>3, RemainingProperties
<1> HIDE DEF rs
<1>5. /\ f \in Seq(Record) /\ Len(f) = Len(rs)
      /\ \A k \in 1 .. Len(rs) :
           f[k] = [id |-> rs[k].id, batch |-> rs[k].batch, intact |-> TRUE]
  BY <1>4, RewrittenProperties
<1> HIDE DEF f
<1>6. ASSUME NEW k \in 1 .. Len(f)
      PROVE  f[k].intact /\ f[k].batch = rs[k].batch
  <2>1. f[k] = [id |-> rs[k].id, batch |-> rs[k].batch, intact |-> TRUE]
    BY <1>5
  <2> QED BY <2>1
<1>7. /\ Len(Scan(f)) = Len(f)
      /\ \A k \in 1 .. Len(f) : Scan(f)[k].batch = f[k].batch
  BY <1>5, <1>6, ScanOfIntact
<1>8. ASSUME NEW b \in promised', fileOpen
      PROVE  Has(f, b) /\ Has(Scan(f), b)
  <2>1. b \in promised /\ b \notin UpTo(i)
    BY <1>1
  <2>2. PICK j \in 1 .. Len(entries) : entries[j].batch = b
    BY <1>8, <2>1 DEF Lossless, Has
  <2>3. j \notin 1 .. i
    BY <2>1, <2>2 DEF UpTo
  <2>4. j - i \in 1 .. Len(rs) /\ (j - i) + i = j
    BY <1>1, <1>4, <2>3
  <2>5. rs[j - i].batch = b
    BY <1>4, <2>2, <2>4
  <2> QED BY <1>5, <1>6, <1>7, <2>4, <2>5 DEF Has
<1>9. CASE AcknowledgeOK(o)
  <2>1. file' = f /\ entries' = Scan(f) /\ fileOpen
    BY <1>3, <1>9, <1>2 DEF AcknowledgeOK, f, rs
  <2> QED BY <1>6, <1>8, <2>1 DEF Lossless
<1>10. CASE AcknowledgeFails(o)
  <2>1. UNCHANGED entries
    BY <1>10 DEF AcknowledgeFails
  <2>2. CASE UNCHANGED file /\ (fileOpen' => fileOpen)
    BY <1>1, <2>1, <2>2 DEF Lossless
  <2>3. CASE file' = f /\ fileOpen /\ ~ fileOpen'
    BY <1>6, <1>8, <2>3 DEF Lossless
  <2> QED BY <1>10, <2>2, <2>3 DEF AcknowledgeFails, f, rs
<1> QED
  BY <1>9, <1>10 DEF ClientAcknowledge

LEMMA LosslessRestart ==
  ASSUME IInv, Lossless, ClientRestart
  PROVE  Lossless'
<1>1. file \in Seq(Record) /\ file' = file /\ entries' = Scan(file) /\ promised' = promised
  BY DEF IInv, TypeOK, WalTypeOK, ClientRestart, OpenWAL
<1>2. /\ Len(Scan(file)) = Len(file)
      /\ \A i \in 1 .. Len(file) : Scan(file)[i].batch = file[i].batch
  BY <1>1, ScanOfIntact DEF Lossless
<1>3. \A b : Has(file, b) => Has(Scan(file), b)
  BY <1>2 DEF Has
<1> QED
  BY <1>1, <1>3 DEF Lossless

LEMMA LosslessImpliesRecoverable == IInv /\ Lossless => PromisedIsRecoverable
<1>1. SUFFICES ASSUME IInv, Lossless PROVE PromisedIsRecoverable
  OBVIOUS
<1>2. file \in Seq(Record) /\ Scan(file) \in Seq(Entry)
  BY <1>1, ScanProperties DEF IInv, TypeOK, WalTypeOK
<1>3. /\ Len(Scan(file)) = Len(file)
      /\ \A i \in 1 .. Len(file) : Scan(file)[i].batch = file[i].batch
  BY <1>1, <1>2, ScanOfIntact DEF Lossless
<1>4. DOMAIN Scan(file) = 1 .. Len(file)
  BY <1>2, <1>3
<1> QED
  BY <1>1, <1>3, <1>4 DEF Lossless, Has, PromisedIsRecoverable

LEMMA LosslessHolds ==
  ASSUME "stale" \notin AckFaults, "torn" \notin AppendResidues
  PROVE  Spec => []Lossless
<1>1. Init => Lossless
  <2>1. SUFFICES ASSUME Init PROVE Lossless
    OBVIOUS
  <2>2. file = << >> /\ promised = {}
    BY <2>1 DEF Init, WalInit
  <2> QED BY <2>2 DEF Lossless
<1>2. IInv /\ Lossless /\ [Next]_vars => Lossless'
  <2>1. SUFFICES ASSUME IInv, Lossless, [Next]_vars PROVE Lossless'
    OBVIOUS
  <2>2. CASE ClientClose
    BY <2>1, <2>2 DEF ClientClose, CloseWAL, clientVars, Lossless
  <2>3. CASE UNCHANGED vars
    BY <2>1, <2>3 DEF vars, Lossless
  <2> QED
    BY <2>1, <2>2, <2>3, LosslessAppend, LosslessAcknowledge, LosslessRestart DEF Next
<1> QED
  BY <1>1, <1>2, InvHolds, PTL DEF Spec

(* Whatever the moment of a crash, OpenWAL lists every batch whose Append  *)
(* returned nil and that was not acknowledged, if no append tears a        *)
(* record (wal.go:97-217).                                                 *)
THEOREM PromisedIsRecoverableHolds ==
  ASSUME "stale" \notin AckFaults, "torn" \notin AppendResidues
  PROVE  Spec => []PromisedIsRecoverable
BY LosslessHolds, InvHolds, LosslessImpliesRecoverable, PTL
-----------------------------------------------------------------------------
(* The refinement.  What the abstract log is of a file and of the entries  *)
(* some process has in memory, when the file has no torn record.           *)
Whole(f) == f \in Seq(Record) /\ \A i \in 1 .. Len(f) : f[i].intact

ListedIn(es, r) == \E k \in DOMAIN es : es[k].id = r.id

View(f, es) ==
  [i \in 1 .. Len(f) |-> [batch |-> f[i].batch, sure |-> ListedIn(es, f[i])]]

ViewSlot == [batch : Batches, sure : BOOLEAN]

LEMMA ViewType ==
  ASSUME NEW f, Whole(f), NEW es
  PROVE  /\ View(f, es) \in Seq(ViewSlot)
         /\ Len(View(f, es)) = Len(f)
         /\ \A i \in 1 .. Len(f) :
              View(f, es)[i] = [batch |-> f[i].batch, sure |-> ListedIn(es, f[i])]
<1>1. Len(f) \in Nat /\ \A i \in 1 .. Len(f) : f[i] \in Record
  BY DEF Whole
<1>2. \A i \in 1 .. Len(f) :
        [batch |-> f[i].batch, sure |-> ListedIn(es, f[i])] \in ViewSlot
  BY <1>1 DEF Record, ListedIn, ViewSlot
<1> QED BY <1>1, <1>2 DEF View

LEMMA SlotsAreView ==
  /\ Whole(file) => Slots = View(file, entries)
  /\ Whole(file') => Slots' = View(file', entries')
<1>1. \A f : Whole(f) => IntactPrefix(f) = Len(f)
  BY IntactFile DEF Whole
<1> QED BY <1>1 DEF Slots, View, Listed, ListedIn

LEMMA SameSequence ==
  ASSUME NEW S, NEW s \in Seq(S), NEW t \in Seq(S), Len(s) = Len(t),
         \A i \in 1 .. Len(s) : s[i] = t[i]
  PROVE  s = t
BY SeqEqual

(* A record that is appended is the last slot, sure if the process lists   *)
(* it; the others are listed as before, since its id is larger than theirs.*)
LEMMA ViewAppend ==
  ASSUME NEW f, Whole(f), NEW es \in Seq(Entry), NEW n \in Nat,
         \A i \in 1 .. Len(f) : f[i].id <= n, \A k \in 1 .. Len(es) : es[k].id <= n,
         NEW r \in Record, r.intact, r.id = n + 1
  PROVE  /\ Whole(Append(f, r))
         /\ View(Append(f, r), es) = Append(View(f, es), [batch |-> r.batch, sure |-> FALSE])
         /\ \A e \in Entry : e.id = n + 1 =>
              View(Append(f, r), Append(es, e)) =
                Append(View(f, es), [batch |-> r.batch, sure |-> TRUE])
<1> DEFINE g == Append(f, r)
<1>1. /\ f \in Seq(Record) /\ Len(f) \in Nat /\ g \in Seq(Record) /\ Len(g) = Len(f) + 1
      /\ \A i \in 1 .. Len(f) : g[i] = f[i] /\ f[i] \in Record
      /\ g[Len(f) + 1] = r
  BY AppendProperties DEF Whole
<1>2. Whole(g)
  <2>1. \A i \in 1 .. Len(g) : i \in 1 .. Len(f) \/ i = Len(f) + 1
    BY <1>1
  <2> QED BY <1>1, <2>1 DEF Whole
<1>3. \A i \in 1 .. Len(f) : f[i].id # n + 1 /\ g[i].id = f[i].id /\ g[i].batch = f[i].batch
  BY <1>1 DEF Record
<1>4. \A k \in 1 .. Len(es) : es[k].id # n + 1
  <2>1. \A k \in 1 .. Len(es) : es[k] \in Entry
    OBVIOUS
  <2> QED BY <2>1 DEF Entry
<1>5. DOMAIN es = 1 .. Len(es)
  OBVIOUS
<1> HIDE DEF g
<1>6. ASSUME NEW fs \in Seq(Entry), NEW x \in BOOLEAN,
             ListedIn(fs, r) = x, \A i \in 1 .. Len(f) : ListedIn(fs, f[i]) <=> ListedIn(es, f[i])
      PROVE  View(g, fs) = Append(View(f, es), [batch |-> r.batch, sure |-> x])
  <2> DEFINE v == View(f, es)
             s == [batch |-> r.batch, sure |-> x]
  <2>1. s \in ViewSlot
    BY DEF ViewSlot, Record
  <2>2. /\ v \in Seq(ViewSlot) /\ Len(v) = Len(f)
        /\ \A i \in 1 .. Len(f) : v[i] = [batch |-> f[i].batch, sure |-> ListedIn(es, f[i])]
    BY ViewType
  <2>3. /\ View(g, fs) \in Seq(ViewSlot) /\ Len(View(g, fs)) = Len(g)
        /\ \A i \in 1 .. Len(g) :
             View(g, fs)[i] = [batch |-> g[i].batch, sure |-> ListedIn(fs, g[i])]
    BY <1>2, ViewType
  <2> HIDE DEF v, s
  <2>4. /\ Append(v, s) \in Seq(ViewSlot) /\ Len(Append(v, s)) = Len(f) + 1
        /\ \A i \in 1 .. Len(f) : Append(v, s)[i] = v[i]
        /\ Append(v, s)[Len(f) + 1] = s
    BY <2>1, <2>2, AppendProperties
  <2>5. ASSUME NEW i \in 1 .. Len(g)
        PROVE  View(g, fs)[i] = Append(v, s)[i]
    <3>1. CASE i \in 1 .. Len(f)
      <4>1. View(g, fs)[i] = [batch |-> f[i].batch, sure |-> ListedIn(fs, f[i])]
        BY <1>1, <2>3, <3>1
      <4>2. Append(v, s)[i] = [batch |-> f[i].batch, sure |-> ListedIn(es, f[i])]
        BY <2>2, <2>4, <3>1
      <4>3. ListedIn(fs, f[i]) = ListedIn(es, f[i])
        BY <1>6, <3>1 DEF ListedIn
      <4> QED BY <4>1, <4>2, <4>3
    <3>2. CASE i = Len(f) + 1
      <4>1. View(g, fs)[i] = [batch |-> r.batch, sure |-> ListedIn(fs, r)]
        BY <1>1, <2>3, <3>2
      <4>2. ListedIn(fs, r) = x
        BY <1>6
      <4> QED BY <2>4, <3>2, <4>1, <4>2 DEF s
    <3>3. i \in 1 .. Len(f) \/ i = Len(f) + 1
      BY <1>1
    <3> QED BY <3>1, <3>2, <3>3
  <2>6. View(g, fs) = Append(v, s)
    BY <1>1, <2>3, <2>4, <2>5, SameSequence
  <2> QED BY <2>6 DEF v, s
<1>7. View(g, es) = Append(View(f, es), [batch |-> r.batch, sure |-> FALSE])
  <2>1. ListedIn(es, r) = FALSE
    BY <1>4, <1>5 DEF ListedIn
  <2> QED BY <1>6, <2>1
<1>8. ASSUME NEW e \in Entry, e.id = n + 1
      PROVE  View(g, Append(es, e)) = Append(View(f, es), [batch |-> r.batch, sure |-> TRUE])
  <2>1. /\ Append(es, e) \in Seq(Entry) /\ DOMAIN Append(es, e) = 1 .. Len(es) + 1
        /\ Len(es) \in Nat
        /\ \A k \in 1 .. Len(es) : Append(es, e)[k] = es[k]
        /\ Append(es, e)[Len(es) + 1] = e
    BY AppendProperties
  <2>2. ListedIn(Append(es, e), r) = TRUE
    BY <1>8, <2>1 DEF ListedIn
  <2>3. ASSUME NEW i \in 1 .. Len(f)
        PROVE  ListedIn(Append(es, e), f[i]) <=> ListedIn(es, f[i])
    <3>1. \A k \in 1 .. Len(es) + 1 : k \in 1 .. Len(es) \/ k = Len(es) + 1
      BY <2>1
    <3>2. 1 .. Len(es) \subseteq 1 .. Len(es) + 1
      BY <2>1
    <3> QED BY <1>3, <1>5, <1>8, <2>1, <3>1, <3>2 DEF ListedIn
  <2> QED BY <1>6, <2>1, <2>2, <2>3
<1> QED BY <1>2, <1>7, <1>8 DEF g

(* Offsets that grow are at least the places they have in the list.        *)
LEMMA GrowingOffsets ==
  ASSUME NEW es \in Seq(Entry), \A k, l \in 1 .. Len(es) : k < l => es[k].offset < es[l].offset
  PROVE  \A k \in 1 .. Len(es) : k <= es[k].offset + 1
<1> DEFINE bad == {k \in 1 .. Len(es) : ~ (k <= es[k].offset + 1)}
<1>1. Len(es) \in Nat /\ \A k \in 1 .. Len(es) : es[k].offset \in Nat
  <2>1. \A k \in 1 .. Len(es) : es[k] \in Entry
    OBVIOUS
  <2> QED BY <2>1 DEF Entry
<1>2. ASSUME bad # {} PROVE FALSE
  <2>1. PICK k \in bad : \A l \in bad : k <= l
    <3>1. bad \subseteq Nat
      OBVIOUS
    <3> HIDE DEF bad
    <3> QED BY <1>2, <3>1, LeastNat
  <2>2. k \in 1 .. Len(es) /\ k > es[k].offset + 1
    BY <1>1, <2>1
  <2>3. k - 1 \in 1 .. Len(es) /\ k - 1 < k /\ k \in Nat
    BY <1>1, <2>2
  <2>4. k - 1 <= es[k - 1].offset + 1
    <3>1. ~ (k <= k - 1)
      BY <2>3
    <3>2. k - 1 \notin bad
      BY <2>1, <3>1
    <3> QED BY <2>3, <3>2
  <2>5. es[k - 1].offset < es[k].offset
    BY <2>2, <2>3
  <2> QED BY <1>1, <2>2, <2>3, <2>4, <2>5
<1> QED BY <1>1, <1>2

Released(v, w) ==
  \E n \in 1 .. Len(v), m \in 0 .. Len(v) :
    \E place \in [1 .. m -> {j \in n + 1 .. Len(v) : v[j].sure}] :
      /\ \A k, l \in 1 .. m : k < l => place[k] < place[l]
      /\ \A j \in {j \in n + 1 .. Len(v) : v[j].sure} : \E k \in 1 .. m : place[k] = j
      /\ w = [k \in 1 .. m |-> v[place[k]]]

(* A rewrite without the first i of the entries: the abstract log without  *)
(* what lies up to the i-th one's slot and what is in doubt.               *)
LEMMA ViewRewritten ==
  ASSUME NEW f, Whole(f), NEW es \in Seq(Entry), NEW i \in 1 .. Len(es),
         \A k, l \in 1 .. Len(es) : k < l => es[k].offset < es[l].offset,
         \A k, l \in 1 .. Len(f) : k < l => f[k].id < f[l].id,
         \A k \in 1 .. Len(es) :
           /\ es[k].offset < Len(f)
           /\ f[es[k].offset + 1].id = es[k].id
           /\ f[es[k].offset + 1].batch = es[k].batch,
         NEW g, Whole(g), Len(g) = Len(es) - i,
         \A k \in 1 .. Len(g) : g[k].id = es[k + i].id /\ g[k].batch = es[k + i].batch,
         NEW fs, \A k \in 1 .. Len(g) : ListedIn(fs, g[k])
  PROVE  Released(View(f, es), View(g, fs))
<1> DEFINE v == View(f, es)
           n == es[i].offset + 1
           m == Len(es) - i
           beyond == {j \in n + 1 .. Len(v) : v[j].sure}
           place == [k \in 1 .. m |-> es[k + i].offset + 1]
<1>1. /\ Len(es) \in Nat /\ Len(f) \in Nat /\ DOMAIN es = 1 .. Len(es)
      /\ \A k \in 1 .. Len(es) : es[k] \in Entry /\ es[k].offset \in Nat /\ es[k].id \in Nat
      /\ \A k \in 1 .. Len(f) : f[k].id \in Nat
  <2>1. \A k \in 1 .. Len(es) : es[k] \in Entry
    OBVIOUS
  <2>2. \A k \in 1 .. Len(es) : es[k].offset \in Nat /\ es[k].id \in Nat
    BY <2>1 DEF Entry
  <2>3. Len(f) \in Nat /\ \A k \in 1 .. Len(f) : f[k] \in Record
    BY DEF Whole
  <2>4. \A k \in 1 .. Len(f) : f[k].id \in Nat
    BY <2>3 DEF Record
  <2>5. Len(es) \in Nat /\ DOMAIN es = 1 .. Len(es)
    OBVIOUS
  <2> QED BY <2>1, <2>2, <2>3, <2>4, <2>5
<1>2. /\ Len(v) = Len(f)
      /\ \A j \in 1 .. Len(f) : v[j] = [batch |-> f[j].batch, sure |-> ListedIn(es, f[j])]
  BY ViewType
<1>3. \A k \in 1 .. Len(es) : es[k].offset + 1 \in 1 .. Len(f)
  BY <1>1
<1> HIDE DEF v
<1>4. n \in 1 .. Len(v) /\ n \in Nat
  BY <1>1, <1>2, <1>3
<1>5. m \in 0 .. Len(v) /\ m \in Nat
  <2>1. Len(es) \in 1 .. Len(es)
    BY <1>1
  <2>2. Len(es) <= es[Len(es)].offset + 1
    BY <2>1, GrowingOffsets
  <2> QED BY SMTT(30), <1>1, <1>2, <1>3, <2>1, <2>2
<1>6. \A k \in 1 .. m : k + i \in 1 .. Len(es) /\ i < k + i
  BY <1>1
<1>7. ASSUME NEW k \in 1 .. m
      PROVE  /\ es[k + i].offset + 1 \in beyond
             /\ v[es[k + i].offset + 1] = [batch |-> es[k + i].batch, sure |-> TRUE]
  <2> DEFINE o == es[k + i].offset
  <2>1. /\ k + i \in 1 .. Len(es) /\ o + 1 \in 1 .. Len(f) /\ o \in Nat /\ es[i].offset < o
        /\ f[o + 1].id = es[k + i].id /\ f[o + 1].batch = es[k + i].batch
    BY <1>1, <1>3, <1>6
  <2> HIDE DEF o
  <2>2. ListedIn(es, f[o + 1]) = TRUE
    BY <1>1, <2>1 DEF ListedIn
  <2>3. v[o + 1] = [batch |-> es[k + i].batch, sure |-> TRUE]
    BY <1>2, <2>1, <2>2
  <2>4. o + 1 \in n + 1 .. Len(v)
    BY <1>1, <1>2, <2>1
  <2> QED BY <2>3, <2>4 DEF o
<1>8. place \in [1 .. m -> beyond]
  BY <1>7
<1>9. \A k, l \in 1 .. m : k < l => place[k] < place[l]
  <2>1. SUFFICES ASSUME NEW k \in 1 .. m, NEW l \in 1 .. m, k < l
                 PROVE  es[k + i].offset + 1 < es[l + i].offset + 1
    OBVIOUS
  <2>2. k + i < l + i /\ k + i \in 1 .. Len(es) /\ l + i \in 1 .. Len(es)
    BY <1>1, <1>6, <2>1
  <2>3. es[k + i].offset < es[l + i].offset
    BY <2>2
  <2> QED BY <1>1, <2>2, <2>3
<1>10. ASSUME NEW j \in beyond
       PROVE  \E k \in 1 .. m : place[k] = j
  <2>1. j \in 1 .. Len(f) /\ n < j /\ v[j].sure
    BY <1>1, <1>2, <1>4
  <2>2. ListedIn(es, f[j])
    <3>1. v[j].sure = ListedIn(es, f[j])
      <4>1. PICK x : x = ListedIn(es, f[j])
        OBVIOUS
      <4>2. v[j] = [batch |-> f[j].batch, sure |-> x]
        BY <1>2, <2>1, <4>1
      <4>3. v[j].sure = x
        BY <4>2
      <4> QED BY <4>1, <4>3
    <3> QED BY <2>1, <3>1
  <2>3. PICK l \in 1 .. Len(es) : es[l].id = f[j].id
    BY <1>1, <2>2 DEF ListedIn
  <2>4. es[l].offset + 1 \in 1 .. Len(f) /\ f[es[l].offset + 1].id = f[j].id
    BY <1>3, <2>3
  <2>5. es[l].offset + 1 = j
    <3> DEFINE q == es[l].offset + 1
    <3>1. q \in 1 .. Len(f) /\ f[q].id = f[j].id /\ f[q].id \in Nat
      BY <1>1, <2>4
    <3> HIDE DEF q
    <3>2. ~ (q < j) /\ ~ (j < q)
      BY <1>1, <2>1, <3>1
    <3>3. q = j
      BY <2>1, <3>1, <3>2
    <3> QED BY <3>3 DEF q
  <2>6. i < l
    <3>1. es[i].offset < es[l].offset
      BY <1>1, <2>1, <2>5
    <3>2. l < i => es[l].offset < es[i].offset
      OBVIOUS
    <3>3. l = i => es[l].offset = es[i].offset
      OBVIOUS
    <3> QED BY <1>1, <3>1, <3>2, <3>3
  <2>7. l - i \in 1 .. m /\ (l - i) + i = l
    BY <1>1, <2>6
  <2>8. place[l - i] = j
    BY <2>5, <2>7
  <2> QED BY <2>7, <2>8
<1>11. View(g, fs) = [k \in 1 .. m |-> v[place[k]]]
  <2>1. Len(g) = m
    OBVIOUS
  <2>2. ASSUME NEW k \in 1 .. m
        PROVE  [batch |-> g[k].batch, sure |-> ListedIn(fs, g[k])] = v[place[k]]
    <3>1. g[k].batch = es[k + i].batch
      BY <2>1
    <3>2. ListedIn(fs, g[k]) = TRUE
      <4>1. ListedIn(fs, g[k])
        BY <2>1
      <4> QED BY <4>1 DEF ListedIn
    <3>3. v[place[k]] = [batch |-> es[k + i].batch, sure |-> TRUE]
      BY <1>7
    <3> QED BY <3>1, <3>2, <3>3
  <2> HIDE DEF place, m
  <2> QED BY <2>1, <2>2 DEF View
<1> HIDE DEF n, m, place
<1>12. \E p \in [1 .. m -> beyond] :
         /\ \A k, l \in 1 .. m : k < l => p[k] < p[l]
         /\ \A j \in beyond : \E k \in 1 .. m : p[k] = j
         /\ View(g, fs) = [k \in 1 .. m |-> v[p[k]]]
  BY <1>8, <1>9, <1>10, <1>11
<1> QED BY <1>4, <1>5, <1>12 DEF v, Released

(* In a whole file the order of the scan is that of the slots.             *)
LEMMA SlotIds ==
  ASSUME IInv, Whole(file)
  PROVE  /\ \A k \in 1 .. Len(file) : file[k].id <= nextID
         /\ \A k, l \in 1 .. Len(file) : k < l => file[k].id < file[l].id
<1>1. /\ file \in Seq(Record) /\ Len(Scan(file)) = Len(file)
      /\ GoodOrder(Scan(file), nextID, Pending)
  BY ScanProperties, IntactFile DEF IInv, Whole
<1>2. \A k \in 1 .. Len(file) :
        Scan(file)[k] = [id |-> file[k].id, offset |-> k - 1, batch |-> file[k].batch]
  BY <1>1, ScanProperties
<1>3. ASSUME NEW k \in 1 .. Len(file) PROVE Scan(file)[k].id = file[k].id
  <2>1. Scan(file)[k] = [id |-> file[k].id, offset |-> k - 1, batch |-> file[k].batch]
    BY <1>2
  <2> QED BY <2>1
<1> QED BY <1>1, <1>3 DEF GoodOrder

LEMMA AppendRefines ==
  ASSUME "torn" \notin AppendResidues, IInv, Whole(file), NEW b \in Batches, ClientAppend(b)
  PROVE  \/ UNCHANGED Slots
         \/ Slots' = Append(Slots, [batch |-> b, sure |-> TRUE])
         \/ Slots' = Append(Slots, [batch |-> b, sure |-> FALSE])
<1> DEFINE r == [id |-> nextID + 1, batch |-> b, intact |-> TRUE]
           e == [id |-> nextID + 1, offset |-> Len(file), batch |-> b]
<1>1. /\ nextID \in Nat /\ entries \in Seq(Entry) /\ Len(file) \in Nat
      /\ \A k \in 1 .. Len(entries) : entries[k].id <= nextID
  BY DEF IInv, TypeOK, WalTypeOK, GoodOrder
<1>2. /\ r \in Record /\ r.intact /\ r.id = nextID + 1 /\ r.batch = b
      /\ e \in Entry /\ e.id = nextID + 1
  BY <1>1 DEF Record, Entry
<1>3. \/ file' = Append(file, r) /\ entries' = Append(entries, e)
      \/ file' = Append(file, r) /\ entries' = entries
      \/ file' = file /\ entries' = entries
  BY DEF ClientAppend, AppendOK, AppendFails
<1> HIDE DEF r, e
<1>4. \A k \in 1 .. Len(file) : file[k].id <= nextID
  BY SlotIds
<1>5. /\ Whole(Append(file, r))
      /\ View(Append(file, r), entries) =
           Append(View(file, entries), [batch |-> b, sure |-> FALSE])
      /\ View(Append(file, r), Append(entries, e)) =
           Append(View(file, entries), [batch |-> b, sure |-> TRUE])
  BY <1>1, <1>2, <1>4, ViewAppend
<1>6. CASE file' = file /\ entries' = entries
  BY <1>6, SlotsAreView
<1>7. CASE file' = Append(file, r)
  <2>1. Slots' = View(file', entries') /\ Slots = View(file, entries)
    BY <1>5, <1>7, SlotsAreView
  <2> QED BY <1>3, <1>5, <1>7, <2>1
<1> QED BY <1>3, <1>6, <1>7

(* The conditions of a rewrite, whose entries are listed before the rescan *)
(* as well as after it.                                                    *)
LEMMA AcknowledgeRefines ==
  ASSUME "stale" \notin AckFaults, IInv, Whole(file),
         NEW i \in 1 .. Len(entries), ClientAcknowledge(i)
  PROVE  UNCHANGED Slots \/ DL!Release
<1> DEFINE o == entries[i].offset
           rs == Remaining(o)
           g == Rewritten(rs)
<1>1. /\ entries \in Seq(Entry) /\ Len(entries) \in Nat
      /\ GoodOrder(entries, nextID, Pending)
  BY DEF IInv, TypeOK, WalTypeOK
<1>2. o \in Int
  <2>1. entries[i] \in Entry
    BY <1>1
  <2> QED BY <2>1 DEF Entry
<1>3. AckIndex(o) = i /\ i > 0
  BY <1>1, AckIndexExact
<1>4. /\ rs \in Seq(Entry) /\ Len(rs) = Len(entries) - i
      /\ \A k \in 1 .. Len(rs) : k + i \in 1 .. Len(entries) /\ rs[k] = entries[k + i]
  BY <1>1, <1>2, <1>3, RemainingProperties
<1> HIDE DEF rs
<1>5. /\ g \in Seq(Record) /\ Len(g) = Len(rs)
      /\ \A k \in 1 .. Len(rs) :
           g[k] = [id |-> rs[k].id, batch |-> rs[k].batch, intact |-> TRUE]
  BY <1>4, RewrittenProperties
<1>6. /\ Len(Scan(g)) = Len(rs) /\ Scan(g) \in Seq(Entry)
      /\ \A k \in 1 .. Len(rs) :
           Scan(g)[k] = [id |-> rs[k].id, offset |-> k - 1, batch |-> rs[k].batch]
  BY <1>4, <1>5, ScanOfRewritten, ScanProperties
<1>7. \/ file' = file /\ entries' = entries
      \/ fileOpen /\ file' = g /\ entries' \in {entries, Scan(g)}
  BY <1>3 DEF ClientAcknowledge, AcknowledgeOK, AcknowledgeFails, g, rs
<1> HIDE DEF g
<1>8. /\ Whole(g) /\ Len(g) = Len(entries) - i
      /\ \A k \in 1 .. Len(g) : g[k].id = entries[k + i].id /\ g[k].batch = entries[k + i].batch
  <2>1. ASSUME NEW k \in 1 .. Len(g)
        PROVE  g[k].intact /\ g[k].id = entries[k + i].id /\ g[k].batch = entries[k + i].batch
    <3>1. g[k] = [id |-> rs[k].id, batch |-> rs[k].batch, intact |-> TRUE]
      BY <1>5
    <3>2. rs[k] = entries[k + i]
      BY <1>4, <1>5
    <3> QED BY <3>1, <3>2
  <2> QED BY <1>4, <1>5, <2>1 DEF Whole
<1>9. CASE file' = file /\ entries' = entries
  BY <1>9, SlotsAreView
<1>10. CASE fileOpen /\ file' = g /\ entries' \in {entries, Scan(g)}
  <2>1. /\ \A k, l \in 1 .. Len(entries) : k < l => entries[k].offset < entries[l].offset
        /\ \A k, l \in 1 .. Len(file) : k < l => file[k].id < file[l].id
    BY <1>1, SlotIds DEF GoodOrder
  <2>2. \A k \in 1 .. Len(entries) :
          /\ entries[k].offset < Len(file)
          /\ file[entries[k].offset + 1].id = entries[k].id
          /\ file[entries[k].offset + 1].batch = entries[k].batch
    <3>1. ASSUME NEW k \in 1 .. Len(entries)
          PROVE  /\ entries[k].offset < Len(file)
                 /\ file[entries[k].offset + 1] =
                      [id |-> entries[k].id, batch |-> entries[k].batch, intact |-> TRUE]
      BY <1>10 DEF IInv, Backed
    <3>2. ASSUME NEW k \in 1 .. Len(entries)
          PROVE  /\ file[entries[k].offset + 1].id = entries[k].id
                 /\ file[entries[k].offset + 1].batch = entries[k].batch
      <4>1. file[entries[k].offset + 1] =
              [id |-> entries[k].id, batch |-> entries[k].batch, intact |-> TRUE]
        BY <3>1
      <4> QED BY <4>1
    <3> QED BY <3>1, <3>2
  <2>3. \A k \in 1 .. Len(g) : ListedIn(entries', g[k])
    <3>1. ASSUME NEW k \in 1 .. Len(g) PROVE ListedIn(entries, g[k]) /\ ListedIn(Scan(g), g[k])
      <4>1. /\ k + i \in DOMAIN entries /\ g[k].id = entries[k + i].id
            /\ k \in DOMAIN Scan(g) /\ Scan(g)[k].id = g[k].id
        <5>1. k \in 1 .. Len(rs) /\ k + i \in 1 .. Len(entries)
          BY <1>4, <1>5
        <5>2. Scan(g)[k] = [id |-> rs[k].id, offset |-> k - 1, batch |-> rs[k].batch]
          BY <1>6, <5>1
        <5>3. g[k].id = entries[k + i].id /\ rs[k] = entries[k + i]
          BY <1>4, <1>8, <5>1
        <5>4. DOMAIN entries = 1 .. Len(entries) /\ DOMAIN Scan(g) = 1 .. Len(rs)
          BY <1>1, <1>6
        <5> QED BY <5>1, <5>2, <5>3, <5>4
      <4> QED BY <4>1 DEF ListedIn
    <3> QED BY <1>10, <3>1
  <2>4. Released(View(file, entries), View(g, entries'))
    BY <1>1, <1>8, <2>1, <2>2, <2>3, ViewRewritten
  <2>5. Slots' = View(g, entries') /\ Slots = View(file, entries)
    BY <1>8, <1>10, SlotsAreView
  <2>6. Released(Slots, Slots')
    BY <2>4, <2>5
  <2> QED BY <2>6 DEF Released, DL!Release, DL!SureBeyond
<1> QED BY <1>7, <1>9, <1>10

LEMMA RestartRefines ==
  ASSUME IInv, Whole(file), ClientRestart
  PROVE  DL!Restart
<1>1. file \in Seq(Record) /\ file' = file /\ entries' = Scan(file)
  BY DEF Whole, ClientRestart, OpenWAL
<1>2. /\ Len(Scan(file)) = Len(file) /\ Scan(file) \in Seq(Entry)
      /\ \A k \in 1 .. Len(file) :
           Scan(file)[k] = [id |-> file[k].id, offset |-> k - 1, batch |-> file[k].batch]
  BY <1>1, ScanProperties, IntactFile DEF Whole
<1>3. \A k \in 1 .. Len(file) : ListedIn(entries', file[k]) = TRUE
  <2>1. ASSUME NEW k \in 1 .. Len(file)
        PROVE  k \in DOMAIN Scan(file) /\ Scan(file)[k].id = file[k].id
    <3>1. Scan(file)[k] = [id |-> file[k].id, offset |-> k - 1, batch |-> file[k].batch]
      BY <1>2
    <3> QED BY <1>2, <3>1
  <2> QED BY <1>1, <2>1 DEF ListedIn
<1>4. /\ Slots = View(file, entries) /\ Slots' = View(file, entries')
  BY <1>1, SlotsAreView
<1>5. /\ Len(View(file, entries)) = Len(file)
      /\ \A k \in 1 .. Len(file) : View(file, entries)[k].batch = file[k].batch
  BY ViewType DEF View
<1>6. View(file, entries') = [k \in 1 .. Len(file) |-> [batch |-> file[k].batch, sure |-> TRUE]]
  BY <1>3 DEF View
<1> QED BY <1>4, <1>5, <1>6 DEF DL!Restart

(* The file and the entries implement the durable log (wal.go:86-158): a   *)
(* batch whose Append succeeded leaves it only as part of a prefix that    *)
(* was released, and a restart takes nothing, if no append tears a record  *)
(* and no rescan fails.                                                    *)
THEOREM DurableLogHolds ==
  ASSUME "stale" \notin AckFaults, "torn" \notin AppendResidues
  PROVE  Spec => DurableLogSpec
<1>1. Init => DL!Init
  <2>1. SUFFICES ASSUME Init PROVE Slots = << >>
    BY DEF DL!Init
  <2>2. file \in Seq(Record) /\ Len(file) = 0 /\ Whole(file)
    BY <2>1 DEF Init, WalInit, Whole
  <2>3. Slots \in Seq(ViewSlot) /\ Len(Slots) = 0
    BY <2>2, SlotsAreView, ViewType
  <2> QED BY <2>3, EmptySeq
<1>2. IInv /\ Lossless /\ [Next]_vars => [DL!Next]_Slots
  <2>1. SUFFICES ASSUME IInv, Lossless, [Next]_vars PROVE [DL!Next]_Slots
    OBVIOUS
  <2>2. Whole(file)
    BY <2>1 DEF Whole, Lossless, IInv, TypeOK, WalTypeOK
  <2>3. ASSUME NEW b \in Batches, ClientAppend(b)
        PROVE  [DL!Next]_Slots
    BY <2>1, <2>2, <2>3, AppendRefines DEF DL!Next, DL!Promise, DL!Doubt
  <2>4. ASSUME NEW i \in 1 .. Len(entries), ClientAcknowledge(i)
        PROVE  [DL!Next]_Slots
    BY <2>1, <2>2, <2>4, AcknowledgeRefines DEF DL!Next
  <2>5. CASE ClientRestart
    BY <2>1, <2>2, <2>5, RestartRefines DEF DL!Next
  <2>6. CASE ClientClose \/ UNCHANGED vars
    <3>1. UNCHANGED <<file, entries>>
      BY <2>6 DEF ClientClose, CloseWAL, vars
    <3> QED BY <2>2, <3>1, SlotsAreView
  <2> QED BY <2>1, <2>3, <2>4, <2>5, <2>6 DEF Next
<1> QED BY <1>1, <1>2, LosslessHolds, InvHolds, PTL DEF Spec, DurableLogSpec, DL!Spec
=============================================================================
