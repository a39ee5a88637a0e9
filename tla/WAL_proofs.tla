----------------------------- MODULE WAL_proofs -----------------------------
(***************************************************************************)
(* What the operators of WAL return and what its operations preserve, for  *)
(* any set of batches and any faults: the lemmas the proofs about its      *)
(* callers rest on.                                                        *)
(***************************************************************************)
EXTENDS WAL, Lists_proofs

(* scanLocked: the prefix it reads is intact, and as long as it can be.    *)
LEMMA IntactPrefixProperties ==
  ASSUME NEW f \in Seq(Record)
  PROVE  /\ IntactPrefix(f) \in 0 .. Len(f)
         /\ \A i \in 1 .. IntactPrefix(f) : f[i].intact
         /\ IntactPrefix(f) = Len(f) \/ ~ f[IntactPrefix(f) + 1].intact
<1> DEFINE T == {n \in 0 .. Len(f) : n = Len(f) \/ ~ f[n + 1].intact}
           P(n) == /\ \A i \in 1 .. n : f[i].intact
                   /\ n = Len(f) \/ ~ f[n + 1].intact
<1>1. Len(f) \in Nat
  OBVIOUS
<1>2. PICK m \in T : \A n \in T : m <= n
  <2>1. T \subseteq Nat /\ Len(f) \in T
    BY <1>1
  <2> HIDE DEF T
  <2> QED BY <2>1, LeastNat
<1>3. ASSUME NEW i \in 1 .. m
      PROVE  f[i].intact
  <2>1. i - 1 \in 0 .. Len(f) /\ ~ (m <= i - 1) /\ (i - 1) + 1 = i
    BY <1>1, <1>2
  <2>2. i - 1 \notin T
    BY <1>2, <2>1
  <2> QED BY <2>1, <2>2
<1>4. \E n \in 0 .. Len(f) : P(n)
  BY <1>1, <1>2, <1>3
<1>5. IntactPrefix(f) = CHOOSE n \in 0 .. Len(f) : P(n)
  BY DEF IntactPrefix
<1> HIDE DEF P
<1>6. IntactPrefix(f) \in 0 .. Len(f) /\ P(IntactPrefix(f))
  BY <1>4, <1>5
<1> QED
  BY <1>6 DEF P

(* OpenWAL and rewriteLocked store well-formed entries, one per slot read. *)
LEMMA ScanProperties ==
  ASSUME NEW f \in Seq(Record)
  PROVE  /\ Scan(f) \in Seq(Entry)
         /\ Len(Scan(f)) = IntactPrefix(f)
         /\ \A i \in 1 .. Len(Scan(f)) :
              /\ i \in 1 .. Len(f)
              /\ f[i].intact
              /\ Scan(f)[i] = [id |-> f[i].id, offset |-> i - 1,
                               batch |-> f[i].batch]
<1>1. IntactPrefix(f) \in 0 .. Len(f) /\ Len(f) \in Nat
  BY IntactPrefixProperties
<1>2. \A i \in 1 .. IntactPrefix(f) :
        /\ i \in 1 .. Len(f)
        /\ [id |-> f[i].id, offset |-> i - 1, batch |-> f[i].batch] \in Entry
  <2>1. \A i \in 1 .. IntactPrefix(f) : /\ i \in 1 .. Len(f) /\ i - 1 \in Nat
                                        /\ f[i] \in Record
    BY <1>1
  <2> QED BY <2>1 DEF Record, Entry
<1>3. Scan(f) \in [1 .. IntactPrefix(f) -> Entry]
  BY <1>2 DEF Scan
<1>4. Scan(f) \in Seq(Entry) /\ Len(Scan(f)) = IntactPrefix(f)
  BY <1>1, <1>3
<1> QED
  BY <1>2, <1>4, IntactPrefixProperties DEF Scan

(* A file without torn slots is read to its end.                           *)
LEMMA IntactFile ==
  ASSUME NEW f \in Seq(Record), \A i \in 1 .. Len(f) : f[i].intact
  PROVE  IntactPrefix(f) = Len(f)
<1>1. /\ IntactPrefix(f) \in 0 .. Len(f)
      /\ IntactPrefix(f) = Len(f) \/ ~ f[IntactPrefix(f) + 1].intact
  BY IntactPrefixProperties
<1> QED
  BY <1>1

(* The numbering OpenWAL resumes from is an id or zero.                    *)
LEMMA LastIDType ==
  ASSUME NEW es \in Seq(Entry)
  PROVE  LastID(es) \in Nat
<1>1. es # << >> => es[Len(es)] \in Entry
  OBVIOUS
<1> QED
  BY <1>1 DEF LastID, Entry

(* Acknowledge's scan stops before the first entry beyond the offset.      *)
LEMMA AckIndexProperties ==
  ASSUME NEW offset \in Int, entries \in Seq(Entry)
  PROVE  /\ AckIndex(offset) \in 0 .. Len(entries)
         /\ \A i \in 1 .. AckIndex(offset) : entries[i].offset <= offset
         /\ \/ AckIndex(offset) = Len(entries)
            \/ entries[AckIndex(offset) + 1].offset > offset
<1> DEFINE T == {n \in 0 .. Len(entries) :
                   n = Len(entries) \/ entries[n + 1].offset > offset}
           P(n) == /\ \A i \in 1 .. n : entries[i].offset <= offset
                   /\ n = Len(entries) \/ entries[n + 1].offset > offset
<1>1. Len(entries) \in Nat /\ \A i \in 1 .. Len(entries) : entries[i].offset \in Nat
  <2>1. Len(entries) \in Nat /\ \A i \in 1 .. Len(entries) : entries[i] \in Entry
    OBVIOUS
  <2> QED BY <2>1 DEF Entry
<1>2. PICK m \in T : \A n \in T : m <= n
  <2>1. T \subseteq Nat /\ Len(entries) \in T
    BY <1>1
  <2> HIDE DEF T
  <2> QED BY <2>1, LeastNat
<1>3. ASSUME NEW i \in 1 .. m
      PROVE  entries[i].offset <= offset
  <2>1. /\ i - 1 \in 0 .. Len(entries) /\ ~ (m <= i - 1)
        /\ (i - 1) + 1 = i /\ i \in 1 .. Len(entries)
    BY <1>1, <1>2
  <2>2. i - 1 \notin T
    BY <1>2, <2>1
  <2> QED BY <1>1, <2>1, <2>2
<1>4. \E n \in 0 .. Len(entries) : P(n)
  BY <1>1, <1>2, <1>3
<1>5. AckIndex(offset) = CHOOSE n \in 0 .. Len(entries) : P(n)
  BY DEF AckIndex
<1> HIDE DEF P
<1>6. AckIndex(offset) \in 0 .. Len(entries) /\ P(AckIndex(offset))
  BY <1>4, <1>5
<1> QED
  BY <1>6 DEF P

(* What an acknowledgement keeps is the rest of the entries, in order.     *)
LEMMA RemainingProperties ==
  ASSUME NEW offset \in Int, entries \in Seq(Entry)
  PROVE  /\ Remaining(offset) \in Seq(Entry)
         /\ Len(Remaining(offset)) = Len(entries) - AckIndex(offset)
         /\ \A i \in 1 .. Len(Remaining(offset)) :
              /\ i + AckIndex(offset) \in 1 .. Len(entries)
              /\ Remaining(offset)[i] = entries[i + AckIndex(offset)]
<1>1. AckIndex(offset) \in 0 .. Len(entries) /\ Len(entries) \in Nat
  BY AckIndexProperties
<1>2. \A i \in AckIndex(offset) + 1 .. Len(entries) : entries[i] \in Entry
  BY <1>1
<1> QED
  BY SMTT(30), <1>1, <1>2, SubSeqProperties DEF Remaining

(* rewriteLocked writes one intact record per entry.                       *)
LEMMA RewrittenProperties ==
  ASSUME NEW es \in Seq(Entry)
  PROVE  /\ Rewritten(es) \in Seq(Record)
         /\ Len(Rewritten(es)) = Len(es)
         /\ \A i \in 1 .. Len(es) :
              Rewritten(es)[i] = [id |-> es[i].id, batch |-> es[i].batch,
                                  intact |-> TRUE]
<1>1. \A i \in 1 .. Len(es) :
        [id |-> es[i].id, batch |-> es[i].batch, intact |-> TRUE] \in Record
  <2>1. \A i \in 1 .. Len(es) : es[i] \in Entry
    OBVIOUS
  <2> QED BY <2>1 DEF Record, Entry
<1>2. Rewritten(es) \in [1 .. Len(es) -> Record] /\ Len(es) \in Nat
  BY <1>1 DEF Rewritten
<1>3. Rewritten(es) \in Seq(Record) /\ Len(Rewritten(es)) = Len(es)
  BY <1>2
<1> QED
  BY <1>3 DEF Rewritten

(* A file just rewritten is scanned completely.                            *)
LEMMA ScanOfRewritten ==
  ASSUME NEW es \in Seq(Entry)
  PROVE  /\ Len(Scan(Rewritten(es))) = Len(es)
         /\ \A i \in 1 .. Len(es) :
              Scan(Rewritten(es))[i] = [id |-> es[i].id, offset |-> i - 1,
                                        batch |-> es[i].batch]
<1>1. /\ Rewritten(es) \in Seq(Record)
      /\ Len(Rewritten(es)) = Len(es)
      /\ \A i \in 1 .. Len(es) :
           Rewritten(es)[i] = [id |-> es[i].id, batch |-> es[i].batch,
                               intact |-> TRUE]
  BY RewrittenProperties
<1>2. IntactPrefix(Rewritten(es)) = Len(es)
  <2>1. ASSUME NEW i \in 1 .. Len(Rewritten(es))
        PROVE  Rewritten(es)[i].intact
    <3>1. Rewritten(es)[i] = [id |-> es[i].id, batch |-> es[i].batch,
                              intact |-> TRUE]
      BY <1>1
    <3> QED BY <3>1
  <2> QED BY <1>1, <2>1, IntactFile
<1>3. /\ Len(Scan(Rewritten(es))) = Len(es)
      /\ \A i \in 1 .. Len(es) :
           Scan(Rewritten(es))[i] = [id |-> Rewritten(es)[i].id, offset |-> i - 1,
                                     batch |-> Rewritten(es)[i].batch]
  BY <1>1, <1>2, ScanProperties
<1>4. ASSUME NEW i \in 1 .. Len(es)
      PROVE  Scan(Rewritten(es))[i] = [id |-> es[i].id, offset |-> i - 1,
                                       batch |-> es[i].batch]
  <2>1. Rewritten(es)[i] = [id |-> es[i].id, batch |-> es[i].batch, intact |-> TRUE]
    BY <1>1
  <2> QED BY <1>3, <2>1
<1> QED
  BY <1>3, <1>4

(* A record written behind the others is read by a scan, or it is torn, or *)
(* hidden by a torn one; what a scan read before, it reads again.          *)
LEMMA ScanOfAppend ==
  ASSUME NEW f \in Seq(Record), NEW r \in Record
  PROVE  \/ Scan(Append(f, r)) = Scan(f)
         \/ /\ r.intact /\ IntactPrefix(f) = Len(f)
            /\ Scan(Append(f, r)) =
                 Append(Scan(f), [id |-> r.id, offset |-> Len(f), batch |-> r.batch])
<1> DEFINE g == Append(f, r)
<1>1. /\ g \in Seq(Record) /\ Len(f) \in Nat /\ Len(g) = Len(f) + 1
      /\ \A i \in 1 .. Len(f) : g[i] = f[i]
      /\ g[Len(f) + 1] = r
  OBVIOUS
<1>2. /\ IntactPrefix(f) \in 0 .. Len(f)
      /\ \A i \in 1 .. IntactPrefix(f) : f[i].intact
      /\ IntactPrefix(f) = Len(f) \/ ~ f[IntactPrefix(f) + 1].intact
  BY IntactPrefixProperties
<1> HIDE DEF g
<1>3. /\ IntactPrefix(g) \in 0 .. Len(g)
      /\ \A i \in 1 .. IntactPrefix(g) : g[i].intact
      /\ IntactPrefix(g) = Len(g) \/ ~ g[IntactPrefix(g) + 1].intact
  BY <1>1, IntactPrefixProperties
<1>4. CASE IntactPrefix(g) = IntactPrefix(f)
  <2>1. \A i \in 1 .. IntactPrefix(f) : g[i] = f[i]
    BY <1>1, <1>2
  <2> QED BY <1>4, <2>1 DEF Scan, g
<1>5. CASE IntactPrefix(g) # IntactPrefix(f)
  <2>1. IntactPrefix(g) > IntactPrefix(f)
    <3>1. SUFFICES ASSUME IntactPrefix(g) < IntactPrefix(f)
                   PROVE  FALSE
      BY <1>2, <1>3, <1>5
    <3>2. /\ IntactPrefix(g) + 1 \in 1 .. IntactPrefix(f)
          /\ IntactPrefix(g) + 1 \in 1 .. Len(f)
          /\ IntactPrefix(g) # Len(g)
      BY <1>1, <1>2, <1>3, <3>1
    <3> QED BY <1>1, <1>2, <1>3, <3>2
  <2>2. IntactPrefix(f) = Len(f)
    <3>1. SUFFICES ASSUME IntactPrefix(f) # Len(f)
                   PROVE  FALSE
      OBVIOUS
    <3>2. /\ IntactPrefix(f) + 1 \in 1 .. Len(f)
          /\ IntactPrefix(f) + 1 \in 1 .. IntactPrefix(g)
      BY <1>1, <1>2, <1>3, <2>1, <3>1
    <3> QED BY <1>1, <1>2, <1>3, <3>1, <3>2
  <2>3. IntactPrefix(g) = Len(f) + 1 /\ r.intact
    BY <1>1, <1>2, <1>3, <2>1, <2>2
  <2> DEFINE e == [id |-> r.id, offset |-> Len(f), batch |-> r.batch]
  <2>4. /\ Scan(f) \in Seq(Entry) /\ Len(Scan(f)) = Len(f)
        /\ Scan(g) \in Seq(Entry) /\ Len(Scan(g)) = Len(f) + 1
    BY <1>1, <2>2, <2>3, ScanProperties
  <2>5. e \in Entry
    BY <1>1 DEF Record, Entry
  <2>6. ASSUME NEW i \in 1 .. Len(f) + 1
        PROVE  Scan(g)[i] = Append(Scan(f), e)[i]
    <3>1. CASE i \in 1 .. Len(f)
      <4>1. Scan(g)[i] = Scan(f)[i]
        BY <1>1, <2>2, <2>3, <3>1 DEF Scan
      <4>2. Append(Scan(f), e)[i] = Scan(f)[i]
        BY <2>4, <2>5, <3>1, AppendProperties
      <4> QED BY <4>1, <4>2
    <3>2. CASE i = Len(f) + 1
      <4>1. Scan(g)[i] = [id |-> g[i].id, offset |-> i - 1, batch |-> g[i].batch]
        BY <1>1, <2>4, ScanProperties
      <4>2. g[i] = r /\ i - 1 = Len(f)
        BY <1>1, <3>2
      <4>3. Append(Scan(f), e)[i] = e
        BY <2>4, <2>5, <3>2, AppendProperties
      <4> QED BY <4>1, <4>2, <4>3
    <3>3. i \in 1 .. Len(f) \/ i = Len(f) + 1
      BY <1>1
    <3> HIDE DEF e
    <3> QED BY <3>1, <3>2, <3>3
  <2>7. Append(Scan(f), e) \in Seq(Entry) /\ Len(Append(Scan(f), e)) = Len(f) + 1
    BY <2>4, <2>5, AppendProperties
  <2> HIDE DEF e
  <2>8. Scan(g) = Append(Scan(f), e)
    BY <2>4, <2>6, <2>7, SeqEqual
  <2> QED BY <2>2, <2>3, <2>8 DEF e, g
<1> QED
  BY <1>4, <1>5
-----------------------------------------------------------------------------
(* Every operation of the log preserves the types of its variables.        *)
LEMMA OpenWALType ==
  ASSUME WalTypeOK, OpenWAL
  PROVE  WalTypeOK'
BY ScanProperties, LastIDType DEF WalTypeOK, OpenWAL

LEMMA AppendOKType ==
  ASSUME WalTypeOK, NEW b \in Batches, AppendOK(b)
  PROVE  WalTypeOK'
<1>1. /\ [id |-> nextID + 1, batch |-> b, intact |-> TRUE] \in Record
      /\ [id |-> nextID + 1, offset |-> Len(file), batch |-> b] \in Entry
  BY DEF WalTypeOK, Record, Entry
<1> QED
  BY <1>1 DEF WalTypeOK, AppendOK

LEMMA AppendFailsType ==
  ASSUME WalTypeOK, NEW b \in Batches, AppendFails(b)
  PROVE  WalTypeOK'
<1>1. \A x \in BOOLEAN : [id |-> nextID + 1, batch |-> b, intact |-> x] \in Record
  BY DEF WalTypeOK, Record
<1>2. file' \in Seq(Record)
  <2>1. CASE UNCHANGED file
    BY <2>1 DEF WalTypeOK
  <2>2. ASSUME NEW x \in BOOLEAN,
               file' = Append(file, [id |-> nextID + 1, batch |-> b, intact |-> x])
        PROVE  file' \in Seq(Record)
    BY <1>1, <2>2 DEF WalTypeOK
  <2> QED BY <2>1, <2>2 DEF AppendFails
<1> QED
  BY <1>2 DEF WalTypeOK, AppendFails

LEMMA AcknowledgeOKType ==
  ASSUME WalTypeOK, NEW offset \in Int, AcknowledgeOK(offset)
  PROVE  WalTypeOK'
<1>1. CASE UNCHANGED walVars
  BY <1>1 DEF WalTypeOK, walVars
<1>2. CASE /\ file' = Rewritten(Remaining(offset))
           /\ entries' = Scan(file')
           /\ UNCHANGED <<fileOpen, nextID>>
  <2>1. Rewritten(Remaining(offset)) \in Seq(Record)
    BY RemainingProperties, RewrittenProperties DEF WalTypeOK
  <2>2. Scan(file') \in Seq(Entry)
    BY <1>2, <2>1, ScanProperties
  <2> QED BY <1>2, <2>1, <2>2 DEF WalTypeOK
<1> QED
  BY <1>1, <1>2 DEF AcknowledgeOK

LEMMA AcknowledgeFailsType ==
  ASSUME WalTypeOK, NEW offset \in Int, AcknowledgeFails(offset)
  PROVE  WalTypeOK'
<1>1. Rewritten(Remaining(offset)) \in Seq(Record)
  BY RemainingProperties, RewrittenProperties DEF WalTypeOK
<1> QED
  BY <1>1 DEF WalTypeOK, AcknowledgeFails

LEMMA CloseWALType ==
  ASSUME WalTypeOK, CloseWAL
  PROVE  WalTypeOK'
BY DEF WalTypeOK, CloseWAL
-----------------------------------------------------------------------------
(* Ids: the entries of the process and those of the file are numbered in   *)
(* increasing order, up to nextID, whatever fails.                         *)
IncreasingIds(es) ==
  \A i, j \in 1 .. Len(es) : i < j => es[i].id < es[j].id

IdsUpTo(es, n) == \A i \in 1 .. Len(es) : es[i].id <= n

WalIds == /\ IncreasingIds(entries) /\ IdsUpTo(entries, nextID)
          /\ IncreasingIds(Scan(file)) /\ IdsUpTo(Scan(file), nextID)

LEMMA IncreasingAppend ==
  ASSUME NEW es \in Seq(Entry), NEW n \in Nat, NEW e \in Entry, e.id = n + 1,
         IncreasingIds(es), IdsUpTo(es, n)
  PROVE  /\ IncreasingIds(Append(es, e)) /\ IdsUpTo(Append(es, e), n + 1)
         /\ IdsUpTo(es, n + 1)
<1> DEFINE fs == Append(es, e)
<1>1. /\ Len(es) \in Nat /\ Len(fs) = Len(es) + 1
      /\ \A i \in 1 .. Len(es) : fs[i] = es[i] /\ es[i] \in Entry
      /\ fs[Len(es) + 1] = e
  BY AppendProperties
<1> HIDE DEF fs
<1>2. \A i \in 1 .. Len(es) : fs[i].id = es[i].id /\ es[i].id \in Nat /\ es[i].id <= n
  BY <1>1 DEF Entry, IdsUpTo
<1>3. \A i \in 1 .. Len(fs) : i \in 1 .. Len(es) \/ i = Len(es) + 1
  BY <1>1
<1>4. IdsUpTo(fs, n + 1) /\ IdsUpTo(es, n + 1)
  BY <1>1, <1>2, <1>3 DEF IdsUpTo
<1>5. ASSUME NEW i \in 1 .. Len(fs), NEW j \in 1 .. Len(fs), i < j
      PROVE  fs[i].id < fs[j].id
  <2>1. i \in 1 .. Len(es)
    BY <1>1, <1>5
  <2>2. CASE j \in 1 .. Len(es)
    BY <1>2, <1>5, <2>1, <2>2 DEF IncreasingIds
  <2>3. CASE j = Len(es) + 1
    BY <1>1, <1>2, <2>1, <2>3
  <2> QED BY <1>3, <2>2, <2>3
<1> QED
  BY <1>4, <1>5 DEF IncreasingIds, fs

LEMMA IncreasingRewritten ==
  ASSUME WalTypeOK, WalIds, NEW offset \in Int
  PROVE  LET es == Scan(Rewritten(Remaining(offset)))
         IN  IncreasingIds(es) /\ IdsUpTo(es, nextID)
<1> DEFINE rs == Remaining(offset)
           es == Scan(Rewritten(rs))
           k == AckIndex(offset)
<1>1. entries \in Seq(Entry) /\ k \in Nat
  BY AckIndexProperties DEF WalTypeOK
<1>2. /\ rs \in Seq(Entry)
      /\ \A i \in 1 .. Len(rs) : i + k \in 1 .. Len(entries) /\ rs[i] = entries[i + k]
  BY <1>1, RemainingProperties
<1> HIDE DEF rs, k
<1>3. /\ Len(es) = Len(rs)
      /\ \A i \in 1 .. Len(rs) :
           es[i] = [id |-> rs[i].id, offset |-> i - 1, batch |-> rs[i].batch]
  BY <1>2, ScanOfRewritten
<1> HIDE DEF es
<1>4. ASSUME NEW i \in 1 .. Len(es)
      PROVE  i + k \in 1 .. Len(entries) /\ es[i].id = entries[i + k].id
  <2>1. es[i] = [id |-> rs[i].id, offset |-> i - 1, batch |-> rs[i].batch]
    BY <1>3
  <2> QED BY <1>2, <1>3, <2>1
<1>5. IdsUpTo(es, nextID)
  BY <1>4 DEF IdsUpTo, WalIds
<1>6. ASSUME NEW i \in 1 .. Len(es), NEW j \in 1 .. Len(es), i < j
      PROVE  es[i].id < es[j].id
  <2>1. i + k < j + k
    BY <1>1, <1>6
  <2>2. /\ i + k \in 1 .. Len(entries) /\ es[i].id = entries[i + k].id
        /\ j + k \in 1 .. Len(entries) /\ es[j].id = entries[j + k].id
    BY <1>4
  <2> QED BY <2>1, <2>2 DEF WalIds, IncreasingIds
<1> QED
  BY <1>5, <1>6 DEF IncreasingIds, es, rs

LEMMA WalIdsAppend ==
  ASSUME WalTypeOK, WalIds, NEW b \in Batches, AppendOK(b) \/ AppendFails(b)
  PROVE  WalIds'
<1>1. /\ file \in Seq(Record) /\ entries \in Seq(Entry) /\ Scan(file) \in Seq(Entry)
      /\ nextID \in Nat /\ Len(file) \in Nat /\ nextID' = nextID + 1
  BY ScanProperties DEF WalTypeOK, AppendOK, AppendFails
<1> DEFINE e == [id |-> nextID + 1, offset |-> Len(file), batch |-> b]
           r(x) == [id |-> nextID + 1, batch |-> b, intact |-> x]
<1>2. e \in Entry /\ e.id = nextID + 1
  BY <1>1 DEF Entry
<1>3. \A x \in BOOLEAN : r(x) \in Record /\ r(x).id = nextID + 1 /\ r(x).batch = b
  BY <1>1 DEF Record
<1>4. \/ entries' = entries
      \/ entries' = Append(entries, e)
  BY DEF AppendOK, AppendFails
<1>5. file' = file \/ \E x \in BOOLEAN : file' = Append(file, r(x))
  BY DEF AppendOK, AppendFails
<1>6. \/ Scan(file') = Scan(file)
      \/ Scan(file') = Append(Scan(file), e)
  <2>1. CASE file' = file
    BY <2>1
  <2>2. ASSUME NEW x \in BOOLEAN, file' = Append(file, r(x))
        PROVE  \/ Scan(file') = Scan(file)
               \/ Scan(file') = Append(Scan(file), e)
    <3> HIDE DEF r
    <3>1. \/ Scan(Append(file, r(x))) = Scan(file)
          \/ Scan(Append(file, r(x))) =
               Append(Scan(file), [id |-> r(x).id, offset |-> Len(file),
                                   batch |-> r(x).batch])
      BY <1>1, <1>3, ScanOfAppend
    <3> QED BY <1>3, <2>2, <3>1
  <2> QED BY <1>5, <2>1, <2>2
<1> HIDE DEF e
<1>7. IncreasingIds(entries') /\ IdsUpTo(entries', nextID')
  BY <1>1, <1>2, <1>4, IncreasingAppend DEF WalIds
<1>8. IncreasingIds(Scan(file')) /\ IdsUpTo(Scan(file'), nextID')
  BY <1>1, <1>2, <1>6, IncreasingAppend DEF WalIds
<1> QED
  BY <1>7, <1>8 DEF WalIds

LEMMA WalIdsAcknowledge ==
  ASSUME WalTypeOK, WalIds, NEW offset \in Int,
         AcknowledgeOK(offset) \/ AcknowledgeFails(offset)
  PROVE  WalIds'
<1> DEFINE f == Rewritten(Remaining(offset))
<1>1. IncreasingIds(Scan(f)) /\ IdsUpTo(Scan(f), nextID)
  BY IncreasingRewritten
<1>2. /\ nextID' = nextID
      /\ file' = file \/ file' = f
      /\ entries' = entries \/ (file' = f /\ entries' = Scan(file'))
  BY DEF AcknowledgeOK, AcknowledgeFails, walVars
<1> HIDE DEF f
<1> QED
  BY <1>1, <1>2 DEF WalIds

LEMMA WalIdsOpen ==
  ASSUME WalTypeOK, IncreasingIds(Scan(file)), OpenWAL
  PROVE  WalIds'
<1> DEFINE es == Scan(file)
<1>1. es \in Seq(Entry)
  BY ScanProperties DEF WalTypeOK
<1>2. IncreasingIds(es) /\ file' = file /\ entries' = es /\ nextID' = LastID(es)
  BY DEF OpenWAL
<1> HIDE DEF es
<1>3. ASSUME NEW k \in 1 .. Len(es)
      PROVE  es[k].id <= LastID(es)
  <2>1. /\ Len(es) \in 1 .. Len(es) /\ es # << >> /\ k <= Len(es)
        /\ es[k] \in Entry
    BY <1>1
  <2>2. es[k].id \in Nat
    BY <2>1 DEF Entry
  <2>3. k < Len(es) => es[k].id < es[Len(es)].id
    BY <1>2, <2>1 DEF IncreasingIds
  <2>4. LastID(es) = es[Len(es)].id
    BY <2>1 DEF LastID
  <2>5. LastID(es) \in Nat
    BY <1>1, LastIDType
  <2> QED BY <2>1, <2>2, <2>3, <2>4, <2>5
<1>4. IdsUpTo(es, LastID(es))
  BY <1>3 DEF IdsUpTo
<1> QED
  BY <1>2, <1>4 DEF WalIds, es
=============================================================================
