---------------------------- MODULE Lists_proofs ----------------------------
(***************************************************************************)
(* What the proofs about several components need: least and greatest       *)
(* elements, which stand in for induction (what holds of all numbers is    *)
(* shown of the least it might fail for), parts of lists, and the          *)
(* existence of functions defined by recursion on a range of numbers.      *)
(***************************************************************************)
EXTENDS Integers, SequenceTheorems, WellFoundedInduction, TLAPS

(* A non-empty set of naturals has a least element.                        *)
LEMMA LeastNat ==
  ASSUME NEW T, T \subseteq Nat, T # {}
  PROVE  \E m \in T : \A n \in T : m <= n
<1> DEFINE R == {p \in Nat \X Nat : p[1] < p[2]}
<1>1. IsWellFoundedOn(R, Nat)
  BY NatLessThanWellFounded, Zenon DEF OpToRel
<1>2. PICK m \in T : \A n \in T : ~ (<<n, m>> \in R)
  <2> HIDE DEF R
  <2> QED BY <1>1, WFMin
<1>3. \A n \in T : ~ (n < m)
  BY <1>2
<1> QED
  BY <1>3

(* And a greatest one, if it has a bound.                                  *)
LEMMA Latest ==
  ASSUME NEW N \in Nat, NEW T \in SUBSET (0 .. N), T # {}
  PROVE  \E n \in T : \A m \in T : m <= n
<1> DEFINE D == {N - m : m \in T}
<1>1. \A m \in T : m \in 0 .. N /\ N - m \in Nat /\ N - m \in D
  OBVIOUS
<1>2. D \subseteq Nat /\ D # {}
  BY <1>1
<1>3. \A d \in D : \E m \in T : d = N - m
  OBVIOUS
<1> HIDE DEF D
<1>4. PICK d \in D : \A e \in D : d <= e
  BY <1>2, LeastNat
<1>5. PICK n \in T : d = N - n
  BY <1>3
<1>6. \A m \in T : N - n <= N - m
  BY <1>1, <1>4, <1>5
<1> QED BY <1>1, <1>5, <1>6

(* The first elements of a list, and those after them.                     *)
LEMMA PrefixFacts ==
  ASSUME NEW S, NEW s \in Seq(S), NEW n \in 0 .. Len(s)
  PROVE  /\ SubSeq(s, 1, n) \in Seq(S)
         /\ Len(SubSeq(s, 1, n)) = n
         /\ DOMAIN SubSeq(s, 1, n) = 1 .. n
         /\ \A i \in 1 .. n : SubSeq(s, 1, n)[i] = s[i]
<1>1. \A i \in 1 .. n : s[i] \in S
  BY ElementOfSeq
<1>2. n \in Int /\ 1 \in Int /\ n - 1 + 1 = n /\ \A i \in 1 .. n : 1 + i - 1 = i
  OBVIOUS
<1>3. /\ SubSeq(s, 1, n) \in Seq(S)
      /\ Len(SubSeq(s, 1, n)) = IF 1 <= n THEN n - 1 + 1 ELSE 0
      /\ \A i \in 1 .. n - 1 + 1 : SubSeq(s, 1, n)[i] = s[1 + i - 1]
  BY ONLY <1>1, <1>2, SubSeqProperties
<1> QED BY <1>2, <1>3, LenProperties

LEMMA SuffixFacts ==
  ASSUME NEW S, NEW s \in Seq(S), NEW k \in 1 .. Len(s)
  PROVE  /\ SubSeq(s, k + 1, Len(s)) \in Seq(S)
         /\ Len(SubSeq(s, k + 1, Len(s))) = Len(s) - k
         /\ \A i \in 1 .. Len(s) - k : SubSeq(s, k + 1, Len(s))[i] = s[k + i]
<1> DEFINE m == k + 1
           n == Len(s)
<1>1. m \in Int /\ n \in Int /\ n - m + 1 = n - k /\ 0 = n - n /\ (m <= n \/ n = k)
      /\ \A i \in 1 .. n - k : m + i - 1 = k + i
  OBVIOUS
<1>2. \A i \in m .. n : s[i] \in S
  BY ElementOfSeq
<1> HIDE DEF m, n
<1>4. /\ SubSeq(s, m, n) \in Seq(S)
      /\ Len(SubSeq(s, m, n)) = IF m <= n THEN n - m + 1 ELSE 0
      /\ \A i \in 1 .. n - m + 1 : SubSeq(s, m, n)[i] = s[m + i - 1]
  BY ONLY <1>1, <1>2, SubSeqProperties
<1>5. Len(SubSeq(s, m, n)) = n - k
  BY <1>1, <1>4
<1>6. \A i \in 1 .. n - k : SubSeq(s, m, n)[i] = s[k + i]
  BY <1>1, <1>4
<1> QED BY <1>4, <1>5, <1>6 DEF m, n

(* A list whose elements grow from one to the next grows throughout.       *)
LEMMA Increasing ==
  ASSUME NEW s \in Seq(Nat), \A i \in 1 .. Len(s) : i + 1 <= Len(s) => s[i] < s[i + 1]
  PROVE  \A i, j \in 1 .. Len(s) : i < j => s[i] < s[j]
<1>1. SUFFICES ASSUME NEW i \in 1 .. Len(s) PROVE \A j \in 1 .. Len(s) : i < j => s[i] < s[j]
  OBVIOUS
<1>2. Len(s) \in Nat /\ \A j \in 1 .. Len(s) : s[j] \in Nat
  BY ElementOfSeq
<1> DEFINE bad == {j \in 1 .. Len(s) : i < j /\ ~ (s[i] < s[j])}
<1>3. bad \subseteq Nat
  OBVIOUS
<1>4. ASSUME bad # {} PROVE FALSE
  <2> HIDE DEF bad
  <2>1. PICK j \in bad : \A k \in bad : j <= k
    BY <1>3, <1>4, LeastNat
  <2> USE DEF bad
  <2>2. j \in 1 .. Len(s) /\ i < j /\ ~ (s[i] < s[j])
    BY <2>1
  <2>3. j - 1 \in 1 .. Len(s) /\ ~ (j <= j - 1) /\ (j - 1) + 1 = j
    BY <1>2, <2>2
  <2>4. j - 1 \notin bad
    BY <2>1, <2>3
  <2>5. s[j - 1] < s[j]
    BY <1>2, <2>2, <2>3
  <2>6. j - 1 = i \/ i < j - 1
    BY <2>2
  <2>7. s[i] \in Nat /\ s[j] \in Nat /\ s[j - 1] \in Nat
    BY <1>2, <2>2, <2>3
  <2>8. CASE j - 1 = i
    BY <2>2, <2>5, <2>8
  <2>9. CASE i < j - 1
    <3>1. s[i] < s[j - 1]
      BY <2>3, <2>4, <2>9
    <3> QED BY <2>2, <2>5, <2>7, <3>1
  <2> QED BY <2>6, <2>8, <2>9
<1> QED BY <1>4

(* A function that starts with "base" and goes on with one step at each    *)
(* number of a range exists.  A definition by recursion is a CHOOSE among  *)
(* such functions, so that what it yields has their equations.             *)
Stepwise(V, low, high, step) == step \in [low + 1 .. high -> [V -> V]]

Unrolls(g, V, low, high, base, step) ==
  /\ g \in [low .. high -> V] /\ g[low] = base
  /\ \A i \in low + 1 .. high : g[i] = step[i][g[i - 1]]

LEMMA Recursion ==
  ASSUME NEW V, NEW low \in Nat, NEW high \in Nat, low <= high, NEW base \in V,
         NEW step, Stepwise(V, low, high, step)
  PROVE  \E g : Unrolls(g, V, low, high, base, step)
<1> DEFINE Solved(g, n) == g[low] = base /\ \A i \in low + 1 .. n : g[i] = step[i][g[i - 1]]
           bad == {n \in low .. high : \A g \in [low .. n -> V] : ~ Solved(g, n)}
<1>1. ASSUME bad # {} PROVE FALSE
  <2>1. PICK n \in bad : \A m \in bad : n <= m
    <3>1. bad \in SUBSET Nat
      OBVIOUS
    <3> HIDE DEF bad
    <3> QED BY <1>1, <3>1, LeastNat
  <2>2. n \in low .. high /\ \A g \in [low .. n -> V] : ~ Solved(g, n)
    BY <2>1
  <2>3. CASE n = low
    <3> DEFINE g == [i \in low .. n |-> base]
    <3>1. g \in [low .. n -> V] /\ g[low] = base /\ low + 1 .. n = {}
      BY <2>3
    <3> QED BY <2>2, <3>1
  <2>4. CASE n # low
    <3>1. n - 1 \in low .. high /\ ~ (n <= n - 1) /\ n \in low + 1 .. high
      BY <2>2, <2>4
    <3>2. n - 1 \notin bad
      BY <2>1, <3>1
    <3>3. PICK g \in [low .. n - 1 -> V] : Solved(g, n - 1)
      BY <3>1, <3>2
    <3> DEFINE f == [i \in low .. n |-> IF i = n THEN step[n][g[n - 1]] ELSE g[i]]
    <3>4. /\ low \in low .. n - 1 /\ n - 1 \in low .. n - 1
          /\ \A i \in low .. n : i # n => i \in low .. n - 1
      BY <2>2, <2>4
    <3>5. f \in [low .. n -> V] /\ f[n] = step[n][g[n - 1]]
          /\ \A i \in low .. n - 1 : f[i] = g[i]
      <4>1. step[n] \in [V -> V] /\ g[n - 1] \in V
        BY <3>1, <3>3, <3>4 DEF Stepwise
      <4>2. \A i \in low .. n - 1 : i \in low .. n /\ i # n
        BY <2>2
      <4>3. n \in low .. n
        BY <2>2
      <4> QED BY <3>3, <3>4, <4>1, <4>2, <4>3
    <3> HIDE DEF f
    <3>6. \A i \in low + 1 .. n : f[i] = step[i][f[i - 1]]
      <4> TAKE i \in low + 1 .. n
      <4>1. CASE i = n
        BY <3>4, <3>5, <4>1
      <4>2. CASE i # n
        <5>1. i \in low + 1 .. n - 1 /\ i \in low .. n - 1 /\ i - 1 \in low .. n - 1
          BY <2>2, <4>2
        <5> QED BY <3>3, <3>5, <5>1
      <4> QED BY <4>1, <4>2
    <3>7. f[low] = base
      BY <3>3, <3>4, <3>5
    <3> QED BY <2>2, <3>5, <3>6, <3>7
  <2> QED BY <2>3, <2>4
<1>2. high \in low .. high
  OBVIOUS
<1>3. high \notin bad
  BY <1>1
<1> QED BY <1>2, <1>3 DEF Unrolls
=============================================================================
