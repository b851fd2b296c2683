-------------------------- MODULE SelectionProofs --------------------------
(***************************************************************************)
(* What the filters of Selection return, and what concatenating, reversing *)
(* and moving elements does to a list: the lemmas that the proofs about    *)
(* lists of sources, servers and channels cite.                            *)
(***************************************************************************)
EXTENDS Selection, SequencesExt, FiniteSetTheorems, SequenceTheorems, TLAPS

LEMMA FirstIsLeast ==
  ASSUME NEW P, P \subseteq Nat, P # {}
  PROVE  /\ First(P) \in P
         /\ \A j \in P : First(P) <= j
PROOF
<1>1. \E m \in P : \A b \in P : <<b, m>> \notin OpToRel(<, Nat)
  BY NatLessThanWellFounded, WFMin, Zenon
<1>2. PICK m \in P : \A b \in P : <<b, m>> \notin OpToRel(<, Nat)
  BY <1>1
<1>3. \A b \in P : m <= b
  <2> SUFFICES ASSUME NEW b \in P, b < m PROVE FALSE
    OBVIOUS
  <2>1. <<b, m>> \in Nat \X Nat /\ <<b, m>>[1] < <<b, m>>[2]
    OBVIOUS
  <2> QED BY <1>2, <2>1, Zenon DEF OpToRel
<1> QED BY <1>3 DEF First

LEMMA KeptFinite ==
  ASSUME NEW N \in Nat, NEW kept, kept \subseteq 1..N
  PROVE  /\ IsFiniteSet(kept)
         /\ Cardinality(kept) \in Nat
         /\ Cardinality(kept) <= N
PROOF
<1>1. IsFiniteSet(1..N) /\ Cardinality(1..N) = N
  BY FS_Interval
<1> QED BY <1>1, FS_Subset, FS_CardinalityType

\* Ranks number the positions kept upwards from 1.
LEMMA RankFacts ==
  ASSUME NEW N \in Nat, NEW kept, kept \subseteq 1..N
  PROVE  /\ \A i \in kept : Rank(kept, i) \in 1..Cardinality(kept)
         /\ \A i, j \in kept : i < j => Rank(kept, i) < Rank(kept, j)
PROOF
<1> DEFINE Upto(i) == {j \in kept : j <= i}
<1>1. IsFiniteSet(kept) /\ Cardinality(kept) \in Nat
  BY KeptFinite
<1>2. ASSUME NEW i \in kept
      PROVE  /\ IsFiniteSet(Upto(i)) /\ Cardinality(Upto(i)) \in Nat
             /\ Cardinality(Upto(i)) <= Cardinality(kept)
  <2>1. Upto(i) \in SUBSET kept
    OBVIOUS
  <2> HIDE DEF Upto
  <2>2. IsFiniteSet(Upto(i)) /\ Cardinality(Upto(i)) <= Cardinality(kept)
    BY <1>1, <2>1, FS_Subset
  <2> QED BY <2>2, FS_CardinalityType
<1>3. ASSUME NEW i \in kept PROVE Cardinality(Upto(i)) # 0
  <2>1. i \in Upto(i)
    OBVIOUS
  <2> HIDE DEF Upto
  <2> QED BY <1>2, <2>1, FS_EmptySet
<1>4. ASSUME NEW i \in kept, NEW j \in kept, i < j
      PROVE  Cardinality(Upto(i)) < Cardinality(Upto(j))
  <2>0. \A k \in kept : k \in Nat
    OBVIOUS
  <2>1. Upto(i) \in SUBSET Upto(j) /\ j \in Upto(j) /\ j \notin Upto(i)
    <3>1. \A k \in kept : k <= i => k <= j
      BY <1>4, <2>0
    <3>2. Upto(i) \in SUBSET Upto(j)
      BY <3>1
    <3>3. j \in Upto(j) /\ j \notin Upto(i)
      BY <1>4, <2>0
    <3> QED BY <3>2, <3>3
  <2> HIDE DEF Upto
  <2>2. Upto(j) # Upto(i)
    BY <2>1
  <2>3. IsFiniteSet(Upto(j)) /\ Upto(i) \in SUBSET Upto(j)
    BY <1>2, <2>1
  <2>4. /\ Cardinality(Upto(i)) <= Cardinality(Upto(j))
        /\ Cardinality(Upto(j)) # Cardinality(Upto(i))
    BY <2>2, <2>3, FS_Subset
  <2>5. Cardinality(Upto(i)) \in Nat /\ Cardinality(Upto(j)) \in Nat
    BY <1>2
  <2> QED BY <2>4, <2>5
<1>5. \A i \in kept : Rank(kept, i) = Cardinality(Upto(i))
  BY DEF Rank
<1> HIDE DEF Upto
<1>6. \A i \in kept : Rank(kept, i) \in 1..Cardinality(kept)
  BY <1>1, <1>2, <1>3, <1>5
<1> QED BY <1>4, <1>5, <1>6

\* A position is told by its rank, and every rank is taken by one.
LEMMA NthRank ==
  ASSUME NEW N \in Nat, NEW kept, kept \subseteq 1..N
  PROVE  /\ \A i, j \in kept : Rank(kept, i) = Rank(kept, j) => i = j
         /\ \A n \in 1..Cardinality(kept) : Nth(kept, n) \in kept /\ Rank(kept, Nth(kept, n)) = n
PROOF
<1> DEFINE K == Cardinality(kept)
           f == [i \in kept |-> Rank(kept, i)]
<1>1. IsFiniteSet(kept) /\ K \in Nat
  BY KeptFinite
<1>2. IsFiniteSet(1..K) /\ Cardinality(1..K) = K
  BY <1>1, FS_Interval
<1>3. /\ \A i \in kept : Rank(kept, i) \in 1..K
      /\ \A i, j \in kept : i < j => Rank(kept, i) < Rank(kept, j)
  BY RankFacts
<1>4. \A i, j \in kept : Rank(kept, i) = Rank(kept, j) => i = j
  <2> SUFFICES ASSUME NEW i \in kept, NEW j \in kept, Rank(kept, i) = Rank(kept, j), i # j
               PROVE  FALSE
    OBVIOUS
  <2>1. i < j \/ j < i
    OBVIOUS
  <2>2. Rank(kept, i) \in Nat /\ Rank(kept, j) \in Nat
    BY <1>1, <1>3
  <2> QED BY <1>3, <2>1, <2>2
<1>5. f \in Injection(kept, 1..K)
  BY <1>3, <1>4 DEF Injection, IsInjective
<1>6. f \in Surjection(kept, 1..K)
  <2> HIDE DEF f
  <2> QED BY <1>1, <1>2, <1>5, FS_Injection
<1>7. \A n \in 1..K : \E i \in kept : Rank(kept, i) = n
  BY <1>6 DEF Surjection
<1>8. \A n \in 1..K : Nth(kept, n) \in kept /\ Rank(kept, Nth(kept, n)) = n
  BY <1>7 DEF Nth
<1> QED BY <1>4, <1>8

\* Every rank is taken by one position, and positions come in their order.
LEMMA NthFacts ==
  ASSUME NEW N \in Nat, NEW kept, kept \subseteq 1..N
  PROVE  /\ \A n \in 1..Cardinality(kept) : Nth(kept, n) \in kept
         /\ \A i \in kept : \E n \in 1..Cardinality(kept) : Nth(kept, n) = i
         /\ \A m, n \in 1..Cardinality(kept) : m < n => Nth(kept, m) < Nth(kept, n)
PROOF
<1> DEFINE K == Cardinality(kept)
<1>1. IsFiniteSet(kept) /\ K \in Nat
  BY KeptFinite
<1>3. \A i, j \in kept : i < j => Rank(kept, i) < Rank(kept, j)
  BY RankFacts
<1>4. \A i, j \in kept : Rank(kept, i) = Rank(kept, j) => i = j
  BY NthRank
<1>8. \A n \in 1..K : Nth(kept, n) \in kept /\ Rank(kept, Nth(kept, n)) = n
  BY NthRank
<1>9. \A i \in kept : Rank(kept, i) \in 1..K /\ Nth(kept, Rank(kept, i)) = i
  BY RankFacts, <1>4, <1>8
<1>10. ASSUME NEW m \in 1..K, NEW n \in 1..K, m < n PROVE Nth(kept, m) < Nth(kept, n)
  <2> SUFFICES ASSUME ~(Nth(kept, m) < Nth(kept, n)) PROVE FALSE
    OBVIOUS
  <2>0. \A k \in kept : k \in Nat
    OBVIOUS
  <2>1. /\ Nth(kept, m) \in kept /\ Nth(kept, n) \in kept
        /\ Nth(kept, m) \in Nat /\ Nth(kept, n) \in Nat
    BY <1>8, <2>0
  <2>2. Nth(kept, n) < Nth(kept, m) \/ Nth(kept, n) = Nth(kept, m)
    BY <2>1
  <2>3. n < m \/ n = m
    BY <1>3, <1>8, <2>1, <2>2
  <2> QED BY <1>1, <1>10, <2>3
<1> QED BY <1>8, <1>9, <1>10

\* A selection is a sequence of the elements at the positions kept, in order.
LEMMA PickedFacts ==
  ASSUME NEW S, NEW s \in Seq(S), NEW kept, kept \subseteq DOMAIN s
  PROVE  /\ Picked(s, kept) \in Seq(S)
         /\ Len(Picked(s, kept)) = Cardinality(kept)
         /\ Cardinality(kept) \in Nat
         /\ \A n \in 1..Len(Picked(s, kept)) :
              Nth(kept, n) \in kept /\ Picked(s, kept)[n] = s[Nth(kept, n)]
         /\ \A i \in kept : \E n \in 1..Len(Picked(s, kept)) : Nth(kept, n) = i
         /\ \A m, n \in 1..Len(Picked(s, kept)) : m < n => Nth(kept, m) < Nth(kept, n)
PROOF
<1>1. Len(s) \in Nat /\ DOMAIN s = 1..Len(s)
  OBVIOUS
<1>2. kept \subseteq 1..Len(s)
  BY <1>1
<1>3. Cardinality(kept) \in Nat
  BY <1>1, <1>2, KeptFinite
<1>4. /\ \A n \in 1..Cardinality(kept) : Nth(kept, n) \in kept
      /\ \A i \in kept : \E n \in 1..Cardinality(kept) : Nth(kept, n) = i
      /\ \A m, n \in 1..Cardinality(kept) : m < n => Nth(kept, m) < Nth(kept, n)
  BY <1>1, <1>2, NthFacts
<1>5. \A i \in kept : s[i] \in S
  BY <1>1, <1>2
<1>6. Picked(s, kept) \in Seq(S) /\ Len(Picked(s, kept)) = Cardinality(kept)
  BY <1>3, <1>4, <1>5 DEF Picked
<1>7. \A n \in 1..Cardinality(kept) : Picked(s, kept)[n] = s[Nth(kept, n)]
  BY DEF Picked
<1> QED BY <1>3, <1>4, <1>6, <1>7

LEMMA PickedInjective ==
  ASSUME NEW S, NEW s \in Seq(S), NEW kept, kept \subseteq DOMAIN s,
         \A i, j \in kept : s[i] = s[j] => i = j
  PROVE  IsInjective(Picked(s, kept))
PROOF
<1> DEFINE t == Picked(s, kept)
<1>1. /\ t \in Seq(S)
      /\ \A n \in 1..Len(t) : Nth(kept, n) \in kept /\ t[n] = s[Nth(kept, n)]
      /\ \A m, n \in 1..Len(t) : m < n => Nth(kept, m) < Nth(kept, n)
  BY PickedFacts
<1>2. \A k \in kept : k \in Nat
  BY LenProperties
<1> HIDE DEF t
<1>3. Len(t) \in Nat /\ DOMAIN t = 1..Len(t)
  BY <1>1
<1> SUFFICES ASSUME NEW m \in 1..Len(t), NEW n \in 1..Len(t), t[m] = t[n], m # n
             PROVE  FALSE
  BY <1>3 DEF IsInjective, t
<1>4. Nth(kept, m) = Nth(kept, n)
  BY <1>1
<1>5. Nth(kept, m) \in Nat
  BY <1>1, <1>2
<1>6. m < n \/ n < m
  BY <1>3
<1> QED BY <1>1, <1>4, <1>5, <1>6

LEMMA PickedSet ==
  ASSUME NEW S, NEW s \in Seq(S), NEW kept, kept \subseteq DOMAIN s
  PROVE  ToSet(Picked(s, kept)) = {s[i] : i \in kept}
PROOF
<1> DEFINE t == Picked(s, kept)
<1>1. /\ t \in Seq(S)
      /\ \A n \in 1..Len(t) : Nth(kept, n) \in kept /\ t[n] = s[Nth(kept, n)]
      /\ \A i \in kept : \E n \in 1..Len(t) : Nth(kept, n) = i
  BY PickedFacts
<1> HIDE DEF t
<1>2. DOMAIN t = 1..Len(t)
  BY <1>1
<1>3. ToSet(t) = {s[i] : i \in kept}
  BY <1>1, <1>2 DEF ToSet
<1> QED BY <1>3 DEF t

LEMMA DistinctFacts ==
  ASSUME NEW S, NEW s \in Seq(S), NEW known
  PROVE  /\ Distinct(s, known) \in Seq(S)
         /\ IsInjective(Distinct(s, known))
         /\ ToSet(Distinct(s, known)) = ToSet(s) \cap known
PROOF
<1> DEFINE kept == {i \in DOMAIN s : s[i] \in known /\ \A j \in 1..i-1 : s[j] # s[i]}
<1>1. DOMAIN s = 1..Len(s) /\ Len(s) \in Nat
  OBVIOUS
<1>2. \A i, j \in kept : s[i] = s[j] => i = j
  <2> SUFFICES ASSUME NEW i \in kept, NEW j \in kept, s[i] = s[j], i < j PROVE FALSE
    BY <1>1
  <2> QED BY <1>1
<1>3. {s[i] : i \in kept} = ToSet(s) \cap known
  <2>1. ASSUME NEW x \in ToSet(s) \cap known PROVE x \in {s[i] : i \in kept}
    <3> DEFINE P == {i \in DOMAIN s : s[i] = x}
    <3>1. P \subseteq Nat /\ P # {}
      BY <1>1 DEF ToSet
    <3>2. First(P) \in P /\ \A j \in P : First(P) <= j
      BY <3>1, FirstIsLeast
    <3>3. First(P) \in DOMAIN s /\ s[First(P)] = x
      BY <3>2
    <3>4. ASSUME NEW j \in 1..First(P)-1 PROVE s[j] # s[First(P)]
      <4>1. j \in DOMAIN s /\ j < First(P) /\ j \in Nat /\ First(P) \in Nat
        BY <1>1, <3>3
      <4>2. ~(First(P) <= j)
        BY <4>1
      <4>3. j \notin P
        BY <3>2, <4>2
      <4> QED BY <3>3, <4>1, <4>3
    <3>5. First(P) \in kept
      BY <3>3, <3>4
    <3> QED BY <3>3, <3>5
  <2> QED BY <2>1 DEF ToSet
<1>4. kept \subseteq DOMAIN s
  OBVIOUS
<1>5. Distinct(s, known) = Picked(s, kept)
  BY DEF Distinct
<1> HIDE DEF kept
<1>6. Picked(s, kept) \in Seq(S)
  BY <1>4, PickedFacts
<1>7. IsInjective(Picked(s, kept))
  BY <1>2, <1>4, PickedInjective
<1>8. ToSet(Picked(s, kept)) = {s[i] : i \in kept}
  BY <1>4, PickedSet
<1> QED BY <1>3, <1>5, <1>6, <1>7, <1>8

LEMMA ConcatFacts ==
  ASSUME NEW S, NEW a \in Seq(S), NEW b \in Seq(S)
  PROVE  /\ a \o b \in Seq(S)
         /\ ToSet(a \o b) = ToSet(a) \cup ToSet(b)
PROOF
<1> DEFINE c == a \o b
<1>1. /\ c \in Seq(S)
      /\ Len(c) = Len(a) + Len(b)
      /\ \A i \in 1 .. Len(a) + Len(b) :
           c[i] = IF i <= Len(a) THEN a[i] ELSE b[i - Len(a)]
  BY ConcatProperties
<1> HIDE DEF c
<1>2. /\ Len(a) \in Nat /\ DOMAIN a = 1..Len(a)
      /\ Len(b) \in Nat /\ DOMAIN b = 1..Len(b)
      /\ DOMAIN c = 1..Len(a) + Len(b)
  BY <1>1
<1>3. \A i \in 1..Len(a) : c[i] = a[i]
  BY <1>1, <1>2
<1>4. \A i \in 1..Len(b) : c[Len(a) + i] = b[i]
  <2> TAKE i \in 1..Len(b)
  <2>1. Len(a) + i \in 1..Len(a) + Len(b) /\ ~(Len(a) + i <= Len(a)) /\ (Len(a) + i) - Len(a) = i
    BY <1>2
  <2> QED BY <1>1, <2>1
<1>5. \A i \in 1..Len(a) + Len(b) :
        i \in 1..Len(a) \/ \E j \in 1..Len(b) : i = Len(a) + j
  <2> SUFFICES ASSUME NEW i \in 1..Len(a) + Len(b), i \notin 1..Len(a)
               PROVE  \E j \in 1..Len(b) : i = Len(a) + j
    OBVIOUS
  <2>1. i - Len(a) \in 1..Len(b) /\ i = Len(a) + (i - Len(a))
    BY <1>2
  <2> QED BY <2>1
<1>6. ToSet(c) = ToSet(a) \cup ToSet(b)
  <2>1. ASSUME NEW x \in ToSet(c) PROVE x \in ToSet(a) \cup ToSet(b)
    <3>1. PICK i \in 1..Len(a) + Len(b) : x = c[i]
      BY <1>2 DEF ToSet
    <3>2. CASE i \in 1..Len(a)
      BY <1>2, <1>3, <3>1, <3>2 DEF ToSet
    <3>3. CASE i \notin 1..Len(a)
      <4>1. PICK j \in 1..Len(b) : i = Len(a) + j
        BY <1>5, <3>3
      <4> QED BY <1>2, <1>4, <3>1, <4>1 DEF ToSet
    <3> QED BY <3>2, <3>3
  <2>2. ASSUME NEW x \in ToSet(a) PROVE x \in ToSet(c)
    <3>1. PICK i \in 1..Len(a) : x = a[i]
      BY <1>2 DEF ToSet
    <3>2. i \in DOMAIN c /\ c[i] = x
      BY <1>2, <1>3, <3>1
    <3> QED BY <3>2 DEF ToSet
  <2>3. ASSUME NEW x \in ToSet(b) PROVE x \in ToSet(c)
    <3>1. PICK i \in 1..Len(b) : x = b[i]
      BY <1>2 DEF ToSet
    <3>2. Len(a) + i \in DOMAIN c /\ c[Len(a) + i] = x
      BY <1>2, <1>4, <3>1
    <3> QED BY <3>2 DEF ToSet
  <2> QED BY <2>1, <2>2, <2>3
<1> QED BY <1>1, <1>6 DEF c

LEMMA ConcatInjective ==
  ASSUME NEW S, NEW a \in Seq(S), NEW b \in Seq(S),
         IsInjective(a), IsInjective(b), ToSet(a) \cap ToSet(b) = {}
  PROVE  IsInjective(a \o b)
PROOF
<1> DEFINE c == a \o b
<1>1. /\ c \in Seq(S)
      /\ Len(c) = Len(a) + Len(b)
      /\ \A i \in 1 .. Len(a) + Len(b) :
           c[i] = IF i <= Len(a) THEN a[i] ELSE b[i - Len(a)]
  BY ConcatProperties
<1> HIDE DEF c
<1>2. /\ Len(a) \in Nat /\ DOMAIN a = 1..Len(a)
      /\ Len(b) \in Nat /\ DOMAIN b = 1..Len(b)
      /\ DOMAIN c = 1..Len(a) + Len(b)
  BY <1>1
<1>3. \A i \in 1..Len(a) : c[i] = a[i]
  BY <1>1, <1>2
<1>4. \A i \in 1..Len(b) : c[Len(a) + i] = b[i]
  <2> TAKE i \in 1..Len(b)
  <2>1. Len(a) + i \in 1..Len(a) + Len(b) /\ ~(Len(a) + i <= Len(a)) /\ (Len(a) + i) - Len(a) = i
    BY <1>2
  <2> QED BY <1>1, <2>1
<1>5. \A i \in 1..Len(a) + Len(b) :
        i \in 1..Len(a) \/ \E j \in 1..Len(b) : i = Len(a) + j
  <2> SUFFICES ASSUME NEW i \in 1..Len(a) + Len(b), i \notin 1..Len(a)
               PROVE  \E j \in 1..Len(b) : i = Len(a) + j
    OBVIOUS
  <2>1. i - Len(a) \in 1..Len(b) /\ i = Len(a) + (i - Len(a))
    BY <1>2
  <2> QED BY <2>1
<1>6. IsInjective(c)
  <2> SUFFICES ASSUME NEW i \in 1..Len(a) + Len(b), NEW j \in 1..Len(a) + Len(b), c[i] = c[j]
               PROVE  i = j
    BY <1>2 DEF IsInjective
  <2>1. \A k \in 1..Len(a), l \in 1..Len(b) : a[k] # b[l]
    BY <1>2 DEF ToSet
  <2>2. CASE i \in 1..Len(a) /\ j \in 1..Len(a)
    BY <1>2, <1>3, <2>2 DEF IsInjective
  <2>3. CASE i \in 1..Len(a) /\ j \notin 1..Len(a)
    BY <1>3, <1>4, <1>5, <2>1, <2>3
  <2>4. CASE i \notin 1..Len(a) /\ j \in 1..Len(a)
    BY <1>3, <1>4, <1>5, <2>1, <2>4
  <2>5. CASE i \notin 1..Len(a) /\ j \notin 1..Len(a)
    <3>1. PICK k \in 1..Len(b) : i = Len(a) + k
      BY <1>5, <2>5
    <3>2. PICK l \in 1..Len(b) : j = Len(a) + l
      BY <1>5, <2>5
    <3>3. b[k] = b[l]
      BY <1>4, <3>1, <3>2
    <3>4. k = l
      BY <1>2, <3>3 DEF IsInjective
    <3> QED BY <3>1, <3>2, <3>4
  <2> QED BY <2>2, <2>3, <2>4, <2>5
<1> QED BY <1>6 DEF c

LEMMA ReverseFacts ==
  ASSUME NEW S, NEW s \in Seq(S), IsInjective(s)
  PROVE  Reverse(s) \in Seq(S) /\ IsInjective(Reverse(s))
PROOF
<1>1. Len(s) \in Nat /\ DOMAIN s = 1..Len(s) /\ \A i \in 1..Len(s) : s[i] \in S
  OBVIOUS
<1>2. \A i \in 1..Len(s) : (Len(s) - i) + 1 \in 1..Len(s)
  BY <1>1
<1>3. Reverse(s) \in Seq(S)
  BY <1>1, <1>2 DEF Reverse
<1>4. IsInjective(Reverse(s))
  <2> SUFFICES ASSUME NEW i \in 1..Len(s), NEW j \in 1..Len(s),
                      s[(Len(s) - i) + 1] = s[(Len(s) - j) + 1]
               PROVE  i = j
    BY DEF IsInjective, Reverse
  <2>1. (Len(s) - i) + 1 = (Len(s) - j) + 1
    BY <1>1, <1>2 DEF IsInjective
  <2> QED BY <1>1, <2>1
<1> QED BY <1>3, <1>4

LEMMA SubSeqFacts ==
  ASSUME NEW S, NEW s \in Seq(S), NEW m \in Nat \ {0}, NEW n \in Nat, n <= Len(s)
  PROVE  /\ SubSeq(s, m, n) \in Seq(S)
         /\ ToSet(SubSeq(s, m, n)) = {s[i] : i \in m..n}
         /\ IsInjective(s) => IsInjective(SubSeq(s, m, n))
PROOF
<1> DEFINE t == SubSeq(s, m, n)
<1>1. Len(s) \in Nat /\ DOMAIN s = 1..Len(s) /\ \A i \in 1..Len(s) : s[i] \in S
  OBVIOUS
<1>2. \A i \in m..n : i \in 1..Len(s) /\ s[i] \in S
  BY <1>1
<1>3. /\ t \in Seq(S)
      /\ Len(t) = IF m <= n THEN n - m + 1 ELSE 0
      /\ \A i \in 1 .. n - m + 1 : t[i] = s[m + i - 1]
  BY <1>2, SubSeqProperties
<1> HIDE DEF t
<1>4. Len(t) \in Nat /\ DOMAIN t = 1..Len(t)
  BY <1>3
<1>5. \A i \in 1..Len(t) : m + i - 1 \in m..n /\ t[i] = s[m + i - 1]
  BY <1>3
<1>6. ASSUME NEW i \in m..n PROVE i - m + 1 \in 1..Len(t) /\ t[i - m + 1] = s[i]
  <2>1. i - m + 1 \in 1..n - m + 1 /\ m + (i - m + 1) - 1 = i /\ m <= n
    OBVIOUS
  <2> QED BY <1>3, <2>1
<1>7. ToSet(t) = {s[i] : i \in m..n}
  <2>1. ASSUME NEW x \in ToSet(t) PROVE x \in {s[i] : i \in m..n}
    BY <1>4, <1>5 DEF ToSet
  <2>2. ASSUME NEW i \in m..n PROVE s[i] \in ToSet(t)
    BY <1>4, <1>6 DEF ToSet
  <2> QED BY <2>1, <2>2
<1>8. ASSUME IsInjective(s) PROVE IsInjective(t)
  <2> SUFFICES ASSUME NEW i \in 1..Len(t), NEW j \in 1..Len(t), t[i] = t[j]
               PROVE  i = j
    BY <1>4 DEF IsInjective
  <2>1. s[m + i - 1] = s[m + j - 1] /\ m + i - 1 \in DOMAIN s /\ m + j - 1 \in DOMAIN s
    BY <1>1, <1>2, <1>5
  <2>2. m + i - 1 = m + j - 1
    BY <1>8, <2>1 DEF IsInjective
  <2> QED BY <1>4, <2>2
<1> QED BY <1>3, <1>7, <1>8 DEF t

LEMMA SingleFacts ==
  ASSUME NEW S, NEW e \in S
  PROVE  <<e>> \in Seq(S) /\ ToSet(<<e>>) = {e} /\ IsInjective(<<e>>)
PROOF
  BY DEF ToSet, IsInjective

\* Moving an element of a list.
LEMMA MoveFacts ==
  ASSUME NEW S, NEW s \in Seq(S), IsInjective(s), NEW from \in 1..Len(s), NEW to \in 1..Len(s)
  PROVE  /\ InsertAt(RemoveAt(s, from), to, s[from]) \in Seq(S)
         /\ IsInjective(InsertAt(RemoveAt(s, from), to, s[from]))
PROOF
<1> DEFINE a == SubSeq(s, 1, from - 1)
           b == SubSeq(s, from + 1, Len(s))
           r == RemoveAt(s, from)
           c == SubSeq(r, 1, to - 1)
           d == SubSeq(r, to, Len(r))
           e == s[from]
<1>1. /\ Len(s) \in Nat /\ DOMAIN s = 1..Len(s) /\ e \in S
      /\ from - 1 \in Nat /\ from - 1 <= Len(s) /\ from + 1 \in Nat \ {0}
      /\ to - 1 \in Nat /\ to \in Nat \ {0} /\ 1 \in Nat \ {0}
  OBVIOUS
<1>2. a \in Seq(S) /\ ToSet(a) = {s[i] : i \in 1..from - 1} /\ IsInjective(a)
  BY <1>1, SubSeqFacts
<1>3. b \in Seq(S) /\ ToSet(b) = {s[i] : i \in from + 1..Len(s)} /\ IsInjective(b)
  BY <1>1, SubSeqFacts
<1>4. Len(a) = from - 1 /\ Len(b) = Len(s) - from
  <2>1. \A i \in 1..from - 1 : s[i] \in S
    BY <1>1
  <2>2. \A i \in from + 1..Len(s) : s[i] \in S
    BY <1>1
  <2>3. Len(a) = IF 1 <= from - 1 THEN (from - 1) - 1 + 1 ELSE 0
    BY <1>1, <2>1, SubSeqProperties
  <2>4. Len(b) = IF from + 1 <= Len(s) THEN Len(s) - (from + 1) + 1 ELSE 0
    BY <1>1, <2>2, SubSeqProperties
  <2> HIDE DEF a, b
  <2>5. Len(a) = from - 1
    BY <1>1, <2>3
  <2>6. Len(b) = Len(s) - from
    <3>1. CASE from + 1 <= Len(s)
      <4>1. Len(b) = Len(s) - (from + 1) + 1
        BY <2>4, <3>1
      <4>2. Len(s) - (from + 1) + 1 = Len(s) - from
        BY <1>1
      <4> QED BY <4>1, <4>2
    <3>2. CASE ~(from + 1 <= Len(s))
      <4>1. Len(b) = 0
        BY <2>4, <3>2
      <4>2. from = Len(s)
        BY <3>2
      <4>3. Len(s) - from = 0
        BY <4>2
      <4> QED BY <4>1, <4>3
    <3> QED BY <3>1, <3>2
  <2> QED BY <2>5, <2>6
<1>5. ToSet(a) \cap ToSet(b) = {} /\ e \notin ToSet(a) /\ e \notin ToSet(b)
  <2>1. \A i \in 1..from - 1, j \in from + 1..Len(s) : s[i] # s[j]
    BY <1>1 DEF IsInjective
  <2>2. \A i \in 1..from - 1 : s[i] # e
    BY <1>1 DEF IsInjective
  <2>3. \A i \in from + 1..Len(s) : s[i] # e
    BY <1>1 DEF IsInjective
  <2> QED BY <1>2, <1>3, <2>1, <2>2, <2>3
<1>6. r = a \o b
  BY DEF RemoveAt
<1> HIDE DEF a, b, r
<1>7. r \in Seq(S) /\ ToSet(r) = ToSet(a) \cup ToSet(b) /\ IsInjective(r)
  <2>1. r \in Seq(S) /\ ToSet(r) = ToSet(a) \cup ToSet(b)
    BY <1>2, <1>3, <1>6, ConcatFacts
  <2>2. IsInjective(r)
    BY <1>2, <1>3, <1>5, <1>6, ConcatInjective
  <2> QED BY <2>1, <2>2
<1>8. Len(r) = Len(s) - 1
  <2>1. Len(a \o b) = Len(a) + Len(b)
    BY <1>2, <1>3, ConcatProperties
  <2> QED BY <1>1, <1>4, <1>6, <2>1
<1>9. /\ Len(r) \in Nat /\ to - 1 <= Len(r) /\ Len(r) <= Len(r)
      /\ DOMAIN r = 1..Len(r)
  BY <1>1, <1>7, <1>8
<1>10. c \in Seq(S) /\ ToSet(c) = {r[i] : i \in 1..to - 1} /\ IsInjective(c)
  BY <1>1, <1>7, <1>9, SubSeqFacts
<1>11. d \in Seq(S) /\ ToSet(d) = {r[i] : i \in to..Len(r)} /\ IsInjective(d)
  BY <1>1, <1>7, <1>9, SubSeqFacts
<1>12. ToSet(c) \cap ToSet(d) = {} /\ e \notin ToSet(c) /\ e \notin ToSet(d)
  <2>1. \A i \in 1..to - 1, j \in to..Len(r) : r[i] # r[j]
    BY <1>1, <1>7, <1>9 DEF IsInjective
  <2>2. \A i \in 1..Len(r) : r[i] # e
    BY <1>5, <1>7, <1>9 DEF ToSet
  <2>3. \A i \in 1..to - 1 : r[i] # e
    BY <1>1, <1>9, <2>2
  <2>4. \A i \in to..Len(r) : r[i] # e
    BY <1>1, <1>9, <2>2
  <2> QED BY <1>10, <1>11, <2>1, <2>3, <2>4
<1> HIDE DEF c, d, e
<1>13. <<e>> \in Seq(S) /\ ToSet(<<e>>) = {e} /\ IsInjective(<<e>>)
  BY <1>1, SingleFacts
<1> DEFINE g == c \o <<e>>
<1>14. g \in Seq(S) /\ ToSet(g) = ToSet(c) \cup {e}
  <2>1. c \in Seq(S) /\ <<e>> \in Seq(S)
    BY <1>10, <1>13
  <2>2. g \in Seq(S) /\ ToSet(g) = ToSet(c) \cup ToSet(<<e>>)
    BY <2>1, ConcatFacts
  <2> QED BY <1>13, <2>2
<1>15. IsInjective(g)
  <2>1. ToSet(c) \cap ToSet(<<e>>) = {}
    BY <1>12, <1>13
  <2> QED BY <1>10, <1>13, <2>1, ConcatInjective
<1>16. InsertAt(r, to, e) = g \o d
  BY DEF InsertAt, c, d
<1> HIDE DEF g
<1>17. g \o d \in Seq(S)
  BY <1>11, <1>14, ConcatFacts
<1>18. IsInjective(g \o d)
  <2>1. ToSet(g) \cap ToSet(d) = {}
    BY <1>12, <1>14
  <2> QED BY <1>11, <1>14, <1>15, <2>1, ConcatInjective
<1> QED BY <1>16, <1>17, <1>18 DEF r, e

\* An element of c is one of a, or one of b further on.
Splits(c, a, b) ==
  \A i \in 1..Len(c) :
     \/ i \in 1..Len(a) /\ c[i] = a[i]
     \/ \E j \in 1..Len(b) : i = Len(a) + j /\ c[i] = b[j]

LEMMA ConcatSplit ==
  ASSUME NEW S, NEW a \in Seq(S), NEW b \in Seq(S)
  PROVE  a \o b \in Seq(S) /\ Splits(a \o b, a, b)
PROOF
<1> DEFINE c == a \o b
<1>1. /\ c \in Seq(S)
      /\ Len(c) = Len(a) + Len(b)
      /\ \A i \in 1 .. Len(a) + Len(b) :
           c[i] = IF i <= Len(a) THEN a[i] ELSE b[i - Len(a)]
  BY ConcatProperties
<1>2. Len(a) \in Nat /\ Len(b) \in Nat
  OBVIOUS
<1> HIDE DEF c
<1>3. ASSUME NEW i \in 1..Len(c)
      PROVE  \/ i \in 1..Len(a) /\ c[i] = a[i]
             \/ \E j \in 1..Len(b) : i = Len(a) + j /\ c[i] = b[j]
  <2>1. CASE i <= Len(a)
    BY <1>1, <1>2, <2>1
  <2>2. CASE ~(i <= Len(a))
    <3>1. i - Len(a) \in 1..Len(b) /\ i = Len(a) + (i - Len(a))
      BY <1>1, <1>2, <2>2
    <3>2. c[i] = b[i - Len(a)]
      BY <1>1, <2>2
    <3> QED BY <3>1, <3>2
  <2> QED BY <2>1, <2>2
<1> QED BY <1>1, <1>3 DEF Splits, c

-----------------------------------------------------------------------------
(***************************************************************************)
(* What a filter keeps of the end of a list.                               *)
(***************************************************************************)

\* A set of numbers has as many members when all of them are moved up.
LEMMA ShiftedCard ==
  ASSUME NEW A, A \subseteq Nat, IsFiniteSet(A), NEW k \in Nat,
         NEW B, B \subseteq Nat, \A a \in A : a + k \in B, \A b \in B : \E a \in A : b = a + k
  PROVE  IsFiniteSet(B) /\ Cardinality(B) = Cardinality(A)
PROOF
<1> DEFINE f == [a \in A |-> a + k]
<1>1. f \in Surjection(A, B)
  BY DEF Surjection
<1>2. f \in Injection(A, B)
  <2>1. \A a, b \in A : a + k = b + k => a = b
    OBVIOUS
  <2> QED BY <2>1 DEF Injection, IsInjective
<1> HIDE DEF f
<1> QED BY <1>1, <1>2, FS_Surjection

\* The positions kept after the first k, counted from there.
Later(kept, k, N) == {i \in 1..N-k : i + k \in kept}

LEMMA LaterRank ==
  ASSUME NEW N \in Nat, NEW kept, kept \subseteq 1..N, NEW k \in 0..N
  PROVE  /\ Cardinality(Later(kept, k, N)) \in Nat
         /\ Later(kept, k, N) \subseteq 1..N-k
         /\ Cardinality(kept) - Cardinality(Later(kept, k, N)) \in Nat
         /\ \A i \in Later(kept, k, N) :
              Rank(kept, i + k) = Rank(Later(kept, k, N), i)
                                    + (Cardinality(kept) - Cardinality(Later(kept, k, N)))
         /\ (\A i \in kept : i > k) => Cardinality(Later(kept, k, N)) = Cardinality(kept)
PROOF
<1> DEFINE late == Later(kept, k, N)
           early == {j \in kept : j <= k}
           high == {j \in kept : j > k}
           Upto(i) == {j \in late : j <= i}
           High(i) == {j \in kept : j > k /\ j <= i + k}
<1>1. late \subseteq 1..N-k /\ N - k \in Nat
  BY DEF Later
<1>2. /\ IsFiniteSet(kept) /\ Cardinality(kept) \in Nat
      /\ IsFiniteSet(late) /\ Cardinality(late) \in Nat
  BY <1>1, KeptFinite
<1>3. k \in Nat /\ \A j \in kept : j \in Nat /\ j \in 1..N
  OBVIOUS
<1>0. \A j \in late : j \in Nat /\ j + k \in kept /\ j + k > k
  <2>1. \A j \in late : j \in 1..N-k /\ j + k \in kept
    BY DEF Later
  <2> HIDE DEF late
  <2>2. \A j \in 1..N-k : j \in Nat /\ j + k > k
    OBVIOUS
  <2> QED BY <2>1, <2>2
<1>4. IsFiniteSet(early) /\ Cardinality(early) \in Nat
  <2>1. early \subseteq 1..N
    OBVIOUS
  <2> HIDE DEF early
  <2> QED BY <2>1, KeptFinite
<1>5. IsFiniteSet(high) /\ Cardinality(high) = Cardinality(late)
  <2>1. late \subseteq Nat /\ high \subseteq Nat /\ \A a \in late : a + k \in high
    <3> HIDE DEF late
    <3>1. \A a \in late : a + k \in high
      BY <1>0
    <3>2. \A b \in high : b \in Nat
      BY <1>3
    <3> HIDE DEF high
    <3> QED BY <1>0, <3>1, <3>2
  <2>2. \A b \in high : \E a \in late : b = a + k
    <3> SUFFICES ASSUME NEW b \in high PROVE \E a \in late : b = a + k
      OBVIOUS
    <3>1. b - k \in 1..N-k /\ (b - k) + k = b /\ b \in kept
      BY <1>3
    <3>2. b - k \in late
      BY <3>1 DEF Later
    <3> QED BY <3>1, <3>2
  <2> HIDE DEF late, high
  <2> QED BY <1>2, <1>3, <2>1, <2>2, ShiftedCard
<1>6. Cardinality(kept) = Cardinality(early) + Cardinality(late)
  <2>1. kept = early \cup high /\ early \cap high = {}
    <3>1. \A j \in kept : (j <= k \/ j > k) /\ ~(j <= k /\ j > k)
      BY <1>3
    <3> QED BY <3>1
  <2> HIDE DEF early, high, late
  <2>2. Cardinality(kept) = Cardinality(early) + Cardinality(high) - Cardinality({})
    BY <1>4, <1>5, <2>1, FS_Union
  <2> QED BY <1>2, <1>4, <1>5, <2>2, FS_EmptySet
<1>7. ASSUME NEW i \in late
      PROVE  Rank(kept, i + k) = Rank(late, i) + Cardinality(early)
  <2>0. i \in Nat /\ i \in 1..N-k
    BY <1>1
  <2>1. IsFiniteSet(Upto(i)) /\ Cardinality(Upto(i)) \in Nat
    <3>1. Upto(i) \subseteq 1..N-k
      BY <1>1
    <3> HIDE DEF Upto
    <3> QED BY <1>1, <3>1, KeptFinite
  <2>2. IsFiniteSet(High(i)) /\ Cardinality(High(i)) = Cardinality(Upto(i))
    <3>1. Upto(i) \subseteq Nat /\ High(i) \subseteq Nat
      <4> HIDE DEF late
      <4>1. (\A j \in Upto(i) : j \in Nat) /\ \A j \in High(i) : j \in Nat
        BY <1>0, <1>3
      <4> HIDE DEF Upto, High
      <4> QED BY <4>1
    <3>2. \A a \in Upto(i) : a + k \in High(i)
      <4> SUFFICES ASSUME NEW a \in Upto(i) PROVE a + k \in High(i)
        OBVIOUS
      <4>1. a \in 1..N-k /\ a + k \in kept /\ a <= i
        BY DEF Later
      <4>2. a + k > k /\ a + k <= i + k
        BY <2>0, <4>1
      <4> QED BY <4>1, <4>2
    <3>3. \A b \in High(i) : \E a \in Upto(i) : b = a + k
      <4> SUFFICES ASSUME NEW b \in High(i) PROVE \E a \in Upto(i) : b = a + k
        OBVIOUS
      <4>0. b \in kept /\ b > k /\ b <= i + k /\ b \in 1..N
        OBVIOUS
      <4>1. b - k \in 1..N-k /\ (b - k) + k = b /\ b - k <= i
        BY <2>0, <4>0
      <4>2. b - k \in late
        BY <4>0, <4>1 DEF Later
      <4> QED BY <4>1, <4>2
    <3> HIDE DEF Upto, High
    <3> QED BY <1>3, <2>1, <3>1, <3>2, <3>3, ShiftedCard
  <2>3. {j \in kept : j <= i + k} = early \cup High(i) /\ early \cap High(i) = {}
    <3>1. \A j \in kept : j <= i + k <=> (j <= k \/ (j > k /\ j <= i + k))
      BY <1>3, <2>0
    <3>2. \A j \in kept : ~(j <= k /\ j > k)
      BY <1>3
    <3> QED BY <3>1, <3>2
  <2>4. Rank(kept, i + k) = Cardinality(early \cup High(i)) /\ Rank(late, i) = Cardinality(Upto(i))
    BY <2>3 DEF Rank
  <2> HIDE DEF early, High, Upto, late
  <2>5. Cardinality(early \cup High(i)) = Cardinality(early) + Cardinality(High(i)) - Cardinality({})
    BY <1>4, <2>2, <2>3, FS_Union
  <2> QED BY <1>4, <2>1, <2>2, <2>4, <2>5, FS_EmptySet
<1>8. ASSUME \A i \in kept : i > k
      PROVE  Cardinality(late) = Cardinality(kept)
  <2>0. \A i \in kept : ~(i <= k)
    BY <1>3, <1>8
  <2>1. early = {}
    BY <2>0
  <2> HIDE DEF early, late
  <2> QED BY <1>2, <1>6, <2>1, FS_EmptySet
<1> HIDE DEF early, late
<1>9. Cardinality(kept) - Cardinality(late) = Cardinality(early)
  BY <1>2, <1>4, <1>6
<1> QED BY <1>1, <1>2, <1>4, <1>7, <1>8, <1>9 DEF late

\* The selection of the end of a list is the end of its selection.
LEMMA PickedTail ==
  ASSUME NEW N \in Nat, NEW kept, kept \subseteq 1..N, NEW k \in 0..N
  PROVE  LET late == Later(kept, k, N)
             m == Cardinality(kept) - Cardinality(late) IN
         /\ late \subseteq 1..N-k /\ Cardinality(late) \in Nat /\ m \in Nat
         /\ \A n \in 1..Cardinality(late) : n + m \in 1..Cardinality(kept)
                                            /\ Nth(kept, n + m) = Nth(late, n) + k
         /\ (\A i \in kept : i > k) => m = 0
PROOF
<1> DEFINE late == Later(kept, k, N)
           m == Cardinality(kept) - Cardinality(late)
<1>1. /\ late \subseteq 1..N-k /\ Cardinality(late) \in Nat /\ m \in Nat
      /\ \A i \in late : Rank(kept, i + k) = Rank(late, i) + m
      /\ (\A i \in kept : i > k) => Cardinality(late) = Cardinality(kept)
  BY LaterRank
<1>2. Cardinality(kept) \in Nat
  BY KeptFinite
<1>3. (\A i \in kept : i > k) => m = 0
  BY <1>1, <1>2
<1>4. \A n \in 1..Cardinality(late) : n + m \in 1..Cardinality(kept)
  BY <1>1, <1>2
<1>5. \A i \in late : i + k \in kept
  BY DEF Later
<1> HIDE DEF late, m
<1>6. N - k \in Nat
  OBVIOUS
<1>7. ASSUME NEW n \in 1..Cardinality(late)
      PROVE  Nth(kept, n + m) = Nth(late, n) + k
  <2>1. Nth(late, n) \in late /\ Rank(late, Nth(late, n)) = n
    BY <1>1, <1>6, NthRank
  <2>2. Nth(late, n) + k \in kept /\ Rank(kept, Nth(late, n) + k) = n + m
    BY <1>1, <1>5, <2>1
  <2>3. Nth(kept, n + m) \in kept /\ Rank(kept, Nth(kept, n + m)) = n + m
    BY <1>4, NthRank
  <2>4. \A i, j \in kept : Rank(kept, i) = Rank(kept, j) => i = j
    BY NthRank
  <2> QED BY <2>2, <2>3, <2>4
<1> QED BY <1>1, <1>3, <1>4, <1>7 DEF late, m

\* A suffix, element by element.
EndsAlike(s, t) ==
  Len(s) <= Len(t) /\ \A i \in 1..Len(s) : s[i] = t[Len(t) - Len(s) + i]

LEMMA SuffixFacts ==
  ASSUME NEW S, NEW s \in Seq(S), NEW t \in Seq(S)
  PROVE  IsSuffix(s, t) <=> EndsAlike(s, t)
PROOF
<1> DEFINE a == Reverse(s)
           b == Reverse(t)
           m == Len(s)
           n == Len(t)
<1>1. m \in Nat /\ n \in Nat /\ s \in [1..m -> S] /\ t \in [1..n -> S]
  OBVIOUS
<1>2. /\ a \in Seq(S) /\ Len(a) = m /\ \A j \in 1..m : a[j] = s[m - j + 1]
      /\ b \in Seq(S) /\ Len(b) = n /\ \A j \in 1..n : b[j] = t[n - j + 1]
  <2>1. \A j \in 1..m : m - j + 1 \in 1..m
    BY <1>1
  <2>2. \A j \in 1..n : n - j + 1 \in 1..n
    BY <1>1
  <2> QED BY <1>1, <2>1, <2>2 DEF Reverse
<1>3. IsSuffix(s, t) <=> m <= n /\ SubSeq(a, 1, m) = SubSeq(b, 1, m)
  BY <1>2 DEF IsSuffix, IsPrefix
<1> HIDE DEF a, b, m, n
<1>4. ASSUME m <= n
      PROVE  SubSeq(a, 1, m) = SubSeq(b, 1, m) <=> \A j \in 1..m : a[j] = b[j]
  <2>1. /\ SubSeq(a, 1, m) = [j \in 1..m |-> a[j]] /\ SubSeq(b, 1, m) = [j \in 1..m |-> b[j]]
    BY <1>1, <1>2, <1>4
  <2> QED BY <2>1
<1>5. ASSUME m <= n
      PROVE  (\A j \in 1..m : a[j] = b[j]) <=> (\A i \in 1..m : s[i] = t[n - m + i])
  <2>1. ASSUME \A j \in 1..m : a[j] = b[j], NEW i \in 1..m PROVE s[i] = t[n - m + i]
    <3>1. m - i + 1 \in 1..m /\ m - i + 1 \in 1..n /\ m - (m - i + 1) + 1 = i /\ n - (m - i + 1) + 1 = n - m + i
      BY <1>1, <1>5
    <3> QED BY <1>2, <2>1, <3>1
  <2>2. ASSUME \A i \in 1..m : s[i] = t[n - m + i], NEW j \in 1..m PROVE a[j] = b[j]
    <3>1. m - j + 1 \in 1..m /\ j \in 1..n /\ n - m + (m - j + 1) = n - j + 1
      BY <1>1, <1>5
    <3>2. a[j] = s[m - j + 1] /\ b[j] = t[n - j + 1]
      BY <1>2, <3>1
    <3>3. s[m - j + 1] = t[n - m + (m - j + 1)]
      BY <2>2, <3>1
    <3> QED BY <3>1, <3>2, <3>3
  <2> QED BY <2>1, <2>2
<1>6. EndsAlike(s, t) <=> m <= n /\ \A i \in 1..m : s[i] = t[n - m + i]
  BY DEF EndsAlike, m, n
<1> QED BY <1>3, <1>4, <1>5, <1>6

LEMMA EndsAlikeTransitive ==
  ASSUME NEW S, NEW s \in Seq(S), NEW t \in Seq(S), NEW u \in Seq(S), EndsAlike(s, t), EndsAlike(t, u)
  PROVE  EndsAlike(s, u)
PROOF
<1>1. Len(s) \in Nat /\ Len(t) \in Nat /\ Len(u) \in Nat /\ Len(s) <= Len(t) /\ Len(t) <= Len(u)
  BY DEF EndsAlike
<1>2. ASSUME NEW i \in 1..Len(s)
      PROVE  s[i] = u[Len(u) - Len(s) + i]
  <2>1. Len(t) - Len(s) + i \in 1..Len(t)
    BY <1>1
  <2>2. Len(u) - Len(t) + (Len(t) - Len(s) + i) = Len(u) - Len(s) + i
    BY <1>1
  <2>3. s[i] = t[Len(t) - Len(s) + i]
    BY DEF EndsAlike
  <2>4. t[Len(t) - Len(s) + i] = u[Len(u) - Len(t) + (Len(t) - Len(s) + i)]
    BY <2>1 DEF EndsAlike
  <2> QED BY <2>2, <2>3, <2>4
<1> QED BY <1>1, <1>2 DEF EndsAlike
=============================================================================
