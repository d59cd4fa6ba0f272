--------------------------- MODULE SequenceLemmas ---------------------------
(***************************************************************************)
(* Lemmas about finite sets of numbers, sorting and flattening, for the    *)
(* proofs about the modules that compute on sequences.                     *)
(*                                                                         *)
(* The library states induction for a predicate, given as an operator.     *)
(* Here it is stated for a set, which a proof defines as that of the       *)
(* numbers that have the property (Induction); it follows from the finite  *)
(* sets being well-founded.  With it, FlattenSeq, which the library        *)
(* defines by a recursive function, is shown to obey its equation.         *)
(***************************************************************************)
EXTENDS Sorting, Integers, FiniteSets, FiniteSetTheorems, SequenceTheorems, WellFoundedInduction, TLAPS

-----------------------------------------------------------------------------
(* Induction. *)

LEMMA LeastNatural ==
    ASSUME NEW S, S \subseteq Nat, S # {}
    PROVE  \E m \in S : \A n \in S : m <= n
<1> DEFINE Below(k) == 0..(k - 1)
           B == {Below(k) : k \in S}
           R == StrictSubsetOrdering(Nat)
           FN == FiniteSubsetsOf(Nat)
<1>1. IsWellFoundedOn(R, FN)
  BY FS_StrictSubsetOrderingWellFounded
<1>2. B \subseteq FN
  <2>1. ASSUME NEW k \in S
        PROVE  Below(k) \in FN
    <3>1. k - 1 \in Int /\ Below(k) \subseteq Nat
      BY k \in Nat
    <3>2. IsFiniteSet(0..(k - 1))
      BY <3>1, FS_Interval
    <3> QED
      BY <3>1, <3>2 DEF FiniteSubsetsOf
  <2> QED
    BY <2>1
<1>3. B # {}
  OBVIOUS
<1>4. \E x \in B : \A y \in B : ~(<<y, x>> \in R)
  <2> HIDE DEF B, R, FN
  <2> QED
    BY <1>1, <1>2, <1>3, WFMin
<1>5. PICK m \in S : \A y \in B : ~(<<y, Below(m)>> \in R)
  BY <1>4
<1>6. ASSUME NEW n \in S, n < m
      PROVE  FALSE
  <2>1. Below(n) \subseteq Below(m) /\ Below(n) # Below(m)
    <3>1. n \in Below(m) /\ n \notin Below(n)
      BY <1>6
    <3> QED
      BY <1>6, <3>1
  <2>2. <<Below(n), Below(m)>> \in R
    BY <2>1 DEF StrictSubsetOrdering
  <2> QED
    BY <1>5, <2>2
<1> QED
  BY <1>6

LEMMA Induction ==
    ASSUME NEW S, 0 \in S, \A n \in Nat : n \in S => n + 1 \in S
    PROVE  Nat \subseteq S
<1> SUFFICES ASSUME Nat \ S # {}
             PROVE  FALSE
  OBVIOUS
<1>1. PICK m \in Nat \ S : \A n \in Nat \ S : m <= n
  BY LeastNatural
<1>2. m - 1 \in Nat /\ m - 1 \notin Nat \ S
  BY <1>1
<1> QED
  BY <1>1, <1>2

LEMMA IsASequence ==
    ASSUME NEW T, NEW n \in Nat, NEW s \in [1..n -> T]
    PROVE  s \in Seq(T) /\ Len(s) = n /\ DOMAIN s = 1..n
OBVIOUS

-----------------------------------------------------------------------------
(* Sorting. *)

\* A strict order of the elements of S, any two of which it compares.
StrictOrder(less, S) ==
    /\ \A a, b \in S : a # b => <<a, b>> \in less \/ <<b, a>> \in less
    /\ \A a, b \in S : ~(<<a, b>> \in less /\ <<b, a>> \in less)
    /\ \A a, b, c \in S : <<a, b>> \in less /\ <<b, c>> \in less => <<a, c>> \in less

\* The sequence r lists S from the least element to the greatest.
Ascending(r, less, S) ==
    /\ ToSet(r) = S
    /\ \A i, j \in DOMAIN r : i < j => <<r[i], r[j]>> \in less

LEMMA OrderOfSubset ==
    ASSUME NEW S, NEW T, T \subseteq S, NEW less, StrictOrder(less, S)
    PROVE  StrictOrder(less, T)
<1>1. \A a \in T : a \in S
  OBVIOUS
<1>2. \A a, b \in T : a # b => <<a, b>> \in less \/ <<b, a>> \in less
  BY <1>1 DEF StrictOrder
<1>3. \A a, b \in T : ~(<<a, b>> \in less /\ <<b, a>> \in less)
  BY <1>1 DEF StrictOrder
<1>4. \A a, b, c \in T : <<a, b>> \in less /\ <<b, c>> \in less => <<a, c>> \in less
  BY <1>1 DEF StrictOrder
<1> QED
  BY <1>2, <1>3, <1>4 DEF StrictOrder

LEMMA Greatest ==
    ASSUME NEW less, NEW U, StrictOrder(less, U)
    PROVE  \A n \in Nat : \A S \in SUBSET U :
              IsFiniteSet(S) /\ Cardinality(S) = n + 1 =>
                 \E m \in S : \A a \in S \ {m} : <<a, m>> \in less
<1> DEFINE Good(n) == \A S \in SUBSET U :
              IsFiniteSet(S) /\ Cardinality(S) = n + 1 =>
                 \E m \in S : \A a \in S \ {m} : <<a, m>> \in less
           N == {n \in Nat : Good(n)}
<1>1. 0 \in N
  <2> SUFFICES ASSUME NEW S \in SUBSET U, IsFiniteSet(S), Cardinality(S) = 1
               PROVE  \E m \in S : \A a \in S \ {m} : <<a, m>> \in less
    OBVIOUS
  <2>1. PICK m : S = {m}
    BY FS_Singleton
  <2> QED
    BY <2>1
<1>2. ASSUME NEW n \in Nat, n \in N
      PROVE  n + 1 \in N
  <2> SUFFICES ASSUME NEW S \in SUBSET U, IsFiniteSet(S), Cardinality(S) = n + 2
               PROVE  \E m \in S : \A a \in S \ {m} : <<a, m>> \in less
    <3>1. \A k \in Nat : (k + 1) + 1 = k + 2
      OBVIOUS
    <3> QED
      BY <3>1
  <2>1. PICK x \in S : TRUE
    BY FS_EmptySet
  <2>2. IsFiniteSet(S \ {x}) /\ Cardinality(S \ {x}) = n + 1
    BY FS_RemoveElement
  <2>3. Good(n)
    BY <1>2
  <2>4. PICK m \in S \ {x} : \A a \in (S \ {x}) \ {m} : <<a, m>> \in less
    BY <2>2, <2>3
  <2>5. CASE <<x, m>> \in less
    BY <2>4, <2>5
  <2>6. CASE <<m, x>> \in less
    <3>1. \A a \in S \ {x} : <<a, x>> \in less
      BY <2>4, <2>6 DEF StrictOrder
    <3> QED
      BY <3>1
  <2> QED
    BY <2>4, <2>5, <2>6 DEF StrictOrder
<1>3. Nat \subseteq N
  <2> HIDE DEF N
  <2> QED
    BY <1>1, <1>2, Induction
<1> QED
  BY <1>3

LEMMA AscendingExists ==
    ASSUME NEW less, NEW U, StrictOrder(less, U)
    PROVE  \A n \in Nat : \A S \in SUBSET U :
              IsFiniteSet(S) /\ Cardinality(S) = n =>
                 \E r \in [1..n -> S] : Ascending(r, less, S)
<1> DEFINE Good(n) == \A S \in SUBSET U :
              IsFiniteSet(S) /\ Cardinality(S) = n =>
                 \E r \in [1..n -> S] : Ascending(r, less, S)
           N == {n \in Nat : Good(n)}
<1>1. 0 \in N
  <2> SUFFICES ASSUME NEW S \in SUBSET U, IsFiniteSet(S), Cardinality(S) = 0
               PROVE  \E r \in [1..0 -> S] : Ascending(r, less, S)
    OBVIOUS
  <2>1. S = {}
    BY FS_EmptySet
  <2>2. [i \in 1..0 |-> i] \in [1..0 -> S]
    OBVIOUS
  <2>3. Ascending([i \in 1..0 |-> i], less, S)
    BY <2>1 DEF Ascending, ToSet
  <2> QED
    BY <2>2, <2>3
<1>2. ASSUME NEW n \in Nat, n \in N
      PROVE  n + 1 \in N
  <2> SUFFICES ASSUME NEW S \in SUBSET U, IsFiniteSet(S), Cardinality(S) = n + 1
               PROVE  \E r \in [1..(n + 1) -> S] : Ascending(r, less, S)
    OBVIOUS
  <2>1. PICK m \in S : \A a \in S \ {m} : <<a, m>> \in less
    BY Greatest
  <2>2. IsFiniteSet(S \ {m}) /\ Cardinality(S \ {m}) = n
    BY FS_RemoveElement
  <2>3. PICK q \in [1..n -> S \ {m}] : Ascending(q, less, S \ {m})
    BY <1>2, <2>2
  <2> DEFINE r == [i \in 1..(n + 1) |-> IF i = n + 1 THEN m ELSE q[i]]
  <2>4. r \in [1..(n + 1) -> S]
    <3>1. \A i \in 1..(n + 1) : i # n + 1 => i \in 1..n
      OBVIOUS
    <3> QED
      BY <3>1
  <2>5. ToSet(r) = S
    <3>1. \A a \in S \ {m} : \E i \in 1..n : q[i] = a
      BY <2>3 DEF Ascending, ToSet
    <3>2. r[n + 1] = m /\ \A i \in 1..n : i \in 1..(n + 1) /\ r[i] = q[i]
      OBVIOUS
    <3>3. S \subseteq ToSet(r)
      BY <3>1, <3>2 DEF ToSet
    <3> QED
      BY <2>4, <3>3 DEF ToSet
  <2>6. ASSUME NEW i \in 1..(n + 1), NEW j \in 1..(n + 1), i < j
        PROVE  <<r[i], r[j]>> \in less
    <3>1. i \in 1..n
      BY <2>6
    <3>2. CASE j = n + 1
      BY <2>1, <3>1, <3>2
    <3>3. CASE j \in 1..n
      BY <2>3, <2>6, <3>1, <3>3 DEF Ascending
    <3> QED
      BY <3>2, <3>3
  <2>7. Ascending(r, less, S)
    BY <2>5, <2>6 DEF Ascending
  <2> QED
    BY <2>4, <2>7
<1>3. Nat \subseteq N
  <2> HIDE DEF N
  <2> QED
    BY <1>1, <1>2, Induction
<1> QED
  BY <1>3

LEMMA AscendingUnique ==
    ASSUME NEW S, NEW less, StrictOrder(less, S), NEW n \in Nat,
           NEW q \in [1..n -> S], Ascending(q, less, S),
           NEW r \in [1..n -> S], Ascending(r, less, S)
    PROVE  q = r
<1> DEFINE D == {i \in 1..n : q[i] # r[i]}
<1> SUFFICES ASSUME D # {}
             PROVE  FALSE
  OBVIOUS
<1>1. PICK i \in D : \A j \in D : i <= j
  <2>1. D \subseteq Nat
    OBVIOUS
  <2> HIDE DEF D
  <2> QED
    BY <2>1, LeastNatural
<1>2. ASSUME NEW f \in [1..n -> S], NEW g \in [1..n -> S],
             Ascending(f, less, S), Ascending(g, less, S),
             \A j \in 1..n : j < i => f[j] = g[j], f[i] # g[i]
      PROVE  <<g[i], f[i]>> \in less
  <2>1. PICK j \in 1..n : f[j] = g[i]
    BY <1>2 DEF Ascending, ToSet
  <2>2. CASE j < i
    <3>1. <<g[j], g[i]>> \in less
      BY <1>2, <2>2 DEF Ascending
    <3>2. g[j] = g[i]
      BY <1>2, <2>1, <2>2
    <3> QED
      BY <3>1, <3>2 DEF StrictOrder
  <2>3. CASE i < j
    <3>1. <<f[i], f[j]>> \in less
      BY <1>2, <2>3 DEF Ascending
    <3>2. PICK k \in 1..n : g[k] = f[i]
      BY <1>2 DEF Ascending, ToSet
    <3>3. ~(i < k)
      <4>1. i < k => <<g[i], g[k]>> \in less
        BY <1>2 DEF Ascending
      <4>2. i < k => <<g[i], g[k]>> \notin less
        BY <2>1, <3>1, <3>2 DEF StrictOrder
      <4> QED
        BY <4>1, <4>2
    <3>4. k < i
      BY <1>2, <3>2, <3>3
    <3>5. f[k] = f[i] /\ <<f[k], f[i]>> \in less
      BY <1>2, <3>2, <3>4 DEF Ascending
    <3> QED
      BY <3>5 DEF StrictOrder
  <2> QED
    BY <1>2, <2>1, <2>2, <2>3
<1>3. \A j \in 1..n : j < i => q[j] = r[j]
  BY <1>1
<1>4. <<r[i], q[i]>> \in less /\ <<q[i], r[i]>> \in less
  BY <1>1, <1>2, <1>3
<1> QED
  BY <1>4 DEF StrictOrder

LEMMA ListedOnce ==
    ASSUME NEW S, NEW s \in Seq(S), IsInjective(s), ToSet(s) = S
    PROVE  IsFiniteSet(S) /\ Cardinality(S) = Len(s)
<1>1. Len(s) \in Nat /\ DOMAIN s = 1..Len(s) /\ s \in [1..Len(s) -> S]
  OBVIOUS
<1>2. s \in Bijection(1..Len(s), S)
  BY <1>1 DEF Bijection, Injection, Surjection, ToSet
<1>3. IsFiniteSet(1..Len(s)) /\ Cardinality(1..Len(s)) = Len(s)
  BY <1>1, FS_Interval
<1> QED
  BY <1>2, <1>3, FS_Bijection DEF ExistsBijection

LEMMA SortedIsAscending ==
    ASSUME NEW S, NEW s \in Seq(S), IsInjective(s), ToSet(s) = S,
           NEW less, StrictOrder(less, S)
    PROVE  Sorted(s, less) \in [1..Len(s) -> S] /\ Ascending(Sorted(s, less), less, S)
<1> DEFINE n == Len(s)
           Sorts(p) == \A i, j \in DOMAIN s : i < j => <<s[p[j]], s[p[i]]>> \notin less
<1>1. n \in Nat /\ DOMAIN s = 1..n /\ s \in [1..n -> S]
  OBVIOUS
<1>2. Cardinality(DOMAIN s) = n /\ IsFiniteSet(1..n)
  <2> HIDE DEF n
  <2>1. IsFiniteSet(1..n) /\ Cardinality(1..n) = n
    BY <1>1, FS_Interval
  <2> QED
    BY <1>1, <2>1
<1>3. \E p \in SetToSeqs(DOMAIN s) : Sorts(p)
  <2>1. PICK r \in [1..n -> S] : Ascending(r, less, S)
    <3>1. S \in SUBSET S
      OBVIOUS
    <3> QED
      BY <1>1, <3>1, ListedOnce, AscendingExists
  <2> DEFINE p == [i \in 1..n |-> CHOOSE k \in 1..n : s[k] = r[i]]
  <2>2. \A i \in 1..n : p[i] \in 1..n /\ s[p[i]] = r[i]
    <3>1. \A i \in 1..n : \E k \in 1..n : s[k] = r[i]
      BY <1>1 DEF ToSet
    <3> QED
      BY <3>1
  <2>3. ASSUME NEW i \in 1..n, NEW j \in 1..n, i # j
        PROVE  p[i] # p[j]
    <3>1. r[i] # r[j]
      <4>1. i < j => <<r[i], r[j]>> \in less
        BY <2>1 DEF Ascending
      <4>2. j < i => <<r[j], r[i]>> \in less
        BY <2>1 DEF Ascending
      <4>3. i < j \/ j < i
        BY <2>3
      <4> QED
        BY <4>1, <4>2, <4>3 DEF StrictOrder
    <3> QED
      BY <2>2, <3>1
  <2>4. p \in SetToSeqs(DOMAIN s)
    <3>1. p \in [1..n -> 1..n]
      BY <2>2
    <3> HIDE DEF p
    <3> QED
      BY <1>1, <1>2, <2>3, <3>1 DEF SetToSeqs
  <2>5. Sorts(p)
    BY <1>1, <2>1, <2>2 DEF Ascending, StrictOrder
  <2> QED
    BY <2>4, <2>5
<1> DEFINE p == CHOOSE p \in SetToSeqs(DOMAIN s) : Sorts(p)
<1>4. p \in SetToSeqs(DOMAIN s) /\ Sorts(p)
  BY <1>3
<1>5. Sorted(s, less) = [i \in 1..n |-> s[p[i]]]
  BY <1>1 DEF Sorted
<1> HIDE DEF p
<1>6. p \in Injection(1..n, 1..n)
  BY <1>1, <1>2, <1>4 DEF SetToSeqs, Injection, IsInjective
<1>7. p \in [1..n -> 1..n] /\ \A k \in 1..n : \E i \in 1..n : p[i] = k
  <2>1. p \in Surjection(1..n, 1..n)
    BY <1>2, <1>6, FS_Injection
  <2> QED
    BY <2>1 DEF Surjection
<1>8. Sorted(s, less) \in [1..n -> S]
  BY <1>1, <1>5, <1>7
<1>9. ToSet(Sorted(s, less)) = S
  <2>1. S \subseteq ToSet(Sorted(s, less))
    BY <1>1, <1>5, <1>7 DEF ToSet
  <2> QED
    BY <1>8, <2>1 DEF ToSet
<1>10. ASSUME NEW i \in 1..n, NEW j \in 1..n, i < j
       PROVE  <<s[p[i]], s[p[j]]>> \in less
  <2>1. <<s[p[j]], s[p[i]]>> \notin less
    BY <1>1, <1>4, <1>10
  <2>2. p[i] # p[j]
    BY <1>6, <1>7, <1>10 DEF Injection, IsInjective
  <2>3. s[p[i]] # s[p[j]]
    BY <1>1, <1>7, <2>2 DEF IsInjective
  <2> QED
    BY <1>1, <1>7, <2>1, <2>3 DEF StrictOrder
<1> QED
  BY <1>5, <1>8, <1>9, <1>10 DEF Ascending

\* Sorting forgets the order in which the elements came.
THEOREM SortedForgetsOrder ==
    ASSUME NEW S, NEW less, StrictOrder(less, S),
           NEW s \in Seq(S), IsInjective(s), ToSet(s) = S,
           NEW t \in Seq(S), IsInjective(t), ToSet(t) = S
    PROVE  Sorted(s, less) = Sorted(t, less)
<1> DEFINE n == Len(s)
           a == Sorted(s, less)
           b == Sorted(t, less)
<1>1. n = Len(t) /\ n \in Nat
  BY ListedOnce
<1>2. a \in [1..n -> S] /\ Ascending(a, less, S)
  BY SortedIsAscending
<1>3. b \in [1..n -> S] /\ Ascending(b, less, S)
  BY <1>1, SortedIsAscending
<1> HIDE DEF n, a, b
<1>4. a = b
  BY <1>1, <1>2, <1>3, AscendingUnique
<1> QED
  BY <1>4 DEF a, b

-----------------------------------------------------------------------------
(* Flattening. *)

\* The recursive function of FlattenSeq, of the first n of seqs.
Flattens(f, seqs, n) ==
    f = [i \in 1..n |-> IF i = 1 THEN seqs[i] ELSE f[i - 1] \o seqs[i]]

LEMMA FlattensExists ==
    ASSUME NEW seqs
    PROVE  \A n \in Nat : \E f : Flattens(f, seqs, n)
<1> DEFINE N == {n \in Nat : \E f : Flattens(f, seqs, n)}
<1>1. 0 \in N
  <2> DEFINE f == [i \in 1..0 |-> seqs[i]]
  <2>1. Flattens(f, seqs, 0)
    BY DEF Flattens
  <2> QED
    BY <2>1
<1>2. ASSUME NEW n \in Nat, n \in N
      PROVE  n + 1 \in N
  <2>1. PICK f : Flattens(f, seqs, n)
    BY <1>2
  <2> DEFINE g == [i \in 1..(n + 1) |->
                      IF i = n + 1 THEN IF i = 1 THEN seqs[i] ELSE f[n] \o seqs[i]
                      ELSE f[i]]
  <2>2. ASSUME NEW i \in 1..(n + 1)
        PROVE  g[i] = IF i = 1 THEN seqs[i] ELSE g[i - 1] \o seqs[i]
    <3>1. CASE i = 1
      <4>1. n # 0 => f[1] = seqs[1]
        BY <2>1 DEF Flattens
      <4> QED
        BY <3>1, <4>1
    <3>2. CASE i # 1 /\ i = n + 1
      <4>1. i - 1 = n /\ n \in 1..(n + 1) /\ n # n + 1
        BY <3>2
      <4>2. g[i] = f[n] \o seqs[i] /\ g[n] = f[n]
        BY <3>2, <4>1
      <4> QED
        BY <3>2, <4>1, <4>2
    <3>3. CASE i # 1 /\ i # n + 1
      <4>1. i \in 1..n /\ i - 1 \in 1..(n + 1) /\ i - 1 # n + 1
        BY <3>3
      <4>2. f[i] = f[i - 1] \o seqs[i]
        BY <2>1, <3>3, <4>1 DEF Flattens
      <4>3. g[i] = f[i] /\ g[i - 1] = f[i - 1]
        BY <3>3, <4>1
      <4> QED
        BY <3>3, <4>2, <4>3
    <3> QED
      BY <3>1, <3>2, <3>3
  <2>3. Flattens(g, seqs, n + 1)
    <3>1. g = [i \in 1..(n + 1) |-> g[i]]
      OBVIOUS
    <3> HIDE DEF g
    <3> QED
      BY <2>2, <3>1 DEF Flattens
  <2> QED
    BY <2>3
<1>3. Nat \subseteq N
  <2> HIDE DEF N
  <2> QED
    BY <1>1, <1>2, Induction
<1> QED
  BY <1>3

LEMMA FlattensUnique ==
    ASSUME NEW seqs, NEW m \in Nat, NEW n \in Nat, m <= n,
           NEW f, Flattens(f, seqs, n), NEW g, Flattens(g, seqs, m)
    PROVE  \A i \in 1..m : g[i] = f[i]
<1> DEFINE D == {i \in 1..m : g[i] # f[i]}
<1> SUFFICES ASSUME D # {}
             PROVE  FALSE
  OBVIOUS
<1>1. PICK i \in D : \A j \in D : i <= j
  <2>1. D \subseteq Nat
    OBVIOUS
  <2> HIDE DEF D
  <2> QED
    BY <2>1, LeastNatural
<1>2. i \in 1..m /\ i \in 1..n
  OBVIOUS
<1>3. g[i] = IF i = 1 THEN seqs[i] ELSE g[i - 1] \o seqs[i]
  BY <1>2 DEF Flattens
<1>4. f[i] = IF i = 1 THEN seqs[i] ELSE f[i - 1] \o seqs[i]
  BY <1>2 DEF Flattens
<1>5. i # 1 => g[i - 1] = f[i - 1]
  <2>1. i # 1 => i - 1 \in 1..m /\ i - 1 \notin D
    BY <1>1, <1>2
  <2> QED
    BY <2>1
<1> QED
  BY <1>3, <1>4, <1>5

\* The first n elements of a sequence.
First(s, n) == [i \in 1..n |-> s[i]]

LEMMA FirstType ==
    ASSUME NEW T, NEW s \in Seq(T), NEW n \in 0..Len(s)
    PROVE  First(s, n) \in Seq(T) /\ Len(First(s, n)) = n
           /\ \A m \in 0..n : First(First(s, n), m) = First(s, m)
BY DEF First

LEMMA FlattenSeqFlattens ==
    ASSUME NEW seqs, NEW n \in Nat, n # 0
    PROVE  \E f : Flattens(f, seqs, n) /\ FlattenSeq(First(seqs, n)) = f[n]
<1> DEFINE s == First(seqs, n)
<1>1. Len(s) = n
  BY DEF First
<1>2. \A f : Flattens(f, seqs, n) <=>
         f = [i \in 1..n |-> IF i = 1 THEN s[i] ELSE f[i - 1] \o s[i]]
  <2>1. ASSUME NEW f
        PROVE  [i \in 1..n |-> IF i = 1 THEN seqs[i] ELSE f[i - 1] \o seqs[i]]
               = [i \in 1..n |-> IF i = 1 THEN s[i] ELSE f[i - 1] \o s[i]]
    BY DEF First
  <2> HIDE DEF s
  <2> QED
    BY <2>1 DEF Flattens
<1> HIDE DEF s
<1> DEFINE f == CHOOSE f : f = [i \in 1..n |-> IF i = 1 THEN s[i] ELSE f[i - 1] \o s[i]]
<1>3. Flattens(f, seqs, n)
  BY <1>2, FlattensExists
<1>4. FlattenSeq(s) = f[n]
  BY <1>1 DEF FlattenSeq
<1> QED
  BY <1>3, <1>4 DEF s

LEMMA FlattenEmpty == FlattenSeq(<<>>) = <<>>
BY DEF FlattenSeq

LEMMA FlattenStep ==
    ASSUME NEW T, NEW seqs \in Seq(Seq(T)), NEW n \in 1..Len(seqs)
    PROVE  FlattenSeq(First(seqs, n)) = FlattenSeq(First(seqs, n - 1)) \o seqs[n]
<1>1. n \in Nat /\ n # 0 /\ n - 1 \in Nat
  OBVIOUS
<1>2. PICK f : Flattens(f, seqs, n) /\ FlattenSeq(First(seqs, n)) = f[n]
  BY <1>1, FlattenSeqFlattens
<1>3. CASE n = 1
  <2>1. f[n] = seqs[n]
    BY <1>2, <1>3 DEF Flattens
  <2>2. FlattenSeq(First(seqs, n - 1)) = <<>>
    <3>1. First(seqs, n - 1) = <<>>
      BY <1>3 DEF First
    <3> QED
      BY <3>1, FlattenEmpty
  <2>3. <<>> \o seqs[n] = seqs[n]
    OBVIOUS
  <2> QED
    BY <1>2, <2>1, <2>2, <2>3
<1>4. CASE n # 1
  <2>1. PICK g : Flattens(g, seqs, n - 1) /\ FlattenSeq(First(seqs, n - 1)) = g[n - 1]
    <3> DEFINE m == n - 1
    <3>1. m \in Nat /\ m # 0
      BY <1>1, <1>4
    <3> HIDE DEF m
    <3>2. \E g : Flattens(g, seqs, m) /\ FlattenSeq(First(seqs, m)) = g[m]
      BY <3>1, FlattenSeqFlattens
    <3> QED
      BY <3>2 DEF m
  <2>2. g[n - 1] = f[n - 1]
    <3>1. n - 1 <= n /\ n - 1 \in 1..(n - 1)
      BY <1>1, <1>4
    <3> QED
      BY <1>1, <1>2, <2>1, <3>1, FlattensUnique
  <2>3. f[n] = f[n - 1] \o seqs[n]
    <3>1. n \in 1..n
      BY <1>1
    <3> QED
      BY <1>2, <1>4, <3>1 DEF Flattens
  <2> QED
    BY <1>2, <2>1, <2>2, <2>3
<1> QED
  BY <1>3, <1>4

LEMMA FlattenType ==
    ASSUME NEW T, NEW seqs \in Seq(Seq(T))
    PROVE  \A n \in 0..Len(seqs) : FlattenSeq(First(seqs, n)) \in Seq(T)
<1> DEFINE N == {n \in Nat : n <= Len(seqs) => FlattenSeq(First(seqs, n)) \in Seq(T)}
<1>1. 0 \in N
  <2>1. First(seqs, 0) = <<>> /\ <<>> \in Seq(T)
    BY DEF First
  <2>2. FlattenSeq(First(seqs, 0)) \in Seq(T)
    BY <2>1, FlattenEmpty
  <2> QED
    BY <2>2
<1>2. ASSUME NEW n \in Nat, n \in N
      PROVE  n + 1 \in N
  <2> SUFFICES ASSUME n + 1 <= Len(seqs)
               PROVE  FlattenSeq(First(seqs, n + 1)) \in Seq(T)
    OBVIOUS
  <2>1. n + 1 \in 1..Len(seqs) /\ (n + 1) - 1 = n
    OBVIOUS
  <2>2. FlattenSeq(First(seqs, n + 1)) = FlattenSeq(First(seqs, n)) \o seqs[n + 1]
    BY <2>1, FlattenStep
  <2>3. FlattenSeq(First(seqs, n)) \in Seq(T) /\ seqs[n + 1] \in Seq(T)
    BY <1>2, <2>1
  <2>4. FlattenSeq(First(seqs, n)) \o seqs[n + 1] \in Seq(T)
    BY <2>3, ConcatProperties
  <2> QED
    BY <2>2, <2>4
<1>3. Nat \subseteq N
  <2> HIDE DEF N
  <2> QED
    BY <1>1, <1>2, Induction
<1> QED
  BY <1>3

LEMMA FirstAll ==
    ASSUME NEW T, NEW s \in Seq(T)
    PROVE  First(s, Len(s)) = s
BY DEF First

\* Where FlattenSeq(seqs) has the k-th element of the j-th sequence.
Offset(seqs, j) == Len(FlattenSeq(First(seqs, j - 1)))
Place(seqs, j, k) == Offset(seqs, j) + k

LEMMA OffsetStep ==
    ASSUME NEW T, NEW seqs \in Seq(Seq(T)), NEW j \in 1..Len(seqs)
    PROVE  /\ Offset(seqs, j) \in Nat
           /\ Offset(seqs, j + 1) = Offset(seqs, j) + Len(seqs[j])
           /\ Offset(seqs, 1) = 0
<1>1. j - 1 \in 0..Len(seqs) /\ (j + 1) - 1 = j /\ 1 - 1 = 0
  OBVIOUS
<1>2. FlattenSeq(First(seqs, j)) = FlattenSeq(First(seqs, j - 1)) \o seqs[j]
  BY FlattenStep
<1>3. FlattenSeq(First(seqs, j - 1)) \in Seq(T) /\ seqs[j] \in Seq(T)
  BY <1>1, FlattenType
<1>4. Len(FlattenSeq(First(seqs, 0))) = 0
  <2>1. First(seqs, 0) = <<>>
    BY DEF First
  <2> QED
    BY <2>1, FlattenEmpty
<1>5. Len(FlattenSeq(First(seqs, j))) = Len(FlattenSeq(First(seqs, j - 1))) + Len(seqs[j])
  BY <1>2, <1>3, ConcatProperties
<1>6. Len(FlattenSeq(First(seqs, j - 1))) \in Nat
  BY <1>3
<1> QED
  BY <1>1, <1>4, <1>5, <1>6 DEF Offset

\* The first n sequences take the places below Offset(seqs, n + 1), each its own.
LEMMA FlattenFirstPlaces ==
    ASSUME NEW T, NEW seqs \in Seq(Seq(T))
    PROVE  \A n \in 0..Len(seqs) :
              LET flat == FlattenSeq(First(seqs, n))
              IN  /\ \A j \in 1..n : \A k \in DOMAIN seqs[j] :
                        /\ Place(seqs, j, k) \in DOMAIN flat
                        /\ flat[Place(seqs, j, k)] = seqs[j][k]
                  /\ \A i \in DOMAIN flat :
                        \E j \in 1..n : \E k \in DOMAIN seqs[j] : i = Place(seqs, j, k)
<1> DEFINE flat(n) == FlattenSeq(First(seqs, n))
           Placed(n) == \A j \in 1..n : \A k \in DOMAIN seqs[j] :
                           /\ Place(seqs, j, k) \in DOMAIN flat(n)
                           /\ flat(n)[Place(seqs, j, k)] = seqs[j][k]
           Full(n) == \A i \in DOMAIN flat(n) :
                         \E j \in 1..n : \E k \in DOMAIN seqs[j] : i = Place(seqs, j, k)
           N == {n \in Nat : n <= Len(seqs) => Placed(n) /\ Full(n)}
<1>1. 0 \in N
  <2>1. flat(0) = <<>>
    <3>1. First(seqs, 0) = <<>>
      BY DEF First
    <3> QED
      BY <3>1, FlattenEmpty
  <2> HIDE DEF flat
  <2> QED
    BY <2>1
<1>2. ASSUME NEW n \in Nat, n \in N
      PROVE  n + 1 \in N
  <2> SUFFICES ASSUME n + 1 <= Len(seqs)
               PROVE  Placed(n + 1) /\ Full(n + 1)
    OBVIOUS
  <2>1. n + 1 \in 1..Len(seqs) /\ (n + 1) - 1 = n /\ n \in 0..Len(seqs)
    OBVIOUS
  <2>2. flat(n + 1) = flat(n) \o seqs[n + 1]
    BY <2>1, FlattenStep
  <2>3. flat(n) \in Seq(T) /\ seqs[n + 1] \in Seq(T)
    BY <2>1, FlattenType
  <2>4. Placed(n) /\ Full(n)
    BY <1>2, <2>1
  <2>5. \A k : Place(seqs, n + 1, k) = Len(flat(n)) + k
    BY <2>1 DEF Place, Offset
  <2> HIDE DEF flat
  <2>6. /\ \A i \in DOMAIN flat(n) : i \in DOMAIN flat(n + 1) /\ flat(n + 1)[i] = flat(n)[i]
        /\ \A k \in DOMAIN seqs[n + 1] :
              /\ Len(flat(n)) + k \in DOMAIN flat(n + 1)
              /\ flat(n + 1)[Len(flat(n)) + k] = seqs[n + 1][k]
        /\ \A i \in DOMAIN flat(n + 1) :
              i \in DOMAIN flat(n) \/ \E k \in DOMAIN seqs[n + 1] : i = Len(flat(n)) + k
    <3> DEFINE a == flat(n)
               b == seqs[n + 1]
    <3> HIDE DEF a, b
    <3> DEFINE c == flat(n + 1)
    <3> HIDE DEF c
    <3>1. a \in Seq(T) /\ b \in Seq(T) /\ c = a \o b
      BY <2>2, <2>3 DEF a, b, c
    <3>2. /\ \A i \in DOMAIN a : i \in DOMAIN c /\ c[i] = a[i]
          /\ \A k \in DOMAIN b : Len(a) + k \in DOMAIN c /\ c[Len(a) + k] = b[k]
          /\ \A i \in DOMAIN c : i \in DOMAIN a \/ \E k \in DOMAIN b : i = Len(a) + k
      <4>1. \A i \in DOMAIN c : i \notin DOMAIN a =>
               i - Len(a) \in DOMAIN b /\ i = Len(a) + (i - Len(a))
        BY <3>1
      <4> QED
        BY <3>1, <4>1
    <3> QED
      BY <3>2 DEF a, b, c
  <2>7. Placed(n + 1)
    <3> SUFFICES ASSUME NEW j \in 1..(n + 1), NEW k \in DOMAIN seqs[j]
                 PROVE  /\ Place(seqs, j, k) \in DOMAIN flat(n + 1)
                        /\ flat(n + 1)[Place(seqs, j, k)] = seqs[j][k]
      OBVIOUS
    <3>1. CASE j = n + 1
      BY <2>5, <2>6, <3>1
    <3>2. CASE j \in 1..n
      BY <2>4, <2>6, <3>2
    <3> QED
      BY <3>1, <3>2
  <2>8. Full(n + 1)
    <3> SUFFICES ASSUME NEW i \in DOMAIN flat(n + 1)
                 PROVE  \E j \in 1..(n + 1) : \E k \in DOMAIN seqs[j] : i = Place(seqs, j, k)
      OBVIOUS
    <3>1. CASE i \in DOMAIN flat(n)
      <4>1. PICK j \in 1..n : \E k \in DOMAIN seqs[j] : i = Place(seqs, j, k)
        BY <2>4, <3>1
      <4>2. j \in 1..(n + 1)
        OBVIOUS
      <4> QED
        BY <4>1, <4>2
    <3>2. CASE i \notin DOMAIN flat(n)
      <4>1. n + 1 \in 1..(n + 1)
        OBVIOUS
      <4> QED
        BY <2>5, <2>6, <3>2, <4>1
    <3> QED
      BY <3>1, <3>2
  <2> QED
    BY <2>7, <2>8
<1>3. Nat \subseteq N
  <2> HIDE DEF N
  <2> QED
    BY <1>1, <1>2, Induction
<1> QED
  BY <1>3

\* The places depend only on the lengths.
LEMMA OffsetsOfLengths ==
    ASSUME NEW S, NEW a \in Seq(Seq(S)), NEW T, NEW b \in Seq(Seq(T)),
           Len(a) = Len(b), \A j \in 1..Len(a) : Len(a[j]) = Len(b[j])
    PROVE  \A j \in 1..Len(a) : Offset(a, j) = Offset(b, j)
<1> DEFINE N == {m \in Nat : m + 1 <= Len(a) => Offset(a, m + 1) = Offset(b, m + 1)}
<1>1. 0 \in N
  <2> SUFFICES ASSUME 1 <= Len(a)
               PROVE  Offset(a, 1) = Offset(b, 1)
    OBVIOUS
  <2>1. 1 \in 1..Len(a) /\ 1 \in 1..Len(b)
    OBVIOUS
  <2> QED
    BY <2>1, OffsetStep
<1>2. ASSUME NEW m \in Nat, m \in N
      PROVE  m + 1 \in N
  <2> SUFFICES ASSUME (m + 1) + 1 <= Len(a)
               PROVE  Offset(a, (m + 1) + 1) = Offset(b, (m + 1) + 1)
    OBVIOUS
  <2> DEFINE i == m + 1
  <2>1. i \in 1..Len(a) /\ i \in 1..Len(b) /\ Offset(a, i) = Offset(b, i)
    BY <1>2
  <2> HIDE DEF i
  <2>2. Offset(a, i + 1) = Offset(a, i) + Len(a[i]) /\ Offset(b, i + 1) = Offset(b, i) + Len(b[i])
    BY <2>1, OffsetStep
  <2>3. Offset(a, i + 1) = Offset(b, i + 1)
    BY <2>1, <2>2
  <2> QED
    BY <2>3 DEF i
<1>3. Nat \subseteq N
  <2> HIDE DEF N
  <2> QED
    BY <1>1, <1>2, Induction
<1> SUFFICES ASSUME NEW j \in 1..Len(a)
             PROVE  Offset(a, j) = Offset(b, j)
  OBVIOUS
<1> DEFINE m == j - 1
<1>4. m \in Nat /\ m + 1 = j /\ m + 1 <= Len(a)
  OBVIOUS
<1> HIDE DEF m
<1>5. Offset(a, m + 1) = Offset(b, m + 1)
  BY <1>3, <1>4
<1> QED
  BY <1>4, <1>5

LEMMA OffsetsGrow ==
    ASSUME NEW T, NEW seqs \in Seq(Seq(T)), NEW j \in 1..Len(seqs)
    PROVE  \A m \in Nat : j + m <= Len(seqs) =>
              Offset(seqs, j) + Len(seqs[j]) <= Offset(seqs, j + m + 1)
<1> DEFINE N == {m \in Nat : j + m <= Len(seqs) =>
                    Offset(seqs, j) + Len(seqs[j]) <= Offset(seqs, j + m + 1)}
<1>1. Offset(seqs, j) \in Nat /\ Len(seqs[j]) \in Nat
  BY OffsetStep
<1>2. 0 \in N
  <2>1. j + 0 + 1 = j + 1 /\ Offset(seqs, j + 1) = Offset(seqs, j) + Len(seqs[j])
    BY OffsetStep
  <2> QED
    BY <1>1, <2>1
<1>3. ASSUME NEW m \in Nat, m \in N
      PROVE  m + 1 \in N
  <2> SUFFICES ASSUME j + (m + 1) <= Len(seqs)
               PROVE  Offset(seqs, j) + Len(seqs[j]) <= Offset(seqs, j + (m + 1) + 1)
    OBVIOUS
  <2> DEFINE i == j + m + 1
  <2>1. i \in 1..Len(seqs) /\ j + m <= Len(seqs) /\ j + (m + 1) + 1 = i + 1
    OBVIOUS
  <2>2. Offset(seqs, j) + Len(seqs[j]) <= Offset(seqs, i)
    BY <1>3, <2>1
  <2> HIDE DEF i
  <2>3. /\ Offset(seqs, i + 1) = Offset(seqs, i) + Len(seqs[i])
        /\ Offset(seqs, i) \in Nat /\ Len(seqs[i]) \in Nat
    <3>1. i \in 1..Len(seqs)
      BY <2>1
    <3>2. Offset(seqs, i + 1) = Offset(seqs, i) + Len(seqs[i]) /\ Offset(seqs, i) \in Nat
      BY <3>1, OffsetStep
    <3>3. Len(seqs[i]) \in Nat
      BY <3>1
    <3> QED
      BY <3>2, <3>3
  <2>4. Offset(seqs, j) + Len(seqs[j]) <= Offset(seqs, i + 1)
    <3>1. \A a, b, c, d \in Nat : a + b <= c => a + b <= c + d
      OBVIOUS
    <3> QED
      BY <1>1, <2>2, <2>3, <3>1
  <2>5. Offset(seqs, i + 1) = Offset(seqs, j + (m + 1) + 1)
    <3>1. j + (m + 1) + 1 = i + 1
      BY <2>1
    <3> QED
      BY <3>1, Zenon
  <2> QED
    BY <2>4, <2>5
<1>4. Nat \subseteq N
  <2> HIDE DEF N
  <2> QED
    BY <1>2, <1>3, Induction
<1> QED
  BY <1>4

LEMMA PlacesInOrder ==
    ASSUME NEW T, NEW seqs \in Seq(Seq(T)),
           NEW i \in DOMAIN seqs, NEW j \in DOMAIN seqs, i < j,
           NEW k \in DOMAIN seqs[i], NEW l \in DOMAIN seqs[j]
    PROVE  Place(seqs, i, k) < Place(seqs, j, l)
<1>1. i \in 1..Len(seqs) /\ j \in 1..Len(seqs)
  OBVIOUS
<1> DEFINE m == (j - i) - 1
<1>2. m \in Nat /\ i + m <= Len(seqs) /\ i + m + 1 = j
  BY <1>1
<1> HIDE DEF m
<1>3. Offset(seqs, i) + Len(seqs[i]) <= Offset(seqs, i + m + 1)
  BY <1>1, <1>2, OffsetsGrow
<1>4. Offset(seqs, i) + Len(seqs[i]) <= Offset(seqs, j)
  BY <1>2, <1>3
<1>5. Offset(seqs, i) \in Nat /\ Offset(seqs, j) \in Nat
  BY <1>1, OffsetStep
<1>6. seqs[i] \in Seq(T) /\ seqs[j] \in Seq(T)
  OBVIOUS
<1>7. k \in Nat /\ k <= Len(seqs[i]) /\ Len(seqs[i]) \in Nat /\ l \in Nat /\ 0 < l
  BY <1>6
<1> QED
  BY <1>4, <1>5, <1>7 DEF Place

\* FlattenSeq lists each element of each sequence at a place of its own, and
\* nothing else.
THEOREM FlattenPlaces ==
    ASSUME NEW T, NEW seqs \in Seq(Seq(T))
    PROVE  LET flat == FlattenSeq(seqs)
           IN  /\ flat \in Seq(T)
               /\ \A j \in DOMAIN seqs : \A k \in DOMAIN seqs[j] :
                     /\ Place(seqs, j, k) \in DOMAIN flat
                     /\ flat[Place(seqs, j, k)] = seqs[j][k]
               /\ \A i \in DOMAIN flat : \E j \in DOMAIN seqs : \E k \in DOMAIN seqs[j] :
                     i = Place(seqs, j, k)
               /\ \A i, j \in DOMAIN seqs : \A k \in DOMAIN seqs[i], l \in DOMAIN seqs[j] :
                     Place(seqs, i, k) = Place(seqs, j, l) => i = j /\ k = l
<1> DEFINE n == Len(seqs)
<1>1. n \in Nat /\ n \in 0..n /\ DOMAIN seqs = 1..n /\ First(seqs, n) = seqs
  BY FirstAll
<1> HIDE DEF n
<1>2. FlattenSeq(First(seqs, n)) \in Seq(T)
  BY <1>1, FlattenType DEF n
<1>3. LET flat == FlattenSeq(First(seqs, n))
      IN  /\ \A j \in 1..n : \A k \in DOMAIN seqs[j] :
                /\ Place(seqs, j, k) \in DOMAIN flat
                /\ flat[Place(seqs, j, k)] = seqs[j][k]
          /\ \A i \in DOMAIN flat :
                \E j \in 1..n : \E k \in DOMAIN seqs[j] : i = Place(seqs, j, k)
  BY <1>1, FlattenFirstPlaces DEF n
<1>4. ASSUME NEW i \in DOMAIN seqs, NEW j \in DOMAIN seqs,
             NEW k \in DOMAIN seqs[i], NEW l \in DOMAIN seqs[j],
             Place(seqs, i, k) = Place(seqs, j, l)
      PROVE  i = j /\ k = l
  <2>1. /\ Offset(seqs, i) \in Nat /\ Offset(seqs, j) \in Nat
        /\ i \in Nat /\ j \in Nat
    BY <1>1, OffsetStep DEF n
  <2>2. seqs[i] \in Seq(T) /\ seqs[j] \in Seq(T)
    OBVIOUS
  <2>3. k \in Nat /\ l \in Nat
    BY <2>2
  <2>4. Place(seqs, i, k) \in Nat
    BY <2>1, <2>3 DEF Place
  <2>5. ~(i < j)
    <3>1. i < j => Place(seqs, i, k) < Place(seqs, j, l)
      BY PlacesInOrder
    <3> QED
      BY <1>4, <2>4, <3>1
  <2>6. ~(j < i)
    <3>1. j < i => Place(seqs, j, l) < Place(seqs, i, k)
      BY PlacesInOrder
    <3> QED
      BY <1>4, <2>4, <3>1
  <2>7. i = j
    BY <2>1, <2>5, <2>6
  <2> QED
    BY <1>4, <2>1, <2>3, <2>7 DEF Place
<1> QED
  BY <1>1, <1>2, <1>3, <1>4

LEMMA FlattenToSet ==
    ASSUME NEW T, NEW seqs \in Seq(Seq(T))
    PROVE  ToSet(FlattenSeq(seqs)) = UNION {ToSet(s) : s \in ToSet(seqs)}
<1> DEFINE flat == FlattenSeq(seqs)
           all == UNION {ToSet(s) : s \in ToSet(seqs)}
<1>1. \A x : x \in all <=> \E j \in DOMAIN seqs : \E k \in DOMAIN seqs[j] : x = seqs[j][k]
  BY DEF ToSet
<1>2. \A x : x \in ToSet(flat) <=> \E i \in DOMAIN flat : x = flat[i]
  BY DEF ToSet
<1>3. \A x : x \in all => x \in ToSet(flat)
  BY <1>1, <1>2, FlattenPlaces
<1>4. \A x : x \in ToSet(flat) => x \in all
  BY <1>1, <1>2, FlattenPlaces
<1> QED
  BY <1>3, <1>4

=============================================================================
