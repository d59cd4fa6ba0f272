---------------------------- MODULE NetPlanProofs ----------------------------
(***************************************************************************)
(* The properties of NetPlan, for any topology files and any widths of     *)
(* addresses and MACs.                                                     *)
(*                                                                         *)
(* Up and Down compute the same because the order of names is a strict one *)
(* (NamesAreOrdered), and sorting by such an order forgets the order in    *)
(* which Go ranged over the map (SortedForgetsOrder).  A plan lists its    *)
(* taps as three nested loops do, over the links, the members of a link    *)
(* and the instances of a member: each round has a place of its own in the *)
(* plan (TapPlaces), which is what is counted and what is addressed.       *)
(***************************************************************************)
EXTENDS NetPlan, SequenceLemmas

-----------------------------------------------------------------------------
(* Numbers. *)

LEMMA PowerOfTwo ==
    ASSUME NEW n \in Nat
    PROVE  2^n \in Nat \ {0}
<1>1. IsFiniteSet(1..n) /\ Cardinality(1..n) = n
  BY FS_Interval
<1>2. Cardinality(SUBSET (1..n)) = 2^n /\ IsFiniteSet(SUBSET (1..n))
  BY <1>1, FS_SUBSET
<1>3. SUBSET (1..n) # {}
  OBVIOUS
<1> QED
  BY <1>2, <1>3, FS_CardinalityType, FS_EmptySet

\* Sets of which each element of one is matched by one of the other are as big.
LEMMA Matched ==
    ASSUME NEW S, NEW T, IsFiniteSet(T), NEW f \in [S -> T],
           \A a, b \in S : f[a] = f[b] => a = b,
           \A t \in T : \E a \in S : f[a] = t
    PROVE  IsFiniteSet(S) /\ Cardinality(S) = Cardinality(T)
<1>1. f \in Injection(S, T)
  BY DEF Injection, IsInjective
<1>2. f \in Surjection(S, T)
  BY DEF Surjection
<1> QED
  BY <1>1, <1>2, FS_Injection

LEMMA PowersMultiply ==
    ASSUME NEW m \in Nat, NEW n \in Nat
    PROVE  2^(m + n) = 2^m * 2^n
<1> DEFINE A == 1..m
           B == (m + 1)..(m + n)
           f == [s \in SUBSET (1..(m + n)) |-> <<s \cap A, s \cap B>>]
<1>1. /\ IsFiniteSet(A) /\ Cardinality(A) = m
      /\ IsFiniteSet(B) /\ Cardinality(B) = n
      /\ IsFiniteSet(1..(m + n)) /\ Cardinality(1..(m + n)) = m + n
  <2>1. /\ m + 1 \in Int /\ m + n \in Nat /\ (m + n) - (m + 1) + 1 = n
        /\ m + 1 > m + n => n = 0
    OBVIOUS
  <2>2. IsFiniteSet(A) /\ Cardinality(A) = m
    BY FS_Interval
  <2>3. IsFiniteSet(1..(m + n)) /\ Cardinality(1..(m + n)) = m + n
    BY <2>1, FS_Interval
  <2>4. IsFiniteSet(B) /\ Cardinality(B) = n
    BY <2>1, FS_Interval
  <2> QED
    BY <2>2, <2>3, <2>4
<1>2. 1..(m + n) = A \cup B /\ A \cap B = {}
  OBVIOUS
<1> HIDE DEF A, B
<1> DEFINE both == (SUBSET A) \X (SUBSET B)
<1>3. f \in [SUBSET (1..(m + n)) -> both]
  BY <1>2
<1>4. ASSUME NEW s \in SUBSET (1..(m + n)), NEW t \in SUBSET (1..(m + n)), f[s] = f[t]
      PROVE  s = t
  <2>1. s \cap A = t \cap A /\ s \cap B = t \cap B
    BY <1>4
  <2> QED
    BY <1>2, <2>1
<1>5. ASSUME NEW uv \in both
      PROVE  \E s \in SUBSET (1..(m + n)) : f[s] = uv
  <2>1. PICK u \in SUBSET A, v \in SUBSET B : uv = <<u, v>>
    OBVIOUS
  <2>2. u \cup v \in SUBSET (1..(m + n)) /\ (u \cup v) \cap A = u /\ (u \cup v) \cap B = v
    BY <1>2
  <2> QED
    BY <2>1, <2>2
<1>6. Cardinality(SUBSET (1..(m + n))) = 2^(m + n)
  BY <1>1, FS_SUBSET
<1>7. /\ Cardinality(SUBSET A) = 2^m /\ IsFiniteSet(SUBSET A)
      /\ Cardinality(SUBSET B) = 2^n /\ IsFiniteSet(SUBSET B)
  BY <1>1, FS_SUBSET
<1>8. Cardinality(both) = 2^m * 2^n /\ IsFiniteSet(both)
  <2>1. Cardinality(both) = Cardinality(SUBSET A) * Cardinality(SUBSET B) /\ IsFiniteSet(both)
    BY <1>7, FS_Product, Zenon
  <2> QED
    BY <1>7, <2>1
<1> DEFINE all == SUBSET (1..(m + n))
<1>9. /\ f \in [all -> both]
      /\ \A s, t \in all : f[s] = f[t] => s = t
      /\ \A uv \in both : \E s \in all : f[s] = uv
  BY <1>3, <1>4, <1>5
<1> HIDE DEF f, both, all
<1>10. Cardinality(all) = Cardinality(both)
  BY <1>8, <1>9, Matched
<1> QED
  BY <1>6, <1>8, <1>10 DEF all

LEMMA Division ==
    ASSUME NEW a \in Nat, NEW b \in Nat, 0 < b
    PROVE  /\ a \div b \in Nat /\ a % b \in 0..(b - 1)
           /\ a = (a \div b) * b + (a % b)
OBVIOUS

\* The numbers below b * c come in blocks of b.
LEMMA Blocks ==
    ASSUME NEW b \in Nat, 0 < b, NEW c \in Nat, NEW a \in Nat, a < b * c
    PROVE  a - (a % b) \in Nat /\ a - (a % b) + b <= b * c
<1> DEFINE q == a \div b
           r == a % b
<1>1. q \in Nat /\ r \in 0..(b - 1) /\ a = q * b + r
  BY Division
<1> HIDE DEF q, r
<1>2. q + 1 <= c
  <2> SUFFICES ASSUME q >= c
               PROVE  FALSE
    BY <1>1
  <2>1. q * b >= c * b
    BY <1>1
  <2> QED
    BY <1>1, <2>1
<1>3. (q + 1) * b <= c * b
  BY <1>1, <1>2
<1>4. a - r = q * b /\ q * b \in Nat /\ (q + 1) * b = q * b + b /\ c * b = b * c
  BY <1>1
<1>5. a - r \in Nat /\ a - r + b <= b * c
  BY <1>1, <1>3, <1>4
<1> QED
  BY <1>5 DEF r

LEMMA Residues ==
    ASSUME NEW M \in Nat, 0 < M, NEW j \in 1..M, NEW k \in 1..M, j % M = k % M
    PROVE  j = k
<1>1. M % M = 0
  OBVIOUS
<1>2. \A x \in 1..M : x # M => x % M = x
  OBVIOUS
<1> QED
  BY <1>1, <1>2
-----------------------------------------------------------------------------
(* Sorting names. *)

Less(S) == {ab \in S \X S : Before(ab[1], ab[2])}

LEMMA WordsOf ==
    ASSUME NEW a \in Seq(Nat)
    PROVE  \A k \in DOMAIN a : /\ k \in Nat /\ 0 < k /\ a[k] \in Nat
                               /\ \A j \in Nat : 0 < j /\ j <= k => j \in DOMAIN a
<1>1. DOMAIN a = 1..Len(a) /\ Len(a) \in Nat
  OBVIOUS
<1>2. \A k \in DOMAIN a : a[k] \in Nat
  OBVIOUS
<1> QED
  BY <1>1, <1>2

LEMMA BeforeOrAfter ==
    ASSUME NEW a \in Seq(Nat), NEW b \in Seq(Nat), a # b
    PROVE  Before(a, b) \/ Before(b, a)
<1> DEFINE Same(k) == k \in DOMAIN a /\ k \in DOMAIN b /\ a[k] = b[k]
           D == {k \in DOMAIN a \cup DOMAIN b : ~Same(k)}
<1>1. /\ DOMAIN a = 1..Len(a) /\ Len(a) \in Nat
      /\ DOMAIN b = 1..Len(b) /\ Len(b) \in Nat
  OBVIOUS
<1>2. D # {}
  <2> SUFFICES ASSUME D = {}
               PROVE  a = b
    OBVIOUS
  <2>1. \A k \in DOMAIN a \cup DOMAIN b : Same(k)
    OBVIOUS
  <2>2. DOMAIN a = DOMAIN b /\ \A k \in DOMAIN a : a[k] = b[k]
    BY <2>1
  <2>3. Len(a) = Len(b)
    <3>1. \A m, n \in Nat : 1..m = 1..n => m = n
      <4>1. \A m, n \in Nat : m < n => n \in 1..n /\ n \notin 1..m
        OBVIOUS
      <4>2. \A m, n \in Nat : m < n \/ n < m \/ m = n
        OBVIOUS
      <4> QED
        BY <4>1, <4>2
    <3> QED
      BY <1>1, <2>2, <3>1
  <2>4. \A i \in 1..Len(a) : a[i] = b[i]
    BY <1>1, <2>2
  <2> QED
    BY <2>3, <2>4, SeqEqual
<1>3. PICK k \in D : \A j \in D : k <= j
  <2>1. D \subseteq Nat
    BY <1>1
  <2> HIDE DEF D
  <2> QED
    BY <1>2, <2>1, LeastNatural
<1>4. \A j \in 1..(k - 1) : Same(j)
  <2> SUFFICES ASSUME NEW j \in 1..(k - 1)
               PROVE  Same(j)
    OBVIOUS
  <2>1. k \in DOMAIN a \cup DOMAIN b
    OBVIOUS
  <2>2. k \in Nat /\ j \in Nat /\ 0 < j /\ j < k
    BY <1>1, <2>1
  <2>3. j \in DOMAIN a \cup DOMAIN b
    BY <2>1, <2>2, WordsOf
  <2>4. j \notin D
    BY <1>3, <2>2
  <2> QED
    BY <2>3, <2>4
<1>5. k \in DOMAIN a \cup DOMAIN b /\ ~Same(k)
  OBVIOUS
<1>6. k \in DOMAIN a => a[k] \in Nat
  OBVIOUS
<1>7. k \in DOMAIN b => b[k] \in Nat
  OBVIOUS
<1> HIDE DEF D
<1>8. CASE k \in DOMAIN b /\ (k \in DOMAIN a => a[k] < b[k])
  BY <1>4, <1>8 DEF Before
<1>9. CASE k \in DOMAIN a /\ (k \in DOMAIN b => b[k] < a[k])
  BY <1>4, <1>9 DEF Before
<1> QED
  BY <1>5, <1>6, <1>7, <1>8, <1>9

LEMMA BeforeNotAfter ==
    ASSUME NEW a \in Seq(Nat), NEW b \in Seq(Nat)
    PROVE  ~(Before(a, b) /\ Before(b, a))
<1> SUFFICES ASSUME Before(a, b), Before(b, a)
             PROVE  FALSE
  OBVIOUS
<1>1. PICK k \in DOMAIN b : /\ \A j \in 1..(k - 1) : j \in DOMAIN a /\ a[j] = b[j]
                            /\ k \in DOMAIN a => a[k] < b[k]
  BY DEF Before
<1>2. PICK l \in DOMAIN a : /\ \A j \in 1..(l - 1) : j \in DOMAIN b /\ b[j] = a[j]
                            /\ l \in DOMAIN b => b[l] < a[l]
  BY DEF Before
<1>3. /\ k \in Nat /\ 0 < k /\ l \in Nat /\ 0 < l
      /\ \A i \in DOMAIN a : a[i] \in Nat
      /\ \A i \in DOMAIN b : b[i] \in Nat
  BY WordsOf
<1>4. ~(k < l)
  <2> SUFFICES ASSUME k < l
               PROVE  FALSE
    OBVIOUS
  <2>1. k \in 1..(l - 1) /\ k \in 1..l
    BY <1>3
  <2>2. b[k] = a[k] /\ k \in DOMAIN a
    BY <1>2, <2>1
  <2> QED
    BY <1>1, <1>3, <2>2
<1>5. ~(l < k)
  <2> SUFFICES ASSUME l < k
               PROVE  FALSE
    OBVIOUS
  <2>1. l \in 1..(k - 1) /\ l \in 1..k
    BY <1>3
  <2>2. b[l] = a[l] /\ l \in DOMAIN b
    BY <1>1, <2>1
  <2> QED
    BY <1>2, <1>3, <2>2
<1>6. k = l
  BY <1>3, <1>4, <1>5
<1> QED
  BY <1>1, <1>2, <1>3, <1>6

LEMMA BeforeIsTransitive ==
    ASSUME NEW a \in Seq(Nat), NEW b \in Seq(Nat), NEW c \in Seq(Nat),
           Before(a, b), Before(b, c)
    PROVE  Before(a, c)
<1>1. PICK k \in DOMAIN b : /\ \A j \in 1..(k - 1) : j \in DOMAIN a /\ a[j] = b[j]
                            /\ k \in DOMAIN a => a[k] < b[k]
  BY DEF Before
<1>2. PICK l \in DOMAIN c : /\ \A j \in 1..(l - 1) : j \in DOMAIN b /\ b[j] = c[j]
                            /\ l \in DOMAIN b => b[l] < c[l]
  BY DEF Before
<1>3. /\ k \in Nat /\ 0 < k /\ l \in Nat /\ 0 < l
      /\ \A i \in DOMAIN a : a[i] \in Nat
      /\ \A i \in DOMAIN b : b[i] \in Nat
      /\ \A i \in DOMAIN c : c[i] \in Nat
  BY WordsOf
<1>4. CASE k < l
  <2>1. k \in 1..(l - 1) /\ k \in DOMAIN c
    <3>1. k \in 1..(l - 1) /\ k <= l
      BY <1>3, <1>4
    <3> QED
      BY <1>3, <3>1, WordsOf
  <2>2. \A j \in 1..(k - 1) : j \in 1..(l - 1)
    BY <1>3, <1>4
  <2>3. \A j \in 1..(k - 1) : j \in DOMAIN a /\ a[j] = c[j]
    BY <1>1, <1>2, <2>2
  <2>4. k \in DOMAIN a => a[k] < c[k]
    BY <1>1, <1>2, <2>1
  <2> QED
    BY <2>1, <2>3, <2>4 DEF Before
<1>5. CASE l < k
  <2>1. l \in 1..(k - 1) /\ l \in DOMAIN b
    <3>1. l \in 1..(k - 1) /\ l <= k
      BY <1>3, <1>5
    <3> QED
      BY <1>3, <3>1, WordsOf
  <2>2. \A j \in 1..(l - 1) : j \in 1..(k - 1)
    BY <1>3, <1>5
  <2>3. \A j \in 1..(l - 1) : j \in DOMAIN a /\ a[j] = c[j]
    BY <1>1, <1>2, <2>2
  <2>4. a[l] < c[l]
    BY <1>1, <1>2, <2>1
  <2> QED
    BY <2>3, <2>4 DEF Before
<1>6. CASE k = l
  <2>1. \A j \in 1..(l - 1) : j \in DOMAIN a /\ a[j] = c[j]
    BY <1>1, <1>2, <1>6
  <2>2. l \in DOMAIN a => a[l] < c[l]
    <3> SUFFICES ASSUME l \in DOMAIN a
                 PROVE  a[l] < c[l]
      OBVIOUS
    <3>1. a[l] < b[l] /\ b[l] < c[l]
      BY <1>1, <1>2, <1>6
    <3>2. a[l] \in Nat /\ b[l] \in Nat /\ c[l] \in Nat
      BY <1>3, <1>6
    <3>3. \A x, y, z \in Nat : x < y /\ y < z => x < z
      OBVIOUS
    <3> QED
      BY <3>1, <3>2, <3>3
  <2> QED
    BY <2>1, <2>2 DEF Before
<1> QED
  BY <1>3, <1>4, <1>5, <1>6

LEMMA NamesAreOrdered ==
    ASSUME NEW S, S \subseteq Seq(Nat)
    PROVE  StrictOrder(Less(S), S)
<1>1. \A a, b \in S : <<a, b>> \in Less(S) <=> Before(a, b)
  BY DEF Less
<1>2. \A a \in S : a \in Seq(Nat)
  OBVIOUS
<1>3. \A a, b \in S : a # b => Before(a, b) \/ Before(b, a)
  BY <1>2, BeforeOrAfter
<1>4. \A a, b \in S : ~(Before(a, b) /\ Before(b, a))
  BY <1>2, BeforeNotAfter
<1>5. \A a, b, c \in S : Before(a, b) /\ Before(b, c) => Before(a, c)
  BY <1>2, BeforeIsTransitive
<1> QED
  BY <1>1, <1>3, <1>4, <1>5, Zenon DEF StrictOrder

\* An order in which Go ranges over a map lists its keys, each once.
LEMMA OrderLists ==
    ASSUME NEW S, IsFiniteSet(S), NEW order \in SetToSeqs(S)
    PROVE  order \in Seq(S) /\ IsInjective(order) /\ ToSet(order) = S
<1> DEFINE n == Cardinality(S)
<1>1. n \in Nat
  BY FS_CardinalityType
<1>2. order \in [1..n -> S] /\ \A i, j \in 1..n : i # j => order[i] # order[j]
  BY DEF SetToSeqs
<1> HIDE DEF n
<1>3. order \in Seq(S)
  BY <1>1, <1>2, IsASequence
<1>4. IsInjective(order)
  BY <1>2 DEF IsInjective
<1>5. order \in Injection(1..n, S)
  BY <1>2, <1>4 DEF Injection
<1>6. IsFiniteSet(1..n) /\ Cardinality(1..n) = n
  BY <1>1, FS_Interval
<1>7. order \in Surjection(1..n, S)
  BY <1>5, <1>6, FS_Injection DEF n
<1>8. \A x \in S : \E i \in 1..n : order[i] = x
  BY <1>7 DEF Surjection
<1>9. ToSet(order) = S
  BY <1>2, <1>8 DEF ToSet
<1> QED
  BY <1>3, <1>4, <1>9

LEMMA NamesForgetOrder ==
    ASSUME NEW S, IsFiniteSet(S), S \subseteq Seq(Nat),
           NEW p \in SetToSeqs(S), NEW q \in SetToSeqs(S)
    PROVE  SortedNames(p) = SortedNames(q)
<1>1. /\ p \in Seq(S) /\ IsInjective(p) /\ ToSet(p) = S
      /\ q \in Seq(S) /\ IsInjective(q) /\ ToSet(q) = S
  BY OrderLists
<1>2. StrictOrder(Less(S), S)
  BY NamesAreOrdered
<1>3. SortedNames(p) = Sorted(p, Less(S)) /\ SortedNames(q) = Sorted(q, Less(S))
  BY <1>1 DEF SortedNames, Less
<1> QED
  BY <1>1, <1>2, <1>3, SortedForgetsOrder

\* Every node is among the sorted names.
LEMMA NamesListAll ==
    ASSUME NEW S, IsFiniteSet(S), S \subseteq Seq(Nat), NEW order \in SetToSeqs(S)
    PROVE  SortedNames(order) \in Seq(S) /\ ToSet(SortedNames(order)) = S
<1>1. order \in Seq(S) /\ IsInjective(order) /\ ToSet(order) = S
  BY OrderLists
<1>2. StrictOrder(Less(S), S)
  BY NamesAreOrdered
<1>3. SortedNames(order) = Sorted(order, Less(S))
  BY <1>1 DEF SortedNames, Less
<1>4. Sorted(order, Less(S)) \in [1..Len(order) -> S] /\ Ascending(Sorted(order, Less(S)), Less(S), S)
  BY <1>1, <1>2, SortedIsAscending
<1>5. Len(order) \in Nat
  BY <1>1
<1> DEFINE r == Sorted(order, Less(S))
<1> HIDE DEF r
<1>6. r \in [1..Len(order) -> S] /\ ToSet(r) = S
  BY <1>4 DEF r, Ascending
<1>7. r \in Seq(S)
  BY <1>5, <1>6, IsASequence
<1> QED
  BY <1>3, <1>6, <1>7 DEF r

-----------------------------------------------------------------------------
(* What Expand makes of a file. *)

LEMMA OfItsElements ==
    ASSUME NEW n \in Nat, NEW s, s = [k \in 1..n |-> s[k]]
    PROVE  s \in Seq(ToSet(s)) /\ Len(s) = n
<1>1. DOMAIN s = 1..n
  OBVIOUS
<1>2. \A k \in 1..n : s[k] \in ToSet(s)
  BY <1>1 DEF ToSet
<1> DEFINE T == ToSet(s)
<1>3. s \in [1..n -> T]
  BY <1>2
<1> HIDE DEF T
<1>4. s \in Seq(T) /\ Len(s) = n
  BY <1>3, IsASequence
<1> QED
  BY <1>4 DEF T

Copy == [name : Seq(Nat), base : Seq(Nat)]

LEMMA CopiesOf ==
    ASSUME NEW f \in Files, NEW n \in DOMAIN f.nodes
    PROVE  /\ Copies(f, n) \in Seq(Copy)
           /\ 1 \in DOMAIN Copies(f, n) /\ Copies(f, n)[1].base = n
<1> DEFINE count == f.nodes[n].count
           copies == Copies(f, n)
<1>1. count \in Int /\ n \in Seq(Nat)
  BY FilesAssumption
<1>2. copies = IF count < 1 THEN <<[name |-> n, base |-> n]>>
               ELSE [i \in 1..count |-> [name |-> Append(n, i - 1), base |-> n]]
  BY DEF Copies
<1> HIDE DEF count, copies
<1>3. CASE count < 1
  <2> DEFINE c == [name |-> n, base |-> n]
  <2>1. copies = <<c>>
    BY <1>2, <1>3
  <2>2. c \in Copy /\ c.base = n
    BY <1>1 DEF Copy
  <2> HIDE DEF c
  <2> QED
    BY <2>1, <2>2 DEF copies
<1>4. CASE ~(count < 1)
  <2>1. copies = [i \in 1..count |-> [name |-> Append(n, i - 1), base |-> n]]
    BY <1>2, <1>4
  <2>2. count \in Nat /\ 1 \in 1..count
    BY <1>1, <1>4
  <2>3. \A i \in 1..count : Append(n, i - 1) \in Seq(Nat)
    BY <1>1, <2>2
  <2>4. \A i \in 1..count : [name |-> Append(n, i - 1), base |-> n] \in Copy
    BY <1>1, <2>3 DEF Copy
  <2>5. copies \in [1..count -> Copy]
    BY <2>1, <2>4
  <2>6. copies \in Seq(Copy)
    BY <2>2, <2>5, IsASequence
  <2> QED
    BY <2>1, <2>2, <2>6 DEF copies
<1> QED
  BY <1>3, <1>4

\* Expand makes a sequence of instances, some of every node.
LEMMA Expanded ==
    ASSUME NEW f \in Files, NEW order \in SetToSeqs(DOMAIN f.nodes),
           NEW insts, insts = Expand(f, order)
    PROVE  /\ insts \in Seq(ToSet(insts))
           /\ \A n \in DOMAIN f.nodes : \E inst \in ToSet(insts) : inst.base = n
<1> DEFINE names == SortedNames(order)
           each == [k \in DOMAIN names |-> Copies(f, names[k])]
           all == FlattenSeq(each)
<1>1. IsFiniteSet(DOMAIN f.nodes) /\ DOMAIN f.nodes \subseteq Seq(Nat)
  BY FilesAssumption
<1>2. names \in Seq(DOMAIN f.nodes) /\ ToSet(names) = DOMAIN f.nodes
  BY <1>1, NamesListAll
<1>3. insts = [k \in DOMAIN all |->
                  [name |-> all[k].name, base |-> all[k].base, mac |-> Mac(k)]]
  BY DEF Expand
<1> HIDE DEF names
<1>4. Len(names) \in Nat /\ DOMAIN names = 1..Len(names)
      /\ \A k \in DOMAIN names : names[k] \in DOMAIN f.nodes
  BY <1>2
<1>5. each \in Seq(Seq(Copy)) /\ DOMAIN each = DOMAIN names
  <2>1. \A k \in DOMAIN names : Copies(f, names[k]) \in Seq(Copy)
    BY <1>4, CopiesOf
  <2>2. each \in [1..Len(names) -> Seq(Copy)]
    BY <1>4, <2>1
  <2> HIDE DEF each
  <2> QED
    BY <1>4, <2>2, IsASequence
<1>6. \A k \in DOMAIN names : each[k] = Copies(f, names[k])
  OBVIOUS
<1> HIDE DEF each
<1>7. /\ all \in Seq(Copy)
      /\ \A k \in DOMAIN each : \A i \in DOMAIN each[k] :
            Place(each, k, i) \in DOMAIN all /\ all[Place(each, k, i)] = each[k][i]
  BY <1>5, FlattenPlaces
<1> HIDE DEF all
<1>8. Len(all) \in Nat /\ DOMAIN all = 1..Len(all)
  BY <1>7
<1>9. insts \in Seq(ToSet(insts))
  BY <1>3, <1>8, OfItsElements
<1>10. ASSUME NEW n \in DOMAIN f.nodes
       PROVE  \E inst \in ToSet(insts) : inst.base = n
  <2>1. PICK k \in DOMAIN names : names[k] = n
    BY <1>2 DEF ToSet
  <2>2. 1 \in DOMAIN each[k] /\ each[k][1].base = n
    BY <1>6, <2>1, CopiesOf
  <2>3. Place(each, k, 1) \in DOMAIN all /\ all[Place(each, k, 1)].base = n
    BY <1>5, <1>7, <2>2
  <2>4. Place(each, k, 1) \in DOMAIN insts /\ insts[Place(each, k, 1)].base = n
    BY <1>3, <2>3
  <2> QED
    BY <2>4 DEF ToSet
<1> QED
  BY <1>9, <1>10

-----------------------------------------------------------------------------
(* Where a plan has its taps. *)

Picks(insts, n) ==
    [k \in DOMAIN insts |-> IF insts[k].base = n THEN <<insts[k]>> ELSE <<>>]

LEMMA InstancePlaces ==
    ASSUME NEW T, NEW insts \in Seq(T), NEW n
    PROVE  LET own == InstancesOf(insts, n)
               At(k) == Place(Picks(insts, n), k, 1)
           IN  /\ own \in Seq(T)
               /\ \A k \in DOMAIN insts : insts[k].base = n =>
                     At(k) \in DOMAIN own /\ own[At(k)] = insts[k]
               /\ \A i \in DOMAIN own : \E k \in DOMAIN insts : insts[k].base = n /\ i = At(k)
               /\ \A j, k \in DOMAIN insts : insts[j].base = n /\ insts[k].base = n =>
                     (At(j) = At(k) => j = k)
<1> DEFINE picks == Picks(insts, n)
           own == FlattenSeq(picks)
<1>1. Len(insts) \in Nat /\ DOMAIN insts = 1..Len(insts)
      /\ \A k \in DOMAIN insts : insts[k] \in T
  OBVIOUS
<1>2. /\ DOMAIN picks = DOMAIN insts
      /\ \A k \in DOMAIN insts : insts[k].base = n => picks[k] = <<insts[k]>>
      /\ \A k \in DOMAIN insts : insts[k].base # n => picks[k] = <<>>
  BY DEF Picks
<1>3. InstancesOf(insts, n) = own
  BY DEF InstancesOf, Picks
<1>4. \A k \in DOMAIN insts : picks[k] \in Seq(T)
  <2> SUFFICES ASSUME NEW k \in DOMAIN insts
               PROVE  picks[k] \in Seq(T)
    OBVIOUS
  <2>1. CASE insts[k].base = n
    <3>1. picks[k] = <<insts[k]>> /\ insts[k] \in T
      BY <1>1, <1>2, <2>1
    <3> HIDE DEF picks
    <3> QED
      BY <3>1
  <2>2. CASE insts[k].base # n
    <3>1. picks[k] = <<>>
      BY <1>2, <2>2
    <3> HIDE DEF picks
    <3> QED
      BY <3>1
  <2> QED
    BY <2>1, <2>2
<1>5. picks = [k \in 1..Len(insts) |-> picks[k]]
  BY <1>1 DEF Picks
<1> HIDE DEF picks
<1>6. picks \in [1..Len(insts) -> Seq(T)]
  BY <1>1, <1>4, <1>5
<1>7. picks \in Seq(Seq(T))
  BY <1>1, <1>6, IsASequence
<1>8. \A k \in DOMAIN insts : \A i : i \in DOMAIN picks[k] <=> insts[k].base = n /\ i = 1
  <2> SUFFICES ASSUME NEW k \in DOMAIN insts
               PROVE  \A i : i \in DOMAIN picks[k] <=> insts[k].base = n /\ i = 1
    OBVIOUS
  <2>1. DOMAIN <<insts[k]>> = {1} /\ DOMAIN <<>> = {}
    OBVIOUS
  <2> QED
    BY <1>2, <2>1
<1>9. /\ own \in Seq(T)
      /\ \A j \in DOMAIN picks : \A k \in DOMAIN picks[j] :
            Place(picks, j, k) \in DOMAIN own /\ own[Place(picks, j, k)] = picks[j][k]
      /\ \A i \in DOMAIN own : \E j \in DOMAIN picks : \E k \in DOMAIN picks[j] :
            i = Place(picks, j, k)
      /\ \A i, j \in DOMAIN picks : \A k \in DOMAIN picks[i], l \in DOMAIN picks[j] :
            Place(picks, i, k) = Place(picks, j, l) => i = j /\ k = l
  BY <1>7, FlattenPlaces
<1> HIDE DEF own
<1>10. \A k \in DOMAIN insts : insts[k].base = n =>
          Place(picks, k, 1) \in DOMAIN own /\ own[Place(picks, k, 1)] = insts[k]
  <2> SUFFICES ASSUME NEW k \in DOMAIN insts, insts[k].base = n
               PROVE  Place(picks, k, 1) \in DOMAIN own /\ own[Place(picks, k, 1)] = insts[k]
    OBVIOUS
  <2>1. k \in DOMAIN picks /\ 1 \in DOMAIN picks[k] /\ picks[k][1] = insts[k]
    BY <1>2, <1>8
  <2> QED
    BY <1>9, <2>1
<1>11. \A i \in DOMAIN own : \E k \in DOMAIN insts :
          insts[k].base = n /\ i = Place(picks, k, 1)
  BY <1>2, <1>8, <1>9
<1>12. \A j, k \in DOMAIN insts : insts[j].base = n /\ insts[k].base = n =>
          (Place(picks, j, 1) = Place(picks, k, 1) => j = k)
  BY <1>2, <1>8, <1>9
<1> QED
  BY <1>3, <1>9, <1>10, <1>11, <1>12, Zenon DEF picks

\* The rounds of Members: the k-th instance is one of the m-th member.
InMembers(insts, l, m, k) ==
    Place([i \in DOMAIN l.members |-> InstancesOf(insts, l.members[i])], m,
          Place(Picks(insts, l.members[m]), k, 1))

Of(insts, l, m, k) == insts[k].base = l.members[m]

MembersPlaced(insts, l) ==
    /\ \A m \in DOMAIN l.members, k \in DOMAIN insts : Of(insts, l, m, k) =>
          /\ InMembers(insts, l, m, k) \in DOMAIN Members(insts, l)
          /\ Members(insts, l)[InMembers(insts, l, m, k)] = insts[k]
    /\ \A i \in DOMAIN Members(insts, l) :
          \E m \in DOMAIN l.members, k \in DOMAIN insts :
             Of(insts, l, m, k) /\ i = InMembers(insts, l, m, k)
    /\ \A m, n \in DOMAIN l.members : \A j, k \in DOMAIN insts :
          /\ Of(insts, l, m, j) /\ Of(insts, l, n, k)
          /\ InMembers(insts, l, m, j) = InMembers(insts, l, n, k)
          => m = n /\ j = k

LEMMA MemberPlaces ==
    ASSUME NEW T, NEW insts \in Seq(T), NEW l, NEW N, l.members \in Seq(N)
    PROVE  Members(insts, l) \in Seq(T) /\ MembersPlaced(insts, l)
<1> DEFINE D == DOMAIN l.members
           each == [m \in D |-> InstancesOf(insts, l.members[m])]
           all == FlattenSeq(each)
           Own(m, k) == Place(Picks(insts, l.members[m]), k, 1)
           Is(m, k) == Of(insts, l, m, k)
           At(m, k) == Place(each, m, Own(m, k))
<1>1. Len(l.members) \in Nat /\ D = 1..Len(l.members)
  OBVIOUS
<1>2. DOMAIN each = D /\ \A m \in D : each[m] = InstancesOf(insts, l.members[m])
  OBVIOUS
<1>3. each = [m \in 1..Len(l.members) |-> each[m]]
  BY <1>1
<1>4. /\ Members(insts, l) = all
      /\ \A m, k : InMembers(insts, l, m, k) = At(m, k)
  BY DEF Members, InMembers
<1> HIDE DEF each, D
<1>5. \A m \in D :
         /\ each[m] \in Seq(T)
         /\ \A k \in DOMAIN insts : Is(m, k) =>
               Own(m, k) \in DOMAIN each[m] /\ each[m][Own(m, k)] = insts[k]
         /\ \A i \in DOMAIN each[m] : \E k \in DOMAIN insts : Is(m, k) /\ i = Own(m, k)
         /\ \A j, k \in DOMAIN insts : Is(m, j) /\ Is(m, k) =>
               (Own(m, j) = Own(m, k) => j = k)
  <2> SUFFICES ASSUME NEW m \in D
               PROVE  /\ each[m] \in Seq(T)
                      /\ \A k \in DOMAIN insts : Is(m, k) =>
                            Own(m, k) \in DOMAIN each[m] /\ each[m][Own(m, k)] = insts[k]
                      /\ \A i \in DOMAIN each[m] :
                            \E k \in DOMAIN insts : Is(m, k) /\ i = Own(m, k)
                      /\ \A j, k \in DOMAIN insts : Is(m, j) /\ Is(m, k) =>
                            (Own(m, j) = Own(m, k) => j = k)
    OBVIOUS
  <2> DEFINE n == l.members[m]
             own == InstancesOf(insts, n)
             P(k) == Place(Picks(insts, n), k, 1)
  <2>1. /\ own \in Seq(T)
        /\ \A k \in DOMAIN insts : insts[k].base = n =>
              P(k) \in DOMAIN own /\ own[P(k)] = insts[k]
        /\ \A i \in DOMAIN own : \E k \in DOMAIN insts : insts[k].base = n /\ i = P(k)
        /\ \A j, k \in DOMAIN insts : insts[j].base = n /\ insts[k].base = n =>
              (P(j) = P(k) => j = k)
    <3> HIDE DEF n
    <3> QED
      BY InstancePlaces, Zenon
  <2>2. each[m] = own
    BY <1>2
  <2> QED
    BY <2>1, <2>2, Zenon DEF Of
<1>6. each \in Seq(Seq(T))
  <2>1. each \in [1..Len(l.members) -> Seq(T)]
    BY <1>1, <1>3, <1>5
  <2> QED
    BY <1>1, <2>1, IsASequence
<1>7. /\ all \in Seq(T)
      /\ \A j \in DOMAIN each : \A k \in DOMAIN each[j] :
            Place(each, j, k) \in DOMAIN all /\ all[Place(each, j, k)] = each[j][k]
      /\ \A i \in DOMAIN all : \E j \in DOMAIN each : \E k \in DOMAIN each[j] :
            i = Place(each, j, k)
      /\ \A i, j \in DOMAIN each : \A k \in DOMAIN each[i], n \in DOMAIN each[j] :
            Place(each, i, k) = Place(each, j, n) => i = j /\ k = n
  BY <1>6, FlattenPlaces
<1> HIDE DEF all, Own, Is
<1>8. ASSUME NEW m \in D, NEW k \in DOMAIN insts, Is(m, k)
      PROVE  At(m, k) \in DOMAIN all /\ all[At(m, k)] = insts[k]
  <2>1. Own(m, k) \in DOMAIN each[m] /\ each[m][Own(m, k)] = insts[k]
    BY <1>5, <1>8
  <2> QED
    BY <1>2, <1>7, <2>1
<1>9. ASSUME NEW i \in DOMAIN all
      PROVE  \E m \in D, k \in DOMAIN insts : Is(m, k) /\ i = At(m, k)
  <2>1. PICK m \in D : \E j \in DOMAIN each[m] : i = Place(each, m, j)
    BY <1>2, <1>7
  <2>2. PICK j \in DOMAIN each[m] : i = Place(each, m, j)
    BY <2>1
  <2>3. PICK k \in DOMAIN insts : Is(m, k) /\ j = Own(m, k)
    BY <1>5
  <2> QED
    BY <2>2, <2>3
<1>10. ASSUME NEW m \in D, NEW n \in D, NEW j \in DOMAIN insts, NEW k \in DOMAIN insts,
              Is(m, j), Is(n, k), At(m, j) = At(n, k)
       PROVE  m = n /\ j = k
  <2>1. Own(m, j) \in DOMAIN each[m] /\ Own(n, k) \in DOMAIN each[n]
    BY <1>5, <1>10
  <2>2. m = n /\ Own(m, j) = Own(n, k)
    BY <1>2, <1>7, <1>10, <2>1
  <2> QED
    BY <1>5, <1>10, <2>2
<1> HIDE DEF At
<1>11. /\ all \in Seq(T)
       /\ \A m \in D, k \in DOMAIN insts : Is(m, k) =>
             At(m, k) \in DOMAIN all /\ all[At(m, k)] = insts[k]
       /\ \A i \in DOMAIN all : \E m \in D, k \in DOMAIN insts : Is(m, k) /\ i = At(m, k)
       /\ \A m, n \in D : \A j, k \in DOMAIN insts :
             Is(m, j) /\ Is(n, k) /\ At(m, j) = At(n, k) => m = n /\ j = k
  BY <1>7, <1>8, <1>9, <1>10
<1>12. Members(insts, l) \in Seq(T)
  BY <1>4, <1>11
<1>13. \A m \in D, k \in DOMAIN insts : Is(m, k) =>
          /\ InMembers(insts, l, m, k) \in DOMAIN Members(insts, l)
          /\ Members(insts, l)[InMembers(insts, l, m, k)] = insts[k]
  BY <1>4, <1>11
<1>14. \A i \in DOMAIN Members(insts, l) : \E m \in D, k \in DOMAIN insts :
          Is(m, k) /\ i = InMembers(insts, l, m, k)
  BY <1>4, <1>11
<1>15. \A m, n \in D : \A j, k \in DOMAIN insts :
          Is(m, j) /\ Is(n, k) /\ InMembers(insts, l, m, j) = InMembers(insts, l, n, k) =>
             m = n /\ j = k
  BY <1>4, <1>11
<1> QED
  BY <1>12, <1>13, <1>14, <1>15 DEF D, Is, MembersPlaced

OnLinks(f, insts) == [j \in DOMAIN f.links |-> TapsOnLink(insts, f.links[j])]

\* The tap of the k-th instance as one of the m-th member of the j-th link.
TapAt(f, insts, j, m, k) ==
    Place(OnLinks(f, insts), j, InMembers(insts, f.links[j], m, k))

LEMMA LinksAre ==
    ASSUME NEW f \in Files
    PROVE  /\ Len(f.links) \in Nat /\ DOMAIN f.links = 1..Len(f.links)
           /\ \A j \in DOMAIN f.links :
                 /\ f.links[j] \in ToSet(f.links) /\ f.links[j].members \in Seq(Seq(Nat))
                 /\ f.links[j].subnet \in Subnet \cup {L2Only, Malformed}
<1>1. f.links \in Seq(ToSet(f.links))
  BY FilesAssumption
<1>2. Len(f.links) \in Nat /\ DOMAIN f.links = 1..Len(f.links)
  BY <1>1
<1>3. \A j \in DOMAIN f.links : f.links[j] \in ToSet(f.links)
  BY DEF ToSet
<1> QED
  BY <1>2, <1>3, FilesAssumption

OnLinksAre(f, insts, each) ==
    /\ \E A : each \in Seq(Seq(A))
    /\ DOMAIN each = DOMAIN f.links
    /\ \A j \in DOMAIN f.links :
          /\ DOMAIN each[j] = DOMAIN Members(insts, f.links[j])
          /\ Len(each[j]) = Len(Members(insts, f.links[j]))
          /\ \A i \in DOMAIN each[j] :
                each[j][i] = [bridge |-> BridgeName(f.links[j]),
                              node |-> Members(insts, f.links[j])[i].name,
                              ip |-> IF f.links[j].subnet = L2Only THEN L2Only
                                     ELSE Address(f.links[j].subnet, i)]

LEMMA TapsOnLinks ==
    ASSUME NEW f \in Files, NEW T, NEW insts \in Seq(T)
    PROVE  OnLinksAre(f, insts, OnLinks(f, insts))
<1> DEFINE D == DOMAIN f.links
           each == OnLinks(f, insts)
           mem(j) == Members(insts, f.links[j])
           tap(j, i) == [bridge |-> BridgeName(f.links[j]), node |-> mem(j)[i].name,
                         ip |-> IF f.links[j].subnet = L2Only THEN L2Only
                                ELSE Address(f.links[j].subnet, i)]
           A == UNION {{tap(j, i) : i \in DOMAIN mem(j)} : j \in D}
<1>1. /\ Len(f.links) \in Nat /\ D = 1..Len(f.links)
      /\ \A j \in D : f.links[j].members \in Seq(Seq(Nat))
  BY LinksAre
<1>2. \A j \in D : mem(j) \in Seq(T)
  <2> SUFFICES ASSUME NEW j \in D
               PROVE  mem(j) \in Seq(T)
    OBVIOUS
  <2> DEFINE l == f.links[j]
  <2>1. l.members \in Seq(Seq(Nat))
    BY <1>1
  <2> HIDE DEF l
  <2>2. Members(insts, l) \in Seq(T)
    BY <2>1, MemberPlaces
  <2> QED
    BY <2>2 DEF l
<1>3. /\ DOMAIN each = D
      /\ \A j \in D : each[j] = [i \in DOMAIN mem(j) |-> tap(j, i)]
  BY DEF OnLinks, TapsOnLink
<1>4. each = [j \in D |-> each[j]]
  BY DEF OnLinks
<1> HIDE DEF D, each, mem, tap, A
<1>5. \A j \in D : Len(mem(j)) \in Nat /\ DOMAIN mem(j) = 1..Len(mem(j))
  BY <1>2
<1>6. \A j \in D : /\ DOMAIN each[j] = DOMAIN mem(j)
                   /\ \A i \in DOMAIN each[j] : each[j][i] = tap(j, i)
  BY <1>3
<1>7. ASSUME NEW j \in D
      PROVE  each[j] \in Seq(A) /\ Len(each[j]) = Len(mem(j))
  <2>1. \A i \in DOMAIN mem(j) : tap(j, i) \in A
    BY DEF A
  <2>2. each[j] \in [1..Len(mem(j)) -> A]
    BY <1>3, <1>5, <2>1
  <2> QED
    BY <1>5, <2>2, IsASequence
<1>8. each \in Seq(Seq(A))
  <2>1. each \in [1..Len(f.links) -> Seq(A)]
    BY <1>1, <1>3, <1>4, <1>7
  <2> QED
    BY <1>1, <2>1, IsASequence
<1>9. \E B : each \in Seq(Seq(B))
  BY <1>8
<1>10. \A j \in D :
          /\ DOMAIN each[j] = DOMAIN mem(j) /\ Len(each[j]) = Len(mem(j))
          /\ \A i \in DOMAIN each[j] : each[j][i] = tap(j, i)
  BY <1>6, <1>7
<1> QED
  BY <1>3, <1>9, <1>10, Zenon DEF OnLinksAre, D, each, mem, tap

\* Every round of the loops over links, members and instances has a tap of its
\* own, and there are no others.
TapsPlaced(f, insts, raw) ==
    /\ \A j \in DOMAIN f.links :
          \A m \in DOMAIN f.links[j].members, k \in DOMAIN insts : Of(insts, f.links[j], m, k) =>
             /\ TapAt(f, insts, j, m, k) \in DOMAIN raw
             /\ raw[TapAt(f, insts, j, m, k)].bridge = BridgeName(f.links[j])
             /\ raw[TapAt(f, insts, j, m, k)].node = insts[k].name
    /\ \A p \in DOMAIN raw : \E j \in DOMAIN f.links :
          \E m \in DOMAIN f.links[j].members, k \in DOMAIN insts :
             Of(insts, f.links[j], m, k) /\ p = TapAt(f, insts, j, m, k)
    /\ \A i, j \in DOMAIN f.links :
          \A m \in DOMAIN f.links[i].members, n \in DOMAIN f.links[j].members :
             \A k, l \in DOMAIN insts :
                /\ Of(insts, f.links[i], m, k) /\ Of(insts, f.links[j], n, l)
                /\ TapAt(f, insts, i, m, k) = TapAt(f, insts, j, n, l)
                => i = j /\ m = n /\ k = l

LEMMA TapPlaces ==
    ASSUME NEW f \in Files, NEW T, NEW insts \in Seq(T),
           NEW raw, raw = FlattenSeq(OnLinks(f, insts))
    PROVE  Len(raw) \in Nat /\ DOMAIN raw = 1..Len(raw) /\ TapsPlaced(f, insts, raw)
<1> DEFINE L == DOMAIN f.links
           each == OnLinks(f, insts)
           In(j, m, k) == InMembers(insts, f.links[j], m, k)
<1>1. \A j \in L : MembersPlaced(insts, f.links[j])
  <2> SUFFICES ASSUME NEW j \in L
               PROVE  MembersPlaced(insts, f.links[j])
    OBVIOUS
  <2> DEFINE l == f.links[j]
  <2>1. l.members \in Seq(Seq(Nat))
    BY LinksAre
  <2> HIDE DEF l
  <2>2. MembersPlaced(insts, l)
    BY <2>1, MemberPlaces
  <2> QED
    BY <2>2 DEF l
<1>2. /\ \E A : each \in Seq(Seq(A))
      /\ DOMAIN each = L
      /\ \A j \in L :
            /\ DOMAIN each[j] = DOMAIN Members(insts, f.links[j])
            /\ \A i \in DOMAIN each[j] :
                  /\ each[j][i].bridge = BridgeName(f.links[j])
                  /\ each[j][i].node = Members(insts, f.links[j])[i].name
  <2>1. OnLinksAre(f, insts, each)
    BY TapsOnLinks
  <2>2. L = DOMAIN f.links
    BY DEF L
  <2> HIDE DEF each, L
  <2>3. (\E A : each \in Seq(Seq(A))) /\ DOMAIN each = L
    BY <2>1, <2>2 DEF OnLinksAre
  <2>4. ASSUME NEW j \in L
        PROVE  /\ DOMAIN each[j] = DOMAIN Members(insts, f.links[j])
               /\ \A i \in DOMAIN each[j] :
                     /\ each[j][i].bridge = BridgeName(f.links[j])
                     /\ each[j][i].node = Members(insts, f.links[j])[i].name
    <3>1. DOMAIN each[j] = DOMAIN Members(insts, f.links[j])
      BY <2>1, <2>2 DEF OnLinksAre
    <3>2. ASSUME NEW i \in DOMAIN each[j]
          PROVE  each[j][i] = [bridge |-> BridgeName(f.links[j]),
                               node |-> Members(insts, f.links[j])[i].name,
                               ip |-> IF f.links[j].subnet = L2Only THEN L2Only
                                      ELSE Address(f.links[j].subnet, i)]
      BY <2>1, <2>2, <3>1 DEF OnLinksAre
    <3>3. ASSUME NEW i \in DOMAIN each[j]
          PROVE  /\ each[j][i].bridge = BridgeName(f.links[j])
                 /\ each[j][i].node = Members(insts, f.links[j])[i].name
      <4> DEFINE b == BridgeName(f.links[j])
                 n == Members(insts, f.links[j])[i].name
                 a == IF f.links[j].subnet = L2Only THEN L2Only
                      ELSE Address(f.links[j].subnet, i)
      <4>1. each[j][i] = [bridge |-> b, node |-> n, ip |-> a]
        BY <3>2
      <4> HIDE DEF a, b, n
      <4>2. each[j][i].bridge = b /\ each[j][i].node = n
        BY <4>1
      <4> QED
        BY <4>2 DEF b, n
    <3> QED
      BY <3>1, <3>3
  <2> QED
    BY <2>3, <2>4
<1>3. \A j, m, k : TapAt(f, insts, j, m, k) = Place(each, j, In(j, m, k))
  BY DEF TapAt
<1> HIDE DEF each
<1>4. PICK A : each \in Seq(Seq(A))
  BY <1>2
<1>5. /\ raw \in Seq(A)
      /\ \A j \in DOMAIN each : \A k \in DOMAIN each[j] :
            Place(each, j, k) \in DOMAIN raw /\ raw[Place(each, j, k)] = each[j][k]
      /\ \A i \in DOMAIN raw : \E j \in DOMAIN each : \E k \in DOMAIN each[j] :
            i = Place(each, j, k)
      /\ \A i, j \in DOMAIN each : \A k \in DOMAIN each[i], n \in DOMAIN each[j] :
            Place(each, i, k) = Place(each, j, n) => i = j /\ k = n
  <2>1. raw = FlattenSeq(each)
    BY DEF each
  <2> QED
    BY <1>4, <2>1, FlattenPlaces
<1>6. Len(raw) \in Nat /\ DOMAIN raw = 1..Len(raw)
  BY <1>5
<1>7. ASSUME NEW j \in L, NEW m \in DOMAIN f.links[j].members, NEW k \in DOMAIN insts,
             Of(insts, f.links[j], m, k)
      PROVE  /\ In(j, m, k) \in DOMAIN each[j]
             /\ Members(insts, f.links[j])[In(j, m, k)] = insts[k]
  BY <1>1, <1>2, <1>7 DEF MembersPlaced
<1>8. ASSUME NEW j \in L, NEW m \in DOMAIN f.links[j].members, NEW k \in DOMAIN insts,
             Of(insts, f.links[j], m, k)
      PROVE  /\ TapAt(f, insts, j, m, k) \in DOMAIN raw
             /\ raw[TapAt(f, insts, j, m, k)].bridge = BridgeName(f.links[j])
             /\ raw[TapAt(f, insts, j, m, k)].node = insts[k].name
  <2> DEFINE q == In(j, m, k)
             p == TapAt(f, insts, j, m, k)
  <2>1. q \in DOMAIN each[j] /\ Members(insts, f.links[j])[q] = insts[k]
    BY <1>7, <1>8
  <2>2. p = Place(each, j, q)
    BY <1>3
  <2> HIDE DEF q, p
  <2>3. p \in DOMAIN raw /\ raw[p] = each[j][q]
    BY <1>2, <1>5, <2>1, <2>2
  <2>4. p \in DOMAIN raw /\ raw[p].bridge = BridgeName(f.links[j])
        /\ raw[p].node = insts[k].name
    BY <1>2, <2>1, <2>3
  <2> QED
    BY <2>4 DEF p
<1>9. ASSUME NEW p \in DOMAIN raw
      PROVE  \E j \in L : \E m \in DOMAIN f.links[j].members, k \in DOMAIN insts :
                Of(insts, f.links[j], m, k) /\ p = TapAt(f, insts, j, m, k)
  <2>1. PICK j \in L : \E q \in DOMAIN Members(insts, f.links[j]) : p = Place(each, j, q)
    BY <1>2, <1>5
  <2>2. PICK q \in DOMAIN Members(insts, f.links[j]) : p = Place(each, j, q)
    BY <2>1
  <2>3. PICK m \in DOMAIN f.links[j].members, k \in DOMAIN insts :
           Of(insts, f.links[j], m, k) /\ q = In(j, m, k)
    BY <1>1 DEF MembersPlaced
  <2> QED
    BY <1>3, <2>2, <2>3
<1>10. ASSUME NEW i \in L, NEW j \in L,
              NEW m \in DOMAIN f.links[i].members, NEW n \in DOMAIN f.links[j].members,
              NEW k \in DOMAIN insts, NEW l \in DOMAIN insts,
              Of(insts, f.links[i], m, k), Of(insts, f.links[j], n, l),
              TapAt(f, insts, i, m, k) = TapAt(f, insts, j, n, l)
       PROVE  i = j /\ m = n /\ k = l
  <2>1. In(i, m, k) \in DOMAIN each[i] /\ In(j, n, l) \in DOMAIN each[j]
    BY <1>7, <1>10
  <2>2. Place(each, i, In(i, m, k)) = Place(each, j, In(j, n, l))
    BY <1>3, <1>10
  <2>3. i = j /\ In(i, m, k) = In(j, n, l)
    <3> HIDE DEF In
    <3> QED
      BY <1>2, <1>5, <2>1, <2>2
  <2>4. InMembers(insts, f.links[i], m, k) = InMembers(insts, f.links[i], n, l)
    BY <2>3
  <2> QED
    BY <1>1, <1>10, <2>3, <2>4 DEF MembersPlaced
<1> QED
  BY <1>6, <1>8, <1>9, <1>10 DEF TapsPlaced

-----------------------------------------------------------------------------
(* The invariant. *)

\* A file is planned only if it is valid, and each process computes its plan
\* from the file, in some order of the map.
IInv ==
    /\ file \in Files
    /\ stage \in {"file", "rejected", "loaded", "up", "down"}
    /\ stage \in {"loaded", "up", "down"} => ValidNodes(file) /\ ValidLinks(file)
    /\ Planned => \E order \in Orders : made = Computed(Expand(file, order))
    /\ stage = "down" => \E order \in Orders : gone = Computed(Expand(file, order))

LEMMA StepKeeps == IInv /\ [Next]_vars => IInv'
<1> SUFFICES ASSUME IInv, [Next]_vars
             PROVE  IInv'
  OBVIOUS
<1>1. file' = file
  BY DEF Next, Load, Up, Down, vars
<1>2. /\ Orders' = Orders
      /\ \A order : Computed(Expand(file, order))' = Computed(Expand(file, order))
      /\ ValidNodes(file)' = ValidNodes(file) /\ ValidLinks(file)' = ValidLinks(file)
  BY <1>1 DEF Orders, Computed
<1>3. CASE Load
  BY <1>1, <1>2, <1>3 DEF Load, IInv, Planned
<1>4. CASE Up
  BY <1>1, <1>2, <1>4 DEF Up, IInv, Planned
<1>5. CASE Down
  BY <1>1, <1>2, <1>5 DEF Down, IInv, Planned
<1>6. CASE UNCHANGED vars
  BY <1>1, <1>2, <1>6 DEF vars, IInv, Planned
<1> QED
  BY <1>3, <1>4, <1>5, <1>6 DEF Next

THEOREM Invariance == Spec => []IInv
<1>1. Init => IInv
  BY DEF Init, IInv, Planned
<1> QED
  BY <1>1, StepKeeps, PTL DEF Spec

Raw == FlattenSeq(OnLinks(file, made.insts))

\* What the taps of a plan are made of.
LEMMA PlanIs ==
    ASSUME IInv, Planned
    PROVE  /\ file \in Files
           /\ made.insts \in Seq(ToSet(made.insts))
           /\ \A n \in DOMAIN file.nodes : \E inst \in ToSet(made.insts) : inst.base = n
           /\ ~made.plan.err
           /\ \A j \in DOMAIN file.links :
                 made.plan.bridges[j] = BridgeName(file.links[j])
           /\ Taps = [k \in DOMAIN Raw |->
                        [name |-> k, mac |-> Mac(k), bridge |-> Raw[k].bridge,
                         node |-> Raw[k].node, ip |-> Raw[k].ip]]
           /\ Len(Raw) \in Nat /\ DOMAIN Raw = 1..Len(Raw)
           /\ TapsPlaced(file, made.insts, Raw)
<1>1. PICK order \in Orders : made = Computed(Expand(file, order))
  BY DEF IInv
<1>2. file \in Files /\ order \in SetToSeqs(DOMAIN file.nodes)
  BY <1>1 DEF IInv, Orders
<1>3. made.insts = Expand(file, order) /\ made.plan = Plan(file, made.insts)
  BY <1>1 DEF Computed
<1>4. /\ made.insts \in Seq(ToSet(made.insts))
      /\ \A n \in DOMAIN file.nodes : \E inst \in ToSet(made.insts) : inst.base = n
  BY <1>2, <1>3, Expanded
<1>5. ~(\E l \in ToSet(file.links) : l.subnet = Malformed)
  BY DEF IInv, Planned, ValidLinks
<1>6. FlattenSeq([j \in DOMAIN file.links |-> TapsOnLink(made.insts, file.links[j])]) = Raw
  BY DEF Raw, OnLinks
<1>7. made.plan = [bridges |-> [j \in DOMAIN file.links |-> BridgeName(file.links[j])],
                   taps |-> [k \in DOMAIN Raw |->
                        [name |-> k, mac |-> Mac(k), bridge |-> Raw[k].bridge,
                         node |-> Raw[k].node, ip |-> Raw[k].ip]],
                   err |-> FALSE]
  BY <1>3, <1>5, <1>6, Zenon DEF Plan
<1>12. \A j \in DOMAIN file.links : made.plan.bridges[j] = BridgeName(file.links[j])
  BY <1>7
<1>8. ~made.plan.err /\ Taps = [k \in DOMAIN Raw |->
                        [name |-> k, mac |-> Mac(k), bridge |-> Raw[k].bridge,
                         node |-> Raw[k].node, ip |-> Raw[k].ip]]
  BY <1>7 DEF Taps
<1> DEFINE T == ToSet(made.insts)
           insts == made.insts
<1>9. insts \in Seq(T)
  BY <1>4
<1> HIDE DEF T
<1>10. Raw = FlattenSeq(OnLinks(file, insts))
  BY DEF Raw
<1> HIDE DEF insts
<1>11. Len(Raw) \in Nat /\ DOMAIN Raw = 1..Len(Raw) /\ TapsPlaced(file, insts, Raw)
  BY <1>2, <1>9, <1>10, TapPlaces
<1> QED
  BY <1>2, <1>4, <1>8, <1>11, <1>12 DEF insts

-----------------------------------------------------------------------------
(* The theorems. *)

\* Up and Down, that range over the map of nodes as they please, compute the
\* same instances and the same plan (topology.Expand, runner.Plan).
THEOREM DownSees == Spec => []DownSeesWhatUpMade
<1>1. IInv => DownSeesWhatUpMade
  <2> SUFFICES ASSUME IInv, stage = "down"
               PROVE  gone = made
    BY DEF DownSeesWhatUpMade
  <2>1. PICK p \in Orders : made = Computed(Expand(file, p))
    BY DEF IInv, Planned
  <2>2. PICK q \in Orders : gone = Computed(Expand(file, q))
    BY DEF IInv
  <2>3. SortedNames(p) = SortedNames(q)
    <3>1. IsFiniteSet(DOMAIN file.nodes) /\ DOMAIN file.nodes \subseteq Seq(Nat)
      BY FilesAssumption DEF IInv
    <3> QED
      BY <3>1, NamesForgetOrder DEF Orders
  <2>4. Expand(file, p) = Expand(file, q)
    BY <2>3 DEF Expand
  <2> QED
    BY <2>1, <2>2, <2>4
<1> QED
  BY <1>1, Invariance, PTL

\* The MAC of a tap is the number of the tap, cut to MacBits bits (runner.macFor):
\* the MACs of a plan are distinct up to the number of MACs there are.
THEOREM MacsAreDistinct == Spec => []DistinctMacs
<1>1. IInv => DistinctMacs
  <2> SUFFICES ASSUME IInv, Planned, Len(Taps) <= 2^MacBits,
                      NEW j \in DOMAIN Taps, NEW k \in DOMAIN Taps,
                      Taps[j].mac = Taps[k].mac
               PROVE  j = k
    BY DEF DistinctMacs
  <2> DEFINE M == 2^MacBits
             n == Len(Raw)
  <2>1. M \in Nat /\ 0 < M
    <3>1. MacBits \in Nat
      BY WidthsAssumption
    <3>2. 2^MacBits \in Nat \ {0}
      BY <3>1, PowerOfTwo
    <3> HIDE DEF M
    <3>3. M \in Nat \ {0}
      BY <3>2 DEF M
    <3> QED
      BY <3>3
  <2>2. n \in Nat /\ DOMAIN Raw = 1..n
    BY PlanIs
  <2>3. DOMAIN Taps = 1..n /\ \A i \in 1..n : Taps[i].mac = Mac(i)
    BY <2>2, PlanIs
  <2>4. Len(Taps) = n
    BY <2>2, <2>3
  <2>5. n <= M /\ Mac(j) = j % M /\ Mac(k) = k % M
    BY <2>4 DEF Mac
  <2>6. j \in 1..n /\ k \in 1..n /\ Mac(j) = Mac(k)
    BY <2>3
  <2> HIDE DEF M, n
  <2>7. j \in 1..M /\ k \in 1..M /\ j % M = k % M
    BY <2>1, <2>2, <2>5, <2>6
  <2> QED
    BY <2>1, <2>7, Residues
<1> QED
  BY <1>1, Invariance, PTL

\* The taps of a link are where LinkTaps looks for them, one for each instance of
\* a member.
LEMMA LinkTapsAre ==
    ASSUME IInv, Planned, NEW j \in DOMAIN file.links,
           NEW n, n = Len(Members(made.insts, file.links[j]))
    PROVE  /\ n \in Nat /\ DOMAIN LinkTaps(j) = 1..n
           /\ DOMAIN Members(made.insts, file.links[j]) = 1..n
           /\ \A i \in 1..n :
                 /\ LinkTaps(j)[i].name = Place(OnLinks(file, made.insts), j, i)
                 /\ LinkTaps(j)[i].bridge = BridgeName(file.links[j])
                 /\ LinkTaps(j)[i].node = Members(made.insts, file.links[j])[i].name
                 /\ LinkTaps(j)[i].ip = IF file.links[j].subnet = L2Only THEN L2Only
                                        ELSE Address(file.links[j].subnet, i)
                 /\ LinkTaps(j)[i].name \in DOMAIN Taps
                 /\ Taps[LinkTaps(j)[i].name].bridge = BridgeName(file.links[j])
<1> DEFINE insts == made.insts
           T == ToSet(insts)
           each == OnLinks(file, insts)
           D == DOMAIN file.links
           mems == [i \in D |-> Members(insts, file.links[i])]
           first == Offset(each, j)
<1>1. /\ file \in Files /\ insts \in Seq(T)
      /\ Len(file.links) \in Nat /\ D = 1..Len(file.links)
      /\ \A i \in D : file.links[i].members \in Seq(Seq(Nat))
  BY PlanIs, LinksAre
<1>2. /\ Taps = [k \in DOMAIN Raw |->
                    [name |-> k, mac |-> Mac(k), bridge |-> Raw[k].bridge,
                     node |-> Raw[k].node, ip |-> Raw[k].ip]]
      /\ Len(Raw) \in Nat /\ DOMAIN Raw = 1..Len(Raw)
      /\ Raw = FlattenSeq(each)
  BY PlanIs DEF Raw
<1>3. LinkTaps(j) = SubSeq(Taps,
                           Len(FlattenSeq([i \in 1..(j - 1) |-> Members(insts, file.links[i])])) + 1,
                           Len(FlattenSeq([i \in 1..(j - 1) |-> Members(insts, file.links[i])])) + n)
  BY DEF LinkTaps
<1> HIDE DEF insts, T
<1>4. /\ \E A : each \in Seq(Seq(A))
      /\ DOMAIN each = D
      /\ \A i \in D :
            /\ DOMAIN each[i] = DOMAIN Members(insts, file.links[i])
            /\ Len(each[i]) = Len(Members(insts, file.links[i]))
            /\ \A k \in DOMAIN each[i] :
                  each[i][k] = [bridge |-> BridgeName(file.links[i]),
                                node |-> Members(insts, file.links[i])[k].name,
                                ip |-> IF file.links[i].subnet = L2Only THEN L2Only
                                       ELSE Address(file.links[i].subnet, k)]
  <2>1. OnLinksAre(file, insts, each)
    BY <1>1, TapsOnLinks
  <2> HIDE DEF each
  <2> QED
    BY <2>1 DEF OnLinksAre
<1>5. PICK A : each \in Seq(Seq(A))
  BY <1>4
<1>6. mems \in [1..Len(file.links) -> Seq(T)]
  <2> SUFFICES ASSUME NEW i \in D
               PROVE  Members(insts, file.links[i]) \in Seq(T)
    BY <1>1
  <2> DEFINE l == file.links[i]
  <2>1. l.members \in Seq(Seq(Nat))
    BY <1>1
  <2> HIDE DEF l
  <2>2. Members(insts, l) \in Seq(T)
    BY <1>1, <2>1, MemberPlaces
  <2> QED
    BY <2>2 DEF l
<1>7. /\ DOMAIN mems = D
      /\ \A i \in D : mems[i] = Members(insts, file.links[i])
  OBVIOUS
<1>8. [i \in 1..(j - 1) |-> Members(insts, file.links[i])] = First(mems, j - 1)
  <2>1. \A i \in 1..(j - 1) : i \in D
    BY <1>1
  <2> QED
    BY <1>7, <2>1 DEF First
<1> HIDE DEF each, mems, D
<1>9. mems \in Seq(Seq(T)) /\ Len(mems) = Len(file.links)
  BY <1>1, <1>6, IsASequence
<1>10. Len(each) = Len(file.links) /\ each \in Seq(Seq(A))
  BY <1>1, <1>4, <1>5
<1>11. \A i \in 1..Len(each) : Len(each[i]) = Len(mems[i])
  BY <1>1, <1>4, <1>7, <1>10
<1>12. j \in 1..Len(each) /\ j \in D
  BY <1>1, <1>10 DEF D
<1>13. Offset(mems, j) = first
  <2>1. Len(each) = Len(mems) /\ each \in Seq(Seq(A)) /\ mems \in Seq(Seq(T))
    BY <1>9, <1>10
  <2>2. \A i \in 1..Len(each) : Offset(each, i) = Offset(mems, i)
    BY <1>11, <2>1, OffsetsOfLengths
  <2> QED
    BY <1>12, <2>2
<1>14. LinkTaps(j) = SubSeq(Taps, first + 1, first + n)
  BY <1>3, <1>8, <1>13 DEF Offset
<1>15. /\ n = Len(each[j]) /\ n \in Nat /\ DOMAIN each[j] = 1..n
       /\ DOMAIN Members(insts, file.links[j]) = 1..n
       /\ first \in Nat
  <2>1. each[j] \in Seq(A)
    BY <1>10, <1>12
  <2>2. n = Len(each[j])
    BY <1>4, <1>12 DEF insts
  <2>3. first \in Nat
    BY <1>10, <1>12, OffsetStep
  <2> QED
    BY <1>4, <1>12, <2>1, <2>2, <2>3
<1> HIDE DEF first
<1> DEFINE ip(i) == IF file.links[j].subnet = L2Only THEN L2Only
                    ELSE Address(file.links[j].subnet, i)
           node(i) == Members(insts, file.links[j])[i].name
           br == BridgeName(file.links[j])
<1>16. ASSUME NEW i \in 1..n
       PROVE  /\ first + i \in DOMAIN Raw /\ first + i = Place(each, j, i)
              /\ Raw[first + i].bridge = br
              /\ Raw[first + i].node = node(i)
              /\ Raw[first + i].ip = ip(i)
  <2>1. Place(each, j, i) \in DOMAIN Raw /\ Raw[Place(each, j, i)] = each[j][i]
    <3>1. j \in DOMAIN each /\ i \in DOMAIN each[j]
      BY <1>4, <1>12, <1>15
    <3> QED
      BY <1>2, <1>10, <3>1, FlattenPlaces
  <2>2. Place(each, j, i) = first + i
    BY DEF Place, first
  <2>3. each[j][i] = [bridge |-> br, node |-> node(i), ip |-> ip(i)]
    BY <1>4, <1>12, <1>15
  <2> HIDE DEF br, node, ip
  <2>4. each[j][i].bridge = br /\ each[j][i].node = node(i) /\ each[j][i].ip = ip(i)
    BY <2>3
  <2> QED
    BY <2>1, <2>2, <2>4
<1>17. Taps \in Seq(ToSet(Taps)) /\ Len(Taps) = Len(Raw) /\ DOMAIN Taps = 1..Len(Raw)
       /\ \A k \in DOMAIN Raw : /\ Taps[k].name = k /\ Taps[k].bridge = Raw[k].bridge
                                 /\ Taps[k].node = Raw[k].node /\ Taps[k].ip = Raw[k].ip
  <2>1. Taps = [k \in 1..Len(Raw) |-> Taps[k]]
    BY <1>2
  <2>2. Taps \in Seq(ToSet(Taps)) /\ Len(Taps) = Len(Raw)
    BY <1>2, <2>1, OfItsElements
  <2> QED
    BY <1>2, <2>2
<1>18. LinkTaps(j) = [i \in 1..n |-> Taps[first + i]]
  <2> DEFINE s == Taps
             a == first + 1
             b == first + n
  <2>1. a \in Nat /\ b \in Nat /\ (1 + b) - a = n /\ \A i \in 1..n : (i + a) - 1 = first + i
    BY <1>15
  <2>2. s \in Seq(ToSet(s))
    BY <1>17
  <2> HIDE DEF s, a, b
  <2>3. SubSeq(s, a, b) = [i \in 1..((1 + b) - a) |-> s[(i + a) - 1]]
    BY <2>1, <2>2
  <2>4. LinkTaps(j) = SubSeq(s, a, b)
    BY <1>14 DEF s, a, b
  <2>5. SubSeq(s, a, b) = [i \in 1..n |-> s[first + i]]
    BY <2>1, <2>3
  <2> QED
    BY <2>4, <2>5 DEF s
<1> HIDE DEF br, node, ip
<1>19. \A i \in 1..n : /\ LinkTaps(j)[i].name = Place(each, j, i)
                       /\ LinkTaps(j)[i].bridge = br /\ LinkTaps(j)[i].node = node(i)
                       /\ LinkTaps(j)[i].ip = ip(i) /\ LinkTaps(j)[i].name \in DOMAIN Taps
                       /\ Taps[LinkTaps(j)[i].name].bridge = br
  <2> SUFFICES ASSUME NEW i \in 1..n
               PROVE  /\ LinkTaps(j)[i].name = Place(each, j, i)
                      /\ LinkTaps(j)[i].bridge = br /\ LinkTaps(j)[i].node = node(i)
                      /\ LinkTaps(j)[i].ip = ip(i) /\ LinkTaps(j)[i].name \in DOMAIN Taps
                      /\ Taps[LinkTaps(j)[i].name].bridge = br
    OBVIOUS
  <2>1. LinkTaps(j)[i] = Taps[first + i]
    BY <1>18
  <2>2. first + i \in DOMAIN Taps /\ Taps[first + i].name = first + i
    BY <1>2, <1>16, <1>17
  <2>3. /\ Taps[first + i].bridge = br /\ Taps[first + i].node = node(i)
        /\ Taps[first + i].ip = ip(i)
    BY <1>16, <1>17
  <2>4. first + i = Place(each, j, i)
    BY <1>16
  <2> QED
    BY <2>1, <2>2, <2>3, <2>4
<1>20. DOMAIN LinkTaps(j) = 1..n
  BY <1>18
<1> QED
  BY <1>15, <1>19, <1>20 DEF br, node, ip, each, insts

\* Every tap is one of a link's.
LEMMA TapsOfLinks ==
    ASSUME IInv, Planned, NEW p \in DOMAIN Taps
    PROVE  \E j \in DOMAIN file.links : \E i \in DOMAIN LinkTaps(j) :
              p = LinkTaps(j)[i].name
<1> DEFINE insts == made.insts
           T == ToSet(insts)
<1>1. /\ file \in Files /\ insts \in Seq(T) /\ DOMAIN Taps = DOMAIN Raw
      /\ TapsPlaced(file, insts, Raw)
  BY PlanIs
<1> HIDE DEF insts, T
<1>2. PICK j \in DOMAIN file.links : \E m \in DOMAIN file.links[j].members, k \in DOMAIN insts :
         Of(insts, file.links[j], m, k) /\ p = TapAt(file, insts, j, m, k)
  BY <1>1 DEF TapsPlaced
<1>3. PICK m \in DOMAIN file.links[j].members, k \in DOMAIN insts :
         Of(insts, file.links[j], m, k) /\ p = TapAt(file, insts, j, m, k)
  BY <1>2
<1> DEFINE l == file.links[j]
           i == InMembers(insts, l, m, k)
<1>4. l.members \in Seq(Seq(Nat))
  BY <1>1, LinksAre
<1>5. i \in DOMAIN Members(insts, l)
  <2> HIDE DEF l
  <2>1. MembersPlaced(insts, l)
    BY <1>1, <1>4, MemberPlaces
  <2> QED
    BY <1>3, <2>1 DEF MembersPlaced, l
<1>6. p = Place(OnLinks(file, insts), j, i)
  BY <1>3 DEF TapAt
<1> HIDE DEF i
<1>7. i \in DOMAIN LinkTaps(j) /\ LinkTaps(j)[i].name = Place(OnLinks(file, insts), j, i)
  BY <1>5, LinkTapsAre DEF insts
<1> QED
  BY <1>6, <1>7

\* Every file that Load accepts is planned: each link has the taps its members
\* give it, and its bridge has these and those of the links that are cut to the
\* same name.
THEOREM AcceptedIsPlanned == Spec => []PlansWhatItAccepts
<1>1. ASSUME IInv, Planned, NEW l \in ToSet(file.links), NEW n \in ToSet(l.members)
      PROVE  \E inst \in ToSet(made.insts) : inst.base = n
  <2>1. n \in DOMAIN file.nodes
    BY <1>1 DEF IInv, Planned, ValidLinks
  <2> QED
    BY <1>1, <2>1, PlanIs
<1>2. ASSUME IInv, Planned, NEW j \in DOMAIN file.links, NEW name
      PROVE  Cardinality({k \in DOMAIN LinkTaps(j) : LinkTaps(j)[k].node = name})
             = Cardinality(Listed(j, name))
  <2> DEFINE insts == made.insts
             T == ToSet(insts)
             l == file.links[j]
             n == Len(Members(insts, l))
             L == Listed(j, name)
             K == {k \in DOMAIN LinkTaps(j) : LinkTaps(j)[k].node = name}
             at == [t \in L |-> InMembers(insts, l, t[1], t[2])]
  <2>1. /\ n \in Nat /\ DOMAIN LinkTaps(j) = 1..n /\ DOMAIN Members(insts, l) = 1..n
        /\ \A i \in 1..n : LinkTaps(j)[i].node = Members(insts, l)[i].name
    BY <1>2, LinkTapsAre
  <2>2. MembersPlaced(insts, l)
    <3>1. insts \in Seq(T) /\ l.members \in Seq(Seq(Nat))
      BY <1>2, PlanIs, LinksAre
    <3> HIDE DEF insts, T, l
    <3> QED
      BY <3>1, MemberPlaces
  <2>3. \A t : t \in L <=> \E m \in DOMAIN l.members, k \in DOMAIN insts :
           t = <<m, k>> /\ Of(insts, l, m, k) /\ insts[k].name = name
    BY DEF Listed, Of
  <2> HIDE DEF K, L, insts, l, n
  <2>4. \A t \in L : /\ t[1] \in DOMAIN l.members /\ t[2] \in DOMAIN insts
                     /\ t = <<t[1], t[2]>> /\ Of(insts, l, t[1], t[2])
                     /\ insts[t[2]].name = name
    BY <2>3
  <2>5. at \in [L -> K]
    <3> SUFFICES ASSUME NEW t \in L
                 PROVE  InMembers(insts, l, t[1], t[2]) \in K
      OBVIOUS
    <3>1. /\ InMembers(insts, l, t[1], t[2]) \in 1..n
          /\ Members(insts, l)[InMembers(insts, l, t[1], t[2])] = insts[t[2]]
      BY <2>1, <2>2, <2>4 DEF MembersPlaced
    <3> QED
      BY <2>1, <2>4, <3>1 DEF K
  <2>6. ASSUME NEW t \in L, NEW u \in L, at[t] = at[u]
        PROVE  t = u
    <3>1. InMembers(insts, l, t[1], t[2]) = InMembers(insts, l, u[1], u[2])
      BY <2>6
    <3>2. t[1] = u[1] /\ t[2] = u[2]
      BY <2>2, <2>4, <3>1 DEF MembersPlaced
    <3> QED
      BY <2>4, <3>2, Zenon
  <2>7. ASSUME NEW i \in K
        PROVE  \E t \in L : at[t] = i
    <3>1. i \in DOMAIN Members(insts, l) /\ Members(insts, l)[i].name = name
      BY <2>1, <2>7 DEF K
    <3>2. PICK m \in DOMAIN l.members, k \in DOMAIN insts :
             Of(insts, l, m, k) /\ i = InMembers(insts, l, m, k)
      BY <2>2, <3>1 DEF MembersPlaced
    <3>3. insts[k].name = name
      BY <2>2, <3>1, <3>2 DEF MembersPlaced
    <3>4. <<m, k>> \in L
      BY <2>3, <3>2, <3>3
    <3>5. at[<<m, k>>] = InMembers(insts, l, m, k)
      BY <3>4
    <3> QED
      BY <3>2, <3>4, <3>5
  <2>8. IsFiniteSet(K)
    <3>1. K \subseteq 1..n /\ IsFiniteSet(1..n)
      BY <2>1, FS_Interval DEF K
    <3> QED
      BY <3>1, FS_Subset
  <2> HIDE DEF at
  <2>9. /\ \A t, u \in L : at[t] = at[u] => t = u
        /\ \A i \in K : \E t \in L : at[t] = i
    BY <2>6, <2>7
  <2>10. Cardinality(L) = Cardinality(K)
    BY <2>5, <2>8, <2>9, Matched
  <2> QED
    BY <2>10 DEF L, K
<1>3. ASSUME IInv, Planned, NEW j \in DOMAIN file.links
      PROVE  {p \in DOMAIN Taps : Taps[p].bridge = made.plan.bridges[j]}
             = UNION {{t.name : t \in ToSet(LinkTaps(i))} : i \in Segment(j)}
  <2>1. made.plan.bridges[j] = BridgeName(file.links[j])
    BY <1>3, PlanIs
  <2>2. \A i \in DOMAIN file.links : \A k \in DOMAIN LinkTaps(i) :
           /\ LinkTaps(i)[k].name \in DOMAIN Taps
           /\ Taps[LinkTaps(i)[k].name].bridge = BridgeName(file.links[i])
    <3> SUFFICES ASSUME NEW i \in DOMAIN file.links, NEW k \in DOMAIN LinkTaps(i)
                 PROVE  /\ LinkTaps(i)[k].name \in DOMAIN Taps
                        /\ Taps[LinkTaps(i)[k].name].bridge = BridgeName(file.links[i])
      OBVIOUS
    <3> QED
      BY <1>3, LinkTapsAre
  <2>3. \A p \in DOMAIN Taps : \E i \in DOMAIN file.links : \E k \in DOMAIN LinkTaps(i) :
           p = LinkTaps(i)[k].name
    BY <1>3, TapsOfLinks
  <2>4. \A i \in DOMAIN file.links :
           i \in Segment(j) <=> BridgeName(file.links[i]) = BridgeName(file.links[j])
    BY DEF Segment, BridgeName
  <2>5. Segment(j) \subseteq DOMAIN file.links
    BY DEF Segment
  <2>6. \A i, p : p \in {t.name : t \in ToSet(LinkTaps(i))} <=>
                    \E k \in DOMAIN LinkTaps(i) : p = LinkTaps(i)[k].name
    BY DEF ToSet
  <2>7. \A p : p \in UNION {{t.name : t \in ToSet(LinkTaps(i))} : i \in Segment(j)} <=>
               \E i \in Segment(j) : \E k \in DOMAIN LinkTaps(i) : p = LinkTaps(i)[k].name
    <3> DEFINE names(i) == {t.name : t \in ToSet(LinkTaps(i))}
               isOf(i, p) == \E k \in DOMAIN LinkTaps(i) : p = LinkTaps(i)[k].name
    <3>1. \A i, p : p \in names(i) <=> isOf(i, p)
      BY <2>6
    <3> HIDE DEF names, isOf
    <3>2. \A p : p \in UNION {names(i) : i \in Segment(j)} <=> \E i \in Segment(j) : isOf(i, p)
      BY <3>1
    <3> QED
      BY <3>2 DEF names, isOf
  <2>8. \A p : p \in DOMAIN Taps /\ Taps[p].bridge = made.plan.bridges[j] <=>
               \E i \in Segment(j) : \E k \in DOMAIN LinkTaps(i) : p = LinkTaps(i)[k].name
    BY <2>1, <2>2, <2>3, <2>4, <2>5
  <2> QED
    BY <2>7, <2>8
<1>4. IInv => PlansWhatItAccepts
  <2> SUFFICES ASSUME IInv, Planned
               PROVE  /\ ~made.plan.err
                      /\ \A n \in UNION {ToSet(l.members) : l \in ToSet(file.links)} :
                            \E inst \in ToSet(made.insts) : inst.base = n
                      /\ \A j \in DOMAIN file.links, inst \in ToSet(made.insts) :
                            Cardinality({k \in DOMAIN LinkTaps(j) :
                                            LinkTaps(j)[k].node = inst.name})
                            = Cardinality(Listed(j, inst.name))
                      /\ \A j \in DOMAIN file.links :
                            {k \in DOMAIN Taps : Taps[k].bridge = made.plan.bridges[j]}
                            = UNION {{t.name : t \in ToSet(LinkTaps(i))} : i \in Segment(j)}
    BY DEF PlansWhatItAccepts
  <2>1. ~made.plan.err
    BY PlanIs
  <2>2. \A n \in UNION {ToSet(l.members) : l \in ToSet(file.links)} :
           \E inst \in ToSet(made.insts) : inst.base = n
    BY <1>1
  <2>3. \A j \in DOMAIN file.links : \A name :
           Cardinality({k \in DOMAIN LinkTaps(j) : LinkTaps(j)[k].node = name})
           = Cardinality(Listed(j, name))
    BY <1>2
  <2>4. \A j \in DOMAIN file.links :
           {k \in DOMAIN Taps : Taps[k].bridge = made.plan.bridges[j]}
           = UNION {{t.name : t \in ToSet(LinkTaps(i))} : i \in Segment(j)}
    BY <1>3
  <2> QED
    BY <2>1, <2>2, <2>3, <2>4
<1> QED
  BY <1>4, Invariance, PTL

\* A subnet is a block of addresses.
LEMMA SubnetIsBlock ==
    ASSUME NEW s \in Subnet, NEW b, b = 2^(AddrBits - s.ones)
    PROVE  b \in Nat /\ 0 < b /\ Network(s) \in Nat /\ Network(s) + b <= 2^AddrBits
<1> DEFINE w == AddrBits - s.ones
           c == 2^s.ones
           B == 2^AddrBits
           a == s.addr
<1>1. w \in Nat /\ s.ones \in Nat /\ AddrBits = w + s.ones /\ AddrBits \in Nat
  BY WidthsAssumption DEF Subnet
<1>2. a \in 0..(B - 1)
  BY DEF Subnet
<1>3. b \in Nat \ {0} /\ c \in Nat \ {0} /\ B \in Nat \ {0} /\ B = b * c
  <2> HIDE DEF w
  <2>1. 2^w \in Nat \ {0} /\ 2^s.ones \in Nat \ {0} /\ 2^AddrBits \in Nat \ {0}
    BY <1>1, PowerOfTwo
  <2>2. 2^(w + s.ones) = 2^w * 2^s.ones
    BY <1>1, PowersMultiply
  <2>3. b = 2^w /\ 2^AddrBits = 2^(w + s.ones)
    BY <1>1, Zenon DEF w
  <2> QED
    BY <2>1, <2>2, <2>3
<1>4. Network(s) = a - (a % b)
  BY DEF Network
<1> HIDE DEF a, B, c
<1>5. b \in Nat /\ 0 < b /\ a \in Nat /\ c \in Nat /\ a < b * c
  BY <1>2, <1>3
<1>6. a - (a % b) \in Nat /\ a - (a % b) + b <= b * c
  BY <1>5, Blocks
<1> QED
  BY <1>3, <1>4, <1>5, <1>6 DEF B

\* The i-th member of a link gets the i-th host of its subnet (runner.addToIPv4),
\* as long as the subnet has that many.
THEOREM AddressesAreUsable == Spec => []UsableAddresses
<1>1. ASSUME IInv, Planned, NEW j \in DOMAIN file.links,
             NEW s, s = file.links[j].subnet, s # L2Only, ~s.v6,
             NEW ips, ips = [k \in DOMAIN LinkTaps(j) |-> LinkTaps(j)[k].ip],
             Len(ips) <= Cardinality(Hosts(s))
      PROVE  IsInjective(ips) /\ ToSet(ips) \subseteq Hosts(s)
  <2> DEFINE n == Len(Members(made.insts, file.links[j]))
             N == Network(s)
             b == 2^(AddrBits - s.ones)
             B == 2^AddrBits
  <2>1. s \in Subnet
    <3>1. file \in Files /\ s # Malformed
      BY <1>1 DEF IInv, Planned, ValidLinks, ToSet
    <3> QED
      BY <1>1, <3>1, LinksAre
  <2>2. n \in Nat /\ ips = [i \in 1..n |-> Address(s, i)]
    <3> HIDE DEF n
    <3>1. /\ n \in Nat /\ DOMAIN LinkTaps(j) = 1..n
          /\ \A i \in 1..n : LinkTaps(j)[i].ip = Address(s, i)
      BY <1>1, LinkTapsAre DEF n
    <3> QED
      BY <1>1, <3>1
  <2>3. b \in Nat /\ 0 < b /\ N \in Nat /\ N + b <= B
    BY <2>1, SubnetIsBlock
  <2>4. B \in Nat /\ 0 < B
    <3>1. B \in Nat \ {0}
      BY WidthsAssumption, PowerOfTwo
    <3> QED
      BY <3>1
  <2>5. Hosts(s) = {N + i : i \in 1..(b - 2)}
    BY DEF Hosts
  <2>6. \A i : Address(s, i) = (N + i) % B
    BY <1>1 DEF Address
  <2> HIDE DEF n, N, b, B
  <2>7. n <= b - 2 \/ n = 0
    <3>1. {N + i : i \in 1..(b - 2)} = (N + 1)..((N + b) - 2)
      <4>1. \A x \in (N + 1)..((N + b) - 2) : x - N \in 1..(b - 2) /\ x = N + (x - N)
        BY <2>3
      <4>2. \A i \in 1..(b - 2) : N + i \in (N + 1)..((N + b) - 2)
        BY <2>3
      <4> QED
        BY <4>1, <4>2
    <3>2. N + 1 \in Int /\ (N + b) - 2 \in Int
          /\ (N + 1 > (N + b) - 2 \/ ((N + b) - 2) - (N + 1) + 1 = b - 2)
      BY <2>3
    <3>3. Cardinality(Hosts(s)) = 0 \/ Cardinality(Hosts(s)) = b - 2
      BY <2>5, <3>1, <3>2, FS_Interval
    <3>4. Len(ips) = n
      BY <2>2
    <3> QED
      BY <1>1, <2>2, <2>3, <3>3, <3>4
  <2>8. ASSUME NEW i \in 1..n
        PROVE  i \in 1..(b - 2) /\ ips[i] = N + i
    <3>1. i \in 1..(b - 2) /\ i <= b - 2
      BY <2>2, <2>3, <2>7
    <3>2. N + i \in Nat /\ 0 < N + i /\ N + i < B
      BY <2>3, <2>4, <3>1
    <3>3. (N + i) % B = N + i
      BY <2>4, <3>2
    <3> QED
      BY <2>2, <2>6, <3>1, <3>3
  <2>9. IsInjective(ips)
    <3>1. \A i, k \in 1..n : ips[i] = ips[k] => i = k
      <4>1. \A i, k \in 1..n : N + i = N + k => i = k
        BY <2>2, <2>3
      <4> QED
        BY <2>8, <4>1
    <3>2. DOMAIN ips = 1..n
      BY <2>2
    <3> QED
      BY <3>1, <3>2 DEF IsInjective
  <2>10. ToSet(ips) \subseteq Hosts(s)
    <3>1. DOMAIN ips = 1..n
      BY <2>2
    <3> QED
      BY <2>5, <2>8, <3>1 DEF ToSet
  <2> QED
    BY <2>9, <2>10
<1>2. IInv => UsableAddresses
  BY <1>1 DEF UsableAddresses
<1> QED
  BY <1>2, Invariance, PTL

\* What module Cluster assumes of plans (PlansAssumption there), of every file
\* that Load accepts: there is a node, a tap is on a bridge of the plan and at an
\* instance of it, and no two taps have the same name (runner.Plan).
FitsCluster ==
    /\ made.insts # <<>>
    /\ \A k \in DOMAIN Taps :
          /\ \E j \in DOMAIN made.plan.bridges : made.plan.bridges[j] = Taps[k].bridge
          /\ \E i \in DOMAIN made.insts : made.insts[i].name = Taps[k].node
    /\ \A j, k \in DOMAIN Taps : Taps[j].name = Taps[k].name => j = k

\* Up creates the bridges of a plan, then its taps, then boots the instances
\* (cluster.go:36-73): whatever a tap or an address refers to is there by then.
THEOREM PlansFitCluster == Spec => [](Planned => FitsCluster)
<1>1. IInv /\ Planned => FitsCluster
  <2> SUFFICES ASSUME IInv, Planned
               PROVE  FitsCluster
    OBVIOUS
  <2>1. /\ \A n \in DOMAIN file.nodes : \E inst \in ToSet(made.insts) : inst.base = n
        /\ ~made.plan.err
        /\ Taps = [k \in DOMAIN Raw |->
                     [name |-> k, mac |-> Mac(k), bridge |-> Raw[k].bridge,
                      node |-> Raw[k].node, ip |-> Raw[k].ip]]
        /\ TapsPlaced(file, made.insts, Raw)
    BY PlanIs
  <2>2. \A k \in DOMAIN Taps : /\ k \in DOMAIN Raw /\ Taps[k].name = k
                               /\ Taps[k].bridge = Raw[k].bridge
                               /\ Taps[k].node = Raw[k].node
    BY <2>1
  <2>3. made.plan.bridges = [j \in DOMAIN file.links |-> BridgeName(file.links[j])]
    <3>1. PICK order \in Orders : made = Computed(Expand(file, order))
      BY DEF IInv
    <3>2. made.plan = Plan(file, made.insts)
      BY <3>1 DEF Computed
    <3>3. ~(\E l \in ToSet(file.links) : l.subnet = Malformed)
      BY DEF IInv, Planned, ValidLinks
    <3> DEFINE b == [j \in DOMAIN file.links |-> BridgeName(file.links[j])]
    <3>4. \E t, e : made.plan = [bridges |-> b, taps |-> t, err |-> e]
      BY <3>2, <3>3, Zenon DEF Plan
    <3> HIDE DEF b
    <3>5. made.plan.bridges = b
      BY <3>4
    <3> QED
      BY <3>5 DEF b
  <2>4. made.insts # <<>>
    <3>1. PICK n \in DOMAIN file.nodes : TRUE
      BY DEF IInv, Planned, ValidNodes
    <3>2. ToSet(made.insts) # {}
      BY <2>1, <3>1
    <3> QED
      BY <3>2 DEF ToSet
  <2>5. ASSUME NEW k \in DOMAIN Taps
        PROVE  /\ \E j \in DOMAIN made.plan.bridges : made.plan.bridges[j] = Taps[k].bridge
               /\ \E i \in DOMAIN made.insts : made.insts[i].name = Taps[k].node
    <3>1. PICK j, m, i :
                  /\ j \in DOMAIN file.links /\ m \in DOMAIN file.links[j].members
                  /\ i \in DOMAIN made.insts
                  /\ Of(made.insts, file.links[j], m, i)
                  /\ k = TapAt(file, made.insts, j, m, i)
      BY <2>1, <2>2 DEF TapsPlaced
    <3>2. Raw[k].bridge = BridgeName(file.links[j]) /\ Raw[k].node = made.insts[i].name
      BY <2>1, <3>1 DEF TapsPlaced
    <3>3. j \in DOMAIN made.plan.bridges /\ made.plan.bridges[j] = BridgeName(file.links[j])
      BY <2>3, <3>1
    <3> QED
      BY <2>2, <3>1, <3>2, <3>3
  <2>6. \A j, k \in DOMAIN Taps : Taps[j].name = Taps[k].name => j = k
    BY <2>2
  <2> QED
    BY <2>4, <2>5, <2>6 DEF FitsCluster
<1> QED
  BY <1>1, Invariance, PTL
=============================================================================
