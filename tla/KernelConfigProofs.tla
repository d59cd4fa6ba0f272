------------------------- MODULE KernelConfigProofs -------------------------
(***************************************************************************)
(* All properties of KernelConfig, for any number of processes, kernels,   *)
(* fragments, symbols and compilers.                                       *)
(*                                                                         *)
(* What a process resolved is what its fragments say, written down         *)
(* (Resolved): applying the lines one after another gives each symbol the  *)
(* value of the last line that names it (MergeSays), and what Written      *)
(* writes can be read back (SaidOfWritten), so that two configs are the    *)
(* same text only if they mean the same.  An entry of the cache tells in   *)
(* its key what its kernel was made of (Honest).                           *)
(***************************************************************************)
EXTENDS KernelConfig, SequenceLemmas

-----------------------------------------------------------------------------
(* Applying lines one after another. *)

\* v tells the values of finitely many symbols.
IsVals(v) == /\ DOMAIN v \subseteq Symbols /\ IsFiniteSet(DOMAIN v)
             /\ v \in [DOMAIN v -> Values]

Names(l, s) == l.form # "other" /\ l.sym = s
ValueOf(l) == IF l.form = "off" THEN "n" ELSE l.val

\* The recursive function of the fold, on the sets of the first m lines.
Folds(f, lines, m) ==
    f = [s \in SUBSET (1..m) |->
            IF s = {} THEN NoVals ELSE Apply(f[s \ {Max(s)}], lines[Max(s)])]

LEMMA MaxIs ==
    ASSUME NEW m \in Nat, NEW s \in SUBSET (1..m), m \in s
    PROVE  Max(s) = m
<1>1. \A x \in s : x \in Int /\ x <= m
  OBVIOUS
<1>2. \A y \in s : m >= y
  BY <1>1
<1>3. Max(s) \in s /\ \A y \in s : Max(s) >= y
  BY <1>2 DEF Max
<1> DEFINE x == Max(s)
<1> HIDE DEF x
<1>4. x \in Int /\ x <= m /\ x >= m
  BY <1>1, <1>3 DEF x
<1> QED
  BY <1>4 DEF x

LEMMA FoldsExists ==
    ASSUME NEW lines
    PROVE  \A m \in Nat : \E f : Folds(f, lines, m)
<1> DEFINE N == {m \in Nat : \E f : Folds(f, lines, m)}
<1>1. 0 \in N
  <2> DEFINE f == [s \in SUBSET (1..0) |-> NoVals]
  <2>1. \A s \in SUBSET (1..0) : s = {}
    OBVIOUS
  <2>2. Folds(f, lines, 0)
    BY <2>1 DEF Folds
  <2> QED
    BY <2>2
<1>2. ASSUME NEW m \in Nat, m \in N
      PROVE  m + 1 \in N
  <2>1. PICK f : Folds(f, lines, m)
    BY <1>2
  <2> DEFINE g == [s \in SUBSET (1..(m + 1)) |->
                      IF m + 1 \in s THEN Apply(f[s \ {m + 1}], lines[m + 1]) ELSE f[s]]
  <2>2. ASSUME NEW s \in SUBSET (1..(m + 1))
        PROVE  g[s] = IF s = {} THEN NoVals ELSE Apply(g[s \ {Max(s)}], lines[Max(s)])
    <3>1. CASE m + 1 \in s
      <4>1. Max(s) = m + 1
        BY <3>1, MaxIs
      <4>2. s \ {m + 1} \in SUBSET (1..(m + 1)) /\ m + 1 \notin s \ {m + 1}
        OBVIOUS
      <4>3. g[s \ {m + 1}] = f[s \ {m + 1}]
        BY <4>2
      <4>4. g[s] = Apply(f[s \ {m + 1}], lines[m + 1])
        BY <3>1
      <4> QED
        BY <3>1, <4>1, <4>3, <4>4
    <3>2. CASE m + 1 \notin s
      <4>1. s \in SUBSET (1..m)
        BY <3>2
      <4>2. s \ {Max(s)} \in SUBSET (1..(m + 1)) /\ m + 1 \notin s \ {Max(s)}
        BY <3>2
      <4>3. g[s] = f[s] /\ g[s \ {Max(s)}] = f[s \ {Max(s)}]
        BY <3>2, <4>2
      <4>4. f[s] = IF s = {} THEN NoVals ELSE Apply(f[s \ {Max(s)}], lines[Max(s)])
        BY <2>1, <4>1 DEF Folds
      <4> QED
        BY <4>3, <4>4
    <3> QED
      BY <3>1, <3>2
  <2>3. Folds(g, lines, m + 1)
    <3>1. g = [s \in SUBSET (1..(m + 1)) |-> g[s]]
      OBVIOUS
    <3> HIDE DEF g
    <3> QED
      BY <2>2, <3>1 DEF Folds
  <2> QED
    BY <2>3
<1>3. Nat \subseteq N
  <2> HIDE DEF N
  <2> QED
    BY <1>1, <1>2, Induction
<1> QED
  BY <1>3

\* w lists what is known after each line.
Applies(w, lines) ==
    /\ w[0] = NoVals
    /\ \A k \in 1..Len(lines) : w[k] = Apply(w[k - 1], lines[k])

LEMMA FoldApplies ==
    ASSUME NEW lines \in Seq(Line)
    PROVE  \E w : Applies(w, lines) /\ FoldLeft(Apply, NoVals, lines) = w[Len(lines)]
<1> DEFINE n == Len(lines)
           f == CHOOSE f : Folds(f, lines, n)
           w == [k \in 0..n |-> f[1..k]]
<1>1. n \in Nat /\ DOMAIN lines = 1..n
  OBVIOUS
<1>2. FoldLeft(Apply, NoVals, lines) = f[1..n]
  BY <1>1 DEF FoldLeft, MapThenFoldSet, Folds
<1>3. Folds(f, lines, n)
  BY <1>1, FoldsExists
<1> HIDE DEF f
<1>4. f[1..0] = NoVals
  <2>1. 1..0 = {} /\ 1..0 \in SUBSET (1..n)
    OBVIOUS
  <2> QED
    BY <1>3, <2>1 DEF Folds
<1>5. ASSUME NEW k \in 1..n
      PROVE  f[1..k] = Apply(f[1..(k - 1)], lines[k])
  <2>1. 1..k \in SUBSET (1..n) /\ k \in 1..k /\ (1..k) \ {k} = 1..(k - 1)
    OBVIOUS
  <2>2. Max(1..k) = k
    <3>1. k \in Nat /\ 1..k \in SUBSET (1..k)
      OBVIOUS
    <3> QED
      BY <2>1, <3>1, MaxIs
  <2> QED
    BY <1>3, <2>1, <2>2 DEF Folds
<1>6. Applies(w, lines)
  <2>1. ASSUME NEW k \in 1..n
        PROVE  w[k] = f[1..k] /\ w[k - 1] = f[1..(k - 1)]
    OBVIOUS
  <2>2. w[0] = f[1..0]
    OBVIOUS
  <2> HIDE DEF w
  <2> QED
    BY <1>4, <1>5, <2>1, <2>2 DEF Applies
<1>7. w[n] = f[1..n]
  BY <1>1
<1> QED
  BY <1>2, <1>6, <1>7

-----------------------------------------------------------------------------
(* What a merge says. *)

\* v tells the value that the last of the first k lines to name a symbol gives.
Tells(v, lines, k) ==
    /\ IsVals(v)
    /\ \A j \in 1..k : \A s \in Symbols : Names(lines[j], s) => s \in DOMAIN v
    /\ \A s \in DOMAIN v : \E j \in 1..k :
          /\ Names(lines[j], s) /\ v[s] = ValueOf(lines[j])
          /\ \A i \in 1..k : Names(lines[i], s) => i <= j

LEMMA LineType ==
    ASSUME NEW l \in Line
    PROVE  \/ l.form = "other"
           \/ l.form # "other" /\ l.sym \in Symbols /\ ValueOf(l) \in Values
              /\ \A s : Names(l, s) <=> s = l.sym
BY DEF Line, Values, ValueOf, Names

LEMMA ApplyTells ==
    ASSUME NEW lines \in Seq(Line), NEW k \in 1..Len(lines),
           NEW v, Tells(v, lines, k - 1)
    PROVE  Tells(Apply(v, lines[k]), lines, k)
<1> DEFINE l == lines[k]
           u == Apply(v, l)
<1>1. l \in Line
  OBVIOUS
<1>2. \A j \in 1..k : j = k \/ j \in 1..(k - 1)
  OBVIOUS
<1>3. \A j \in 1..(k - 1) : j \in 1..k /\ j <= k /\ j # k
  OBVIOUS
<1> HIDE DEF l
<1>4. CASE l.form = "other"
  <2>1. u = v /\ \A s : ~Names(l, s)
    BY <1>4 DEF Apply, Names
  <2> QED
    BY <1>2, <1>3, <2>1, Zenon DEF Tells, l
<1>5. CASE l.form # "other"
  <2>1. /\ l.sym \in Symbols /\ ValueOf(l) \in Values
        /\ \A s : Names(l, s) <=> s = l.sym
    BY <1>1, <1>5, LineType
  <2>2. u = [s \in DOMAIN v \cup {l.sym} |-> IF s # l.sym THEN v[s] ELSE ValueOf(l)]
    BY <1>5 DEF Apply, ValueOf
  <2>3. /\ DOMAIN u = DOMAIN v \cup {l.sym}
        /\ u[l.sym] = ValueOf(l)
        /\ \A s \in DOMAIN v : s # l.sym => u[s] = v[s]
    BY <2>2
  <2>4. IsVals(u)
    <3>1. IsFiniteSet(DOMAIN u)
      <4>1. IsFiniteSet(DOMAIN v \cup {l.sym})
        BY FS_AddElement DEF Tells, IsVals
      <4> QED
        BY <2>3, <4>1
    <3>2. u \in [DOMAIN u -> Values] /\ DOMAIN u \subseteq Symbols
      BY <2>1, <2>2, <2>3 DEF Tells, IsVals
    <3> QED
      BY <3>1, <3>2 DEF IsVals
  <2> HIDE DEF u
  <2>5. ASSUME NEW j \in 1..k, NEW s \in Symbols, Names(lines[j], s)
        PROVE  s \in DOMAIN u
    BY <1>2, <2>1, <2>3, <2>5 DEF Tells, l
  <2>6. ASSUME NEW s \in DOMAIN u
        PROVE  \E j \in 1..k : /\ Names(lines[j], s) /\ u[s] = ValueOf(lines[j])
                               /\ \A i \in 1..k : Names(lines[i], s) => i <= j
    <3>1. CASE s = l.sym
      <4>1. k \in 1..k /\ \A i \in 1..k : i <= k
        OBVIOUS
      <4> QED
        BY <2>1, <2>3, <3>1, <4>1 DEF l
    <3>2. CASE s # l.sym
      <4>1. s \in DOMAIN v /\ u[s] = v[s] /\ ~Names(lines[k], s)
        BY <2>1, <2>3, <2>6, <3>2 DEF l
      <4>2. PICK j \in 1..(k - 1) :
               /\ Names(lines[j], s) /\ v[s] = ValueOf(lines[j])
               /\ \A i \in 1..(k - 1) : Names(lines[i], s) => i <= j
        BY <4>1 DEF Tells
      <4> QED
        BY <1>2, <1>3, <4>1, <4>2
    <3> QED
      BY <3>1, <3>2
  <2> QED
    BY <2>4, <2>5, <2>6 DEF Tells, u, l
<1> QED
  BY <1>4, <1>5 DEF l

LEMMA FoldTells ==
    ASSUME NEW lines \in Seq(Line)
    PROVE  Tells(FoldLeft(Apply, NoVals, lines), lines, Len(lines))
<1>1. PICK w : Applies(w, lines) /\ FoldLeft(Apply, NoVals, lines) = w[Len(lines)]
  BY FoldApplies
<1> DEFINE N == {k \in Nat : k <= Len(lines) => Tells(w[k], lines, k)}
<1>2. 0 \in N
  <2>1. IsVals(NoVals)
    BY FS_EmptySet DEF IsVals, NoVals
  <2>2. Tells(NoVals, lines, 0)
    BY <2>1 DEF Tells, NoVals
  <2> QED
    BY <1>1, <2>2 DEF Applies
<1>3. ASSUME NEW k \in Nat, k \in N
      PROVE  k + 1 \in N
  <2> SUFFICES ASSUME k + 1 <= Len(lines)
               PROVE  Tells(w[k + 1], lines, k + 1)
    OBVIOUS
  <2>1. k + 1 \in 1..Len(lines) /\ (k + 1) - 1 = k /\ Tells(w[k], lines, k)
    BY <1>3
  <2>2. w[k + 1] = Apply(w[k], lines[k + 1])
    BY <1>1, <2>1 DEF Applies
  <2> QED
    BY <2>1, <2>2, ApplyTells
<1>4. Nat \subseteq N
  <2> HIDE DEF N
  <2> QED
    BY <1>2, <1>3, Induction
<1> QED
  BY <1>1, <1>4

\* Said, which looks for the last line that names a symbol, is what lines tell.
LEMMA SaidIs ==
    ASSUME NEW fragments, FlattenSeq(fragments) \in Seq(Line),
           NEW v, Tells(v, FlattenSeq(fragments), Len(FlattenSeq(fragments)))
    PROVE  Said(fragments) = v
<1> DEFINE lines == FlattenSeq(fragments)
           Naming(s) == {k \in DOMAIN lines : lines[k].form # "other" /\ lines[k].sym = s}
           LastOf(s) == CHOOSE k \in Naming(s) : \A j \in Naming(s) : j <= k
           All == {x \in Symbols : Naming(x) # {}}
<1>1. Said(fragments) = [s \in All |-> ValueOf(lines[LastOf(s)])]
  BY DEF Said, ValueOf
<1>2. DOMAIN lines = 1..Len(lines) /\ Len(lines) \in Nat
  OBVIOUS
<1>3. \A s : Naming(s) = {k \in 1..Len(lines) : Names(lines[k], s)}
  BY <1>2 DEF Names
<1>4. Tells(v, lines, Len(lines))
  OBVIOUS
<1> HIDE DEF lines, Naming
<1>5. DOMAIN v = All
  <2>1. \A s \in DOMAIN v : s \in Symbols /\ Naming(s) # {}
    BY <1>3, <1>4 DEF Tells, IsVals
  <2>2. \A s \in Symbols : Naming(s) # {} => s \in DOMAIN v
    BY <1>3, <1>4 DEF Tells
  <2> QED
    BY <2>1, <2>2
<1>6. ASSUME NEW s \in DOMAIN v
      PROVE  v[s] = ValueOf(lines[LastOf(s)])
  <2>1. PICK j \in Naming(s) : v[s] = ValueOf(lines[j]) /\ \A i \in Naming(s) : i <= j
    BY <1>3, <1>4 DEF Tells
  <2>2. LastOf(s) \in Naming(s) /\ \A i \in Naming(s) : i <= LastOf(s)
    BY <2>1
  <2> HIDE DEF LastOf
  <2>3. LastOf(s) = j
    BY <1>3, <2>1, <2>2
  <2> QED
    BY <2>1, <2>3
<1>7. v = [s \in DOMAIN v |-> v[s]]
  BY <1>4 DEF Tells, IsVals
<1> QED
  BY <1>1, <1>5, <1>6, <1>7

-----------------------------------------------------------------------------
(* What a config tells whoever reads it. *)

SymbolOrder == {st \in Symbols \X Symbols : st[1] < st[2]}

LEMMA SymbolsAreOrdered ==
    ASSUME NEW S, S \subseteq Symbols
    PROVE  StrictOrder(SymbolOrder, S)
<1>1. \A a \in S : a \in Symbols /\ a \in Nat
  BY MatrixAssumption
<1>2. \A a, b \in S : <<a, b>> \in SymbolOrder <=> a < b
  BY <1>1 DEF SymbolOrder
<1>3. \A a, b \in S : a # b => a < b \/ b < a
  BY <1>1
<1>4. \A a, b \in S : ~(a < b /\ b < a)
  BY <1>1
<1>5. \A a, b, c \in S : a < b /\ b < c => a < c
  BY <1>1
<1> QED
  BY <1>2, <1>3, <1>4, <1>5, Zenon DEF StrictOrder

\* The symbols of v in order, each once.
LEMMA SymbolsOf ==
    ASSUME NEW v, IsVals(v)
    PROVE  LET syms == Sorted(SetToSeq(DOMAIN v), SymbolOrder)
           IN  syms \in Seq(DOMAIN v) /\ ToSet(syms) = DOMAIN v /\ IsInjective(syms)
<1> DEFINE S == DOMAIN v
           n == Cardinality(S)
           q == SetToSeq(S)
           syms == Sorted(q, SymbolOrder)
<1>1. IsFiniteSet(S) /\ S \subseteq Symbols
  BY DEF IsVals
<1> HIDE DEF S
<1>2. n \in Nat /\ ExistsBijection(1..n, S)
  BY <1>1, FS_CardinalityType
<1>3. q \in [1..n -> S] /\ IsInjective(q)
  BY <1>2 DEF ExistsBijection, Bijection, Injection, SetToSeq
<1>4. q \in Seq(S) /\ Len(q) = n
  BY <1>2, <1>3
<1>5. ToSet(q) = S
  <2>1. IsFiniteSet(1..n) /\ Cardinality(1..n) = n
    BY <1>2, FS_Interval
  <2>2. q \in Injection(1..n, S)
    BY <1>3 DEF Injection
  <2>3. q \in Surjection(1..n, S)
    BY <1>1, <2>1, <2>2, FS_Injection
  <2> QED
    BY <1>3, <2>3 DEF Surjection, ToSet
<1>6. StrictOrder(SymbolOrder, S)
  BY <1>1, SymbolsAreOrdered
<1>7. syms \in [1..n -> S] /\ Ascending(syms, SymbolOrder, S)
  BY <1>3, <1>4, <1>5, <1>6, SortedIsAscending
<1>8. syms \in Seq(S)
  BY <1>2, <1>7
<1>9. IsInjective(syms)
  <2>1. ASSUME NEW i \in 1..n, NEW j \in 1..n, syms[i] = syms[j]
        PROVE  i = j
    <3>1. i < j => <<syms[i], syms[j]>> \in SymbolOrder
      BY <1>7 DEF Ascending
    <3>2. j < i => <<syms[j], syms[i]>> \in SymbolOrder
      BY <1>7 DEF Ascending
    <3>3. syms[i] \in S /\ syms[j] \in S
      BY <1>7
    <3>4. <<syms[i], syms[i]>> \notin SymbolOrder
      BY <1>6, <3>3 DEF StrictOrder
    <3>5. ~(i < j) /\ ~(j < i)
      BY <2>1, <3>1, <3>2, <3>4
    <3> QED
      BY <1>2, <3>5
  <2> HIDE DEF syms
  <2> QED
    BY <1>7, <2>1 DEF IsInjective
<1> QED
  BY <1>7, <1>8, <1>9 DEF Ascending, S

LEMMA SaidOfWritten ==
    ASSUME NEW v, IsVals(v)
    PROVE  Written(v) \in Seq(Line) /\ Said(<<Written(v)>>) = v
<1> DEFINE syms == Sorted(SetToSeq(DOMAIN v), SymbolOrder)
           lines == Written(v)
           n == Len(syms)
<1>1. syms \in Seq(DOMAIN v) /\ ToSet(syms) = DOMAIN v /\ IsInjective(syms)
  BY SymbolsOf
<1>2. lines = [k \in DOMAIN syms |->
                  IF v[syms[k]] = "n" THEN [form |-> "off", sym |-> syms[k]]
                  ELSE [form |-> "set", sym |-> syms[k], val |-> v[syms[k]]]]
  BY DEF Written, SymbolOrder
<1> HIDE DEF syms, lines
<1>3. n \in Nat /\ DOMAIN syms = 1..n
  BY <1>1
<1>4. ASSUME NEW k \in 1..n
      PROVE  /\ syms[k] \in DOMAIN v /\ syms[k] \in Symbols /\ v[syms[k]] \in Values
             /\ lines[k] \in Line /\ ValueOf(lines[k]) = v[syms[k]]
             /\ \A s : Names(lines[k], s) <=> s = syms[k]
  <2>1. syms[k] \in DOMAIN v /\ syms[k] \in Symbols /\ v[syms[k]] \in Values
    BY <1>1, <1>3 DEF IsVals
  <2>2. CASE v[syms[k]] = "n"
    <3>1. lines[k] = [form |-> "off", sym |-> syms[k]]
      BY <1>2, <1>3, <2>2
    <3> QED
      BY <2>1, <2>2, <3>1 DEF Line, ValueOf, Names
  <2>3. CASE v[syms[k]] # "n"
    <3>1. lines[k] = [form |-> "set", sym |-> syms[k], val |-> v[syms[k]]]
      BY <1>2, <1>3, <2>3
    <3> QED
      BY <2>1, <2>3, <3>1 DEF Line, ValueOf, Names
  <2> QED
    BY <2>2, <2>3
<1>5. lines \in Seq(Line) /\ Len(lines) = n
  BY <1>2, <1>3, <1>4
<1>6. FlattenSeq(<<lines>>) = lines
  <2> DEFINE one == <<lines>>
  <2>1. one \in Seq(Seq(Line)) /\ 1 \in 1..Len(one) /\ one[1] = lines /\ Len(one) = 1
    BY <1>5
  <2> HIDE DEF one
  <2>2. FlattenSeq(First(one, 1)) = FlattenSeq(First(one, 1 - 1)) \o lines
    BY <2>1, FlattenStep
  <2>3. First(one, 1) = one
    BY <2>1, FirstAll
  <2>4. First(one, 1 - 1) = <<>>
    BY DEF First
  <2>5. <<>> \o lines = lines
    BY <1>5
  <2> QED
    BY <2>2, <2>3, <2>4, <2>5, FlattenEmpty DEF one
<1>7. Tells(v, lines, n)
  <2>1. ASSUME NEW j \in 1..n, NEW s \in Symbols, Names(lines[j], s)
        PROVE  s \in DOMAIN v
    BY <1>4, <2>1
  <2>2. ASSUME NEW s \in DOMAIN v
        PROVE  \E j \in 1..n : /\ Names(lines[j], s) /\ v[s] = ValueOf(lines[j])
                               /\ \A i \in 1..n : Names(lines[i], s) => i <= j
    <3>1. PICK j \in 1..n : syms[j] = s
      BY <1>1, <1>3 DEF ToSet
    <3>2. \A i \in 1..n : Names(lines[i], s) => i = j
      BY <1>1, <1>3, <1>4, <3>1 DEF IsInjective
    <3> QED
      BY <1>3, <1>4, <3>1, <3>2
  <2> QED
    BY <2>1, <2>2 DEF Tells
<1> DEFINE fragments == <<lines>>
<1>8. FlattenSeq(fragments) \in Seq(Line)
      /\ Tells(v, FlattenSeq(fragments), Len(FlattenSeq(fragments)))
  BY <1>5, <1>6, <1>7
<1> HIDE DEF fragments
<1>9. Said(fragments) = v
  BY <1>8, SaidIs
<1> QED
  BY <1>5, <1>9 DEF lines, fragments

\* What a merge writes is what the fragments say.
LEMMA MergeSays ==
    ASSUME NEW fragments \in Seq(Seq(Line))
    PROVE  /\ IsVals(Said(fragments))
           /\ MergeConfig(fragments) = Written(Said(fragments))
<1> DEFINE lines == FlattenSeq(fragments)
           v == FoldLeft(Apply, NoVals, lines)
<1>1. lines \in Seq(Line)
  BY FlattenPlaces
<1>2. Tells(v, lines, Len(lines))
  BY <1>1, FoldTells
<1> HIDE DEF v
<1>3. Said(fragments) = v
  BY <1>1, <1>2, SaidIs
<1>4. MergeConfig(fragments) = Written(v)
  BY DEF MergeConfig, v
<1> QED
  BY <1>2, <1>3, <1>4 DEF Tells

-----------------------------------------------------------------------------
(* The invariants. *)

\* A process that resolved has written down what the fragments it read say.
Resolved == /\ DOMAIN said = Procs
            /\ \A p \in Procs : IsVals(said[p]) /\ merged[p] = Written(said[p])

\* A process that looks up knows the name it was given, and its compiler is
\* the VM's or an older one.
Asked == \A p \in Procs :
    /\ pc[p] \in Working \cup {"hit", "built", "notBuilt"} => want[p] \in DOMAIN Kernels
    /\ tool[p] # Silent => tool[p] <= clang

\* The key of an entry is that of what its kernel was made of.
Honest == \A e \in cache :
    \E t \in Majors \cup {Silent} :
       /\ e.key = CacheKey(Kernels[e.name].ref, Kernels[e.name].arch, t, e.config)
       /\ t # Silent => e.clang >= t

\* Who was told that its kernel is in the cache finds it there.
Kept == \A p \in Procs : pc[p] \in {"hit", "built"} => \E e \in cache : e.key = Key(p)

IInv == TypeOK /\ Resolved /\ Asked /\ Honest /\ Kept

LEMMA NoValsWritten == IsVals(NoVals) /\ Written(NoVals) = <<>>
<1> DEFINE syms == Sorted(SetToSeq(DOMAIN NoVals), SymbolOrder)
<1>1. IsVals(NoVals) /\ DOMAIN NoVals = {}
  BY FS_EmptySet DEF IsVals, NoVals
<1>2. syms \in Seq({})
  BY <1>1, SymbolsOf
<1>3. DOMAIN syms = {}
  BY <1>2
<1>4. Written(NoVals) = [k \in DOMAIN syms |->
             IF NoVals[syms[k]] = "n" THEN [form |-> "off", sym |-> syms[k]]
             ELSE [form |-> "set", sym |-> syms[k], val |-> NoVals[syms[k]]]]
  BY DEF Written, SymbolOrder
<1> HIDE DEF syms
<1> QED
  BY <1>1, <1>3, <1>4

LEMMA Initially == Init => IInv
<1> SUFFICES ASSUME Init
             PROVE  IInv
  OBVIOUS
<1> USE DEF Init
<1>1. TypeOK
  <2>1. [p \in Procs |-> <<>>] \in [Procs -> Seq(Line)]
    OBVIOUS
  <2> QED
    BY <2>1 DEF TypeOK
<1>2. Resolved
  BY NoValsWritten DEF Resolved
<1>3. Asked /\ Honest /\ Kept
  BY DEF Asked, Honest, Kept, Working
<1> QED
  BY <1>1, <1>2, <1>3 DEF IInv

\* A step that leaves what p asked alone leaves its key.
LEMMA SameKey ==
    ASSUME NEW p \in Procs, want'[p] = want[p], merged'[p] = merged[p], tool'[p] = tool[p]
    PROVE  Key(p)' = Key(p)
BY DEF Key, CacheKey

LEMMA TextsRead ==
    ASSUME TypeOK, NEW n \in DOMAIN Kernels,
           NEW texts, texts = [k \in DOMAIN Kernels[n].fragments |-> text[Kernels[n].fragments[k]]],
           Missing \notin ToSet(texts)
    PROVE  texts \in Seq(Seq(Line))
<1> DEFINE paths == Kernels[n].fragments
<1>1. paths \in Seq(Paths)
  BY MatrixAssumption DEF Kernel
<1> HIDE DEF paths
<1>2. ASSUME NEW k \in DOMAIN paths
      PROVE  texts[k] \in Seq(Line)
  <2>1. texts[k] = text[paths[k]] /\ texts[k] # Missing /\ paths[k] \in Paths
    BY <1>1 DEF paths, ToSet
  <2> QED
    BY <2>1, MatrixAssumption DEF TypeOK
<1>3. DOMAIN paths = 1..Len(paths) /\ Len(paths) \in Nat
  BY <1>1
<1>4. texts \in [1..Len(paths) -> Seq(Line)]
  BY <1>2, <1>3 DEF paths
<1> QED
  BY <1>3, <1>4, IsASequence

\* A key tells what it is made of: the hash of the model has no collisions.
LEMMA KeyTells ==
    ASSUME NEW a, NEW b, NEW c, NEW d, NEW e, NEW f, NEW g, NEW h,
           CacheKey(a, b, c, d) = CacheKey(e, f, g, h)
    PROVE  a = e /\ b = f /\ c = g /\ d = h
BY DEF CacheKey

-----------------------------------------------------------------------------
(* The steps keep them. *)

LEMMA AskStep ==
    ASSUME IInv, NEW p \in Procs, NEW n \in DOMAIN Kernels \cup {Unlisted}, Ask(p, n)
    PROVE  IInv'
<1> USE DEF IInv, Ask, To
<1>1. TypeOK'
  BY DEF TypeOK, Working, Returned
<1>2. Resolved'
  BY DEF Resolved
<1>3. Asked'
  <2> SUFFICES ASSUME NEW q \in Procs
               PROVE  /\ pc'[q] \in Working \cup {"hit", "built", "notBuilt"} =>
                            want'[q] \in DOMAIN Kernels
                      /\ tool'[q] # Silent => tool'[q] <= clang'
    BY DEF Asked
  <2>1. CASE q = p
    BY <2>1 DEF Asked, TypeOK, Working
  <2>2. CASE q # p
    BY <2>2 DEF Asked, TypeOK
  <2> QED
    BY <2>1, <2>2
<1>4. Honest'
  BY DEF Honest
<1>5. Kept'
  <2> SUFFICES ASSUME NEW q \in Procs, pc'[q] \in {"hit", "built"}
               PROVE  \E e \in cache' : e.key = Key(q)'
    BY DEF Kept
  <2>1. q # p /\ pc'[q] = pc[q] /\ want'[q] = want[q]
    BY DEF TypeOK
  <2> QED
    BY <2>1, SameKey DEF Kept
<1> QED
  BY <1>1, <1>2, <1>3, <1>4, <1>5

LEMMA ResolveConfigStep ==
    ASSUME IInv, NEW p \in Procs, ResolveConfig(p)
    PROVE  IInv'
<1> DEFINE paths == Kernels[want[p]].fragments
           texts == [k \in DOMAIN paths |-> text[paths[k]]]
<1>1. want[p] \in DOMAIN Kernels /\ pc[p] = "resolve"
  BY DEF IInv, Asked, ResolveConfig, Working
<1>2. CASE Missing \in ToSet(texts)
  <2>1. pc' = [pc EXCEPT ![p] = "failed"]
        /\ UNCHANGED <<text, clang, cache, want, merged, tool, said>>
    BY <1>2 DEF ResolveConfig, To
  <2>2. TypeOK'
    BY <2>1 DEF IInv, TypeOK, Returned
  <2>3. Resolved' /\ Honest'
    BY <2>1 DEF IInv, Resolved, Honest
  <2>4. Asked'
    BY <2>1 DEF IInv, Asked, TypeOK, Working
  <2>5. Kept'
    BY <2>1, SameKey DEF IInv, Kept, TypeOK
  <2> QED
    BY <2>2, <2>3, <2>4, <2>5 DEF IInv
<1>3. CASE Missing \notin ToSet(texts)
  <2>1. /\ pc' = [pc EXCEPT ![p] = "toolchain"]
        /\ merged' = [merged EXCEPT ![p] = MergeConfig(texts)]
        /\ said' = [said EXCEPT ![p] = Said(texts)]
        /\ UNCHANGED <<text, clang, cache, want, tool>>
    BY <1>3 DEF ResolveConfig, To
  <2>2. texts \in Seq(Seq(Line))
    BY <1>1, <1>3, TextsRead DEF IInv
  <2>3. /\ IsVals(Said(texts)) /\ MergeConfig(texts) = Written(Said(texts))
        /\ MergeConfig(texts) \in Seq(Line)
    BY <2>2, MergeSays, SaidOfWritten
  <2> HIDE DEF texts
  <2>4. TypeOK'
    BY <2>1, <2>3 DEF IInv, TypeOK, Working
  <2>5. Resolved'
    <3> SUFFICES ASSUME NEW q \in Procs
                 PROVE  IsVals(said'[q]) /\ merged'[q] = Written(said'[q])
      BY <2>1 DEF IInv, Resolved, IsVals, Written
    <3>1. q = p => said'[q] = Said(texts) /\ merged'[q] = MergeConfig(texts)
      BY <1>3, <2>1, <2>3 DEF IInv, TypeOK, Resolved, ResolveConfig, texts
    <3>2. q # p => said'[q] = said[q] /\ merged'[q] = merged[q]
      BY <2>1 DEF IInv, TypeOK
    <3> QED
      BY <2>3, <3>1, <3>2 DEF IInv, Resolved
  <2>6. Asked' /\ Honest'
    BY <1>1, <2>1 DEF IInv, Asked, Honest, TypeOK, Working
  <2>7. Kept'
    <3> SUFFICES ASSUME NEW q \in Procs, pc'[q] \in {"hit", "built"}
                 PROVE  \E e \in cache' : e.key = Key(q)'
      BY DEF Kept
    <3>1. q # p /\ pc'[q] = pc[q] /\ merged'[q] = merged[q]
      BY <2>1 DEF IInv, TypeOK
    <3> QED
      BY <2>1, <3>1, SameKey DEF IInv, Kept
  <2> QED
    BY <2>4, <2>5, <2>6, <2>7 DEF IInv
<1> QED
  BY <1>2, <1>3

LEMMA ToolchainIDStep ==
    ASSUME IInv, NEW p \in Procs, ToolchainID(p)
    PROVE  IInv'
<1>1. PICK t \in {clang, Silent} : tool' = [tool EXCEPT ![p] = t]
  BY DEF ToolchainID
<1>2. /\ pc[p] = "toolchain" /\ pc' = [pc EXCEPT ![p] = "lookup"]
      /\ UNCHANGED <<text, clang, cache, want, merged, said>>
  BY DEF ToolchainID, To
<1>3. TypeOK'
  BY <1>1, <1>2 DEF IInv, TypeOK, Working
<1>4. Resolved' /\ Honest'
  BY <1>2 DEF IInv, Resolved, Honest
<1>5. Asked'
  <2>1. clang \in Nat /\ Silent \notin Nat
    BY MatrixAssumption DEF IInv, TypeOK
  <2>2. \A q \in Procs : tool'[q] = IF q = p THEN t ELSE tool[q]
    BY <1>1 DEF IInv, TypeOK
  <2>3. \A q \in Procs : tool'[q] # Silent => tool'[q] <= clang'
    BY <1>2, <2>1, <2>2 DEF IInv, Asked
  <2>4. \A q \in Procs : pc'[q] \in Working \cup {"hit", "built", "notBuilt"} =>
                            want'[q] \in DOMAIN Kernels
    BY <1>2 DEF IInv, Asked, TypeOK, Working
  <2> QED
    BY <2>3, <2>4 DEF Asked
<1>6. Kept'
  <2> SUFFICES ASSUME NEW q \in Procs, pc'[q] \in {"hit", "built"}
               PROVE  \E e \in cache' : e.key = Key(q)'
    BY DEF Kept
  <2>1. q # p /\ pc'[q] = pc[q] /\ tool'[q] = tool[q]
    BY <1>1, <1>2 DEF IInv, TypeOK
  <2> QED
    BY <1>2, <2>1, SameKey DEF IInv, Kept
<1> QED
  BY <1>3, <1>4, <1>5, <1>6 DEF IInv

LEMMA LookUpStep ==
    ASSUME IInv, NEW p \in Procs, LookUp(p)
    PROVE  IInv'
<1>1. /\ pc[p] = "lookup"
      /\ UNCHANGED <<text, clang, cache, want, merged, tool, said>>
  BY DEF LookUp, asking
<1>2. PICK to \in {"hit", "build", "notBuilt"} :
         /\ pc' = [pc EXCEPT ![p] = to]
         /\ to = "hit" => \E e \in cache : e.key = Key(p)
  BY DEF LookUp, To
<1>3. TypeOK'
  BY <1>1, <1>2 DEF IInv, TypeOK, Working, Returned
<1>4. Resolved' /\ Honest'
  BY <1>1 DEF IInv, Resolved, Honest
<1>5. Asked'
  BY <1>1, <1>2 DEF IInv, Asked, TypeOK, Working
<1>6. Kept'
  <2> SUFFICES ASSUME NEW q \in Procs, pc'[q] \in {"hit", "built"}
               PROVE  \E e \in cache' : e.key = Key(q)'
    BY DEF Kept
  <2>1. Key(q)' = Key(q)
    BY <1>1, SameKey
  <2>2. \E e \in cache : e.key = Key(q)
    BY <1>2 DEF IInv, Kept, TypeOK
  <2> QED
    BY <1>1, <2>1, <2>2
<1> QED
  BY <1>3, <1>4, <1>5, <1>6 DEF IInv

LEMMA BuildStep ==
    ASSUME IInv, NEW p \in Procs, Build(p)
    PROVE  IInv'
<1>1. /\ pc[p] = "build" /\ pc' = [pc EXCEPT ![p] = "built"]
      /\ cache' = {e \in cache : e.key # Key(p)} \cup {Entry(p)}
      /\ UNCHANGED <<text, clang, want, merged, tool, said>>
  BY DEF Build, To, asking
<1>2. want[p] \in DOMAIN Kernels
  BY <1>1 DEF IInv, Asked, Working
<1>3. /\ Entry(p).key = Key(p) /\ Entry(p).name = want[p]
      /\ Entry(p).config = merged[p] /\ Entry(p).clang = clang
  BY DEF Entry
<1>4. TypeOK'
  BY <1>1, <1>2, <1>3 DEF IInv, TypeOK, Working, Returned
<1>5. Resolved'
  BY <1>1 DEF IInv, Resolved
<1>6. Asked'
  BY <1>1, <1>2 DEF IInv, Asked, TypeOK, Working
<1>7. Honest'
  <2> SUFFICES ASSUME NEW e \in cache'
               PROVE  \E t \in Majors \cup {Silent} :
                         /\ e.key = CacheKey(Kernels[e.name].ref, Kernels[e.name].arch,
                                             t, e.config)
                         /\ t # Silent => e.clang >= t
    BY DEF Honest
  <2>1. CASE e \in cache
    BY <2>1 DEF IInv, Honest
  <2>2. CASE e = Entry(p)
    <3>1. tool[p] \in Majors \cup {Silent} /\ clang \in Nat /\ Majors \subseteq Nat
      BY MatrixAssumption DEF IInv, TypeOK
    <3>2. tool[p] # Silent => clang >= tool[p]
      BY <3>1 DEF IInv, Asked
    <3>3. Key(p) = CacheKey(Kernels[want[p]].ref, Kernels[want[p]].arch, tool[p], merged[p])
      BY DEF Key
    <3> QED
      BY <1>3, <2>2, <3>1, <3>2, <3>3
  <2> QED
    BY <1>1, <2>1, <2>2
<1>8. Kept'
  <2> SUFFICES ASSUME NEW q \in Procs, pc'[q] \in {"hit", "built"}
               PROVE  \E e \in cache' : e.key = Key(q)'
    BY DEF Kept
  <2>1. Key(q)' = Key(q)
    BY <1>1, SameKey
  <2>2. CASE Key(q) = Key(p)
    BY <1>1, <1>3, <2>1, <2>2
  <2>3. CASE Key(q) # Key(p)
    <3>1. pc[q] \in {"hit", "built"}
      BY <1>1, <2>3 DEF IInv, TypeOK
    <3>2. PICK e \in cache : e.key = Key(q)
      BY <3>1 DEF IInv, Kept
    <3>3. e \in cache'
      BY <1>1, <2>3, <3>2
    <3> QED
      BY <2>1, <3>2, <3>3
  <2> QED
    BY <2>2, <2>3
<1> QED
  BY <1>4, <1>5, <1>6, <1>7, <1>8 DEF IInv

LEMMA FailBuildStep ==
    ASSUME IInv, NEW p \in Procs, FailBuild(p)
    PROVE  IInv'
<1>1. /\ pc' = [pc EXCEPT ![p] = "failed"]
      /\ UNCHANGED <<text, clang, cache, want, merged, tool, said>>
  BY DEF FailBuild, To, asking
<1>2. TypeOK'
  BY <1>1 DEF IInv, TypeOK, Returned
<1>3. Resolved' /\ Honest'
  BY <1>1 DEF IInv, Resolved, Honest
<1>4. Asked'
  BY <1>1 DEF IInv, Asked, TypeOK, Working
<1>5. Kept'
  BY <1>1, SameKey DEF IInv, Kept, TypeOK
<1> QED
  BY <1>2, <1>3, <1>4, <1>5 DEF IInv

LEMMA ReturnStep ==
    ASSUME IInv, NEW p \in Procs, Return(p)
    PROVE  IInv'
<1>1. /\ pc' = [pc EXCEPT ![p] = "new"] /\ want' = [want EXCEPT ![p] = Unlisted]
      /\ merged' = [merged EXCEPT ![p] = <<>>] /\ tool' = [tool EXCEPT ![p] = Silent]
      /\ said' = [said EXCEPT ![p] = NoVals]
      /\ UNCHANGED <<text, clang, cache>>
  BY DEF Return, To
<1>2. \A q \in Procs \ {p} : /\ pc'[q] = pc[q] /\ want'[q] = want[q] /\ tool'[q] = tool[q]
                             /\ merged'[q] = merged[q] /\ said'[q] = said[q]
  BY <1>1 DEF IInv, TypeOK, Resolved
<1>3. /\ pc'[p] = "new" /\ tool'[p] = Silent /\ merged'[p] = <<>> /\ said'[p] = NoVals
  BY <1>1 DEF IInv, TypeOK, Resolved
<1>4. TypeOK'
  <2>1. <<>> \in Seq(Line)
    OBVIOUS
  <2> QED
    BY <1>1, <2>1 DEF IInv, TypeOK
<1>5. Resolved'
  BY <1>1, <1>2, <1>3, NoValsWritten DEF IInv, Resolved
<1>6. Asked'
  BY <1>1, <1>2, <1>3 DEF IInv, Asked, Working
<1>7. Honest'
  BY <1>1 DEF IInv, Honest
<1>8. Kept'
  BY <1>1, <1>2, <1>3, SameKey DEF IInv, Kept
<1> QED
  BY <1>4, <1>5, <1>6, <1>7, <1>8 DEF IInv

LEMMA SurroundingsStep ==
    ASSUME IInv, Upgrade \/ \E f \in Paths : Edit(f)
    PROVE  IInv'
<1>1. /\ UNCHANGED <<cache, pc, want, merged, tool, said>>
      /\ clang' \in Majors /\ clang' >= clang
      /\ text' \in [Paths -> Texts \cup {Missing}]
  BY MatrixAssumption DEF Upgrade, Edit, asking, IInv, TypeOK
<1>2. TypeOK'
  BY <1>1 DEF IInv, TypeOK
<1>3. Resolved' /\ Honest'
  BY <1>1 DEF IInv, Resolved, Honest
<1>4. Asked'
  <2>1. /\ Majors \subseteq Nat
        /\ \A q \in Procs : tool[q] \in Majors \cup {Silent}
    BY MatrixAssumption DEF IInv, TypeOK
  <2>2. clang \in Nat /\ clang' \in Nat /\ clang' >= clang
    BY <1>1, <2>1 DEF IInv, TypeOK
  <2>3. \A q \in Procs : /\ tool[q] # Silent => tool[q] <= clang
                         /\ tool[q] # Silent => tool[q] \in Nat
    BY <2>1 DEF IInv, Asked
  <2>4. \A k \in Nat : k <= clang => k <= clang'
    BY <2>2
  <2>5. \A q \in Procs : tool[q] # Silent => tool[q] <= clang'
    BY <2>3, <2>4
  <2> QED
    BY <1>1, <2>5 DEF IInv, Asked
<1>5. Kept'
  BY <1>1, SameKey DEF IInv, Kept
<1> QED
  BY <1>2, <1>3, <1>4, <1>5 DEF IInv

LEMMA StepKeeps == IInv /\ [Next]_vars => IInv'
<1> SUFFICES ASSUME IInv, [Next]_vars
             PROVE  IInv'
  OBVIOUS
<1>1. CASE UNCHANGED vars
  BY <1>1, SameKey DEF vars, asking, IInv, TypeOK, Resolved, Asked, Honest, Kept
<1>2. CASE Next
  BY <1>2, AskStep, ResolveConfigStep, ToolchainIDStep, LookUpStep, BuildStep,
     FailBuildStep, ReturnStep, SurroundingsStep DEF Next
<1> QED
  BY <1>1, <1>2

THEOREM Invariance == Spec => []IInv
BY Initially, StepKeeps, PTL DEF Spec

-----------------------------------------------------------------------------
(* The theorems. *)

\* Types: what is merged is a sequence of config lines, whatever the fragments.
THEOREM Typing == Spec => []TypeOK
<1>1. IInv => TypeOK
  BY DEF IInv
<1> QED
  BY <1>1, Invariance, PTL

\* What a process resolved means what its fragments say, so that equal texts
\* mean the same (MergeConfig) and different ones do not.
THEOREM MergedMeansSaid == Spec => []SameKeySameMeaning
<1>1. IInv => SameKeySameMeaning
  <2> SUFFICES ASSUME IInv, NEW p \in Procs, NEW q \in Procs
               PROVE  merged[p] = merged[q] <=> said[p] = said[q]
    BY DEF SameKeySameMeaning
  <2>1. /\ merged[p] = Written(said[p]) /\ merged[q] = Written(said[q])
        /\ IsVals(said[p]) /\ IsVals(said[q])
    BY DEF IInv, Resolved
  <2>2. Said(<<merged[p]>>) = said[p] /\ Said(<<merged[q]>>) = said[q]
    BY <2>1, SaidOfWritten
  <2>3. merged[p] = merged[q] => said[p] = said[q]
    <3> HIDE DEF IInv
    <3> QED
      BY <2>2
  <2> QED
    BY <2>1, <2>3
<1> QED
  BY <1>1, Invariance, PTL

\* A hit or a build (cmdUp, cmdKernelBuild) returns a kernel of the ref, the
\* architecture and the configuration the process asked for.
THEOREM GetsWhatWasRead == Spec => []GetsWhatItRead
<1>1. IInv => GetsWhatItRead
  <2> SUFFICES ASSUME IInv, NEW p \in Procs, NEW e \in cache, e.key = Key(p)
               PROVE  /\ Kernels[e.name].ref = Kernels[want[p]].ref
                      /\ Kernels[e.name].arch = Kernels[want[p]].arch
                      /\ Said(<<e.config>>) = said[p]
    BY DEF GetsWhatItRead
  <2>1. PICK t \in Majors \cup {Silent} :
           e.key = CacheKey(Kernels[e.name].ref, Kernels[e.name].arch, t, e.config)
    BY DEF IInv, Honest
  <2>2. Key(p) = CacheKey(Kernels[want[p]].ref, Kernels[want[p]].arch, tool[p], merged[p])
    BY DEF Key
  <2>3. /\ Kernels[e.name].ref = Kernels[want[p]].ref
        /\ Kernels[e.name].arch = Kernels[want[p]].arch
        /\ e.config = merged[p]
    <3>1. CacheKey(Kernels[e.name].ref, Kernels[e.name].arch, t, e.config)
          = CacheKey(Kernels[want[p]].ref, Kernels[want[p]].arch, tool[p], merged[p])
      BY <2>1, <2>2
    <3> QED
      BY <3>1, KeyTells
  <2> QED
    BY <2>3, SaidOfWritten DEF IInv, Resolved
<1> QED
  BY <1>1, Invariance, PTL

\* The toolchain in the key keeps out what an older compiler built.
THEOREM NoOlderCompiler == Spec => []NeverOlderCompiler
<1>1. IInv => NeverOlderCompiler
  <2> SUFFICES ASSUME IInv, NEW p \in Procs, tool[p] # Silent,
                      NEW e \in cache, e.key = Key(p)
               PROVE  e.clang >= tool[p]
    BY DEF NeverOlderCompiler
  <2>1. PICK t \in Majors \cup {Silent} :
           /\ e.key = CacheKey(Kernels[e.name].ref, Kernels[e.name].arch, t, e.config)
           /\ t # Silent => e.clang >= t
    BY DEF IInv, Honest
  <2>2. Key(p) = CacheKey(Kernels[want[p]].ref, Kernels[want[p]].arch, tool[p], merged[p])
    BY DEF Key
  <2>3. t = tool[p]
    <3>1. CacheKey(Kernels[e.name].ref, Kernels[e.name].arch, t, e.config)
          = CacheKey(Kernels[want[p]].ref, Kernels[want[p]].arch, tool[p], merged[p])
      BY <2>1, <2>2
    <3> QED
      BY <3>1, KeyTells
  <2> QED
    BY <2>1, <2>3
<1> QED
  BY <1>1, Invariance, PTL

\* After "klab kernel build", "klab up" that reads the same finds the kernel.
THEOREM BuildMakesUpFind == Spec => BuiltIsFound
<1> DEFINE Finds == \A p, q \in Procs :
              /\ pc[q] \in {"hit", "built"} /\ pc[p] = "lookup" /\ pc'[p] # "lookup"
              /\ want[p] = want[q] /\ tool[p] = tool[q] /\ said[p] = said[q]
              => pc'[p] = "hit"
<1>1. IInv /\ [Next]_vars => [Finds]_vars
  <2> SUFFICES ASSUME IInv, Next, NEW p \in Procs, NEW q \in Procs,
                      pc[q] \in {"hit", "built"}, pc[p] = "lookup", pc'[p] # "lookup",
                      want[p] = want[q], tool[p] = tool[q], said[p] = said[q]
               PROVE  pc'[p] = "hit"
    OBVIOUS
  <2>1. Key(p) = Key(q)
    BY DEF IInv, Resolved, Key
  <2>2. \E e \in cache : e.key = Key(p)
    BY <2>1 DEF IInv, Kept
  <2>3. LookUp(p)
    <3>1. PICK r \in Procs :
             \/ \E n \in DOMAIN Kernels \cup {Unlisted} : Ask(r, n)
             \/ ResolveConfig(r) \/ ToolchainID(r) \/ LookUp(r)
             \/ Build(r) \/ FailBuild(r) \/ Return(r)
      BY DEF Next, Edit, Upgrade
    <3>2. pc' # pc => pc[r] # "lookup" \/ LookUp(r)
      BY <3>1 DEF Ask, ResolveConfig, ToolchainID, Build, FailBuild, Return, Returned
    <3>3. \A o \in Procs \ {r} : pc'[o] = pc[o]
      BY <3>1 DEF Ask, ResolveConfig, ToolchainID, LookUp, Build, FailBuild, Return, To,
         IInv, TypeOK
    <3> QED
      BY <3>2, <3>3
  <2> QED
    BY <2>2, <2>3 DEF LookUp, To, IInv, TypeOK
<1> QED
  BY <1>1, Invariance, PTL DEF Spec, BuiltIsFound
=============================================================================
