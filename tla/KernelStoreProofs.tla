------------------------- MODULE KernelStoreProofs -------------------------
(***************************************************************************)
(* Proofs about KernelStore, for any number of jobs, kernels, versions and *)
(* architectures: what the cache returns some Get completed, and it is the *)
(* kernel that was asked for as long as no two jobs worked on one version  *)
(* at the same time.                                                       *)
(*                                                                         *)
(* A version is calm until two jobs work on it.  On a calm version a job   *)
(* that builds is the only one that does, so each step finds what the one  *)
(* before it left, and a job that returned finds its entry untouched: who  *)
(* builds a key found no artifact.json for it.                             *)
(***************************************************************************)
EXTENDS KernelStore, TLAPS

\* The kernels that share a cache entry do not differ in their base config,
\* which the key leaves out.
KeysTellBases == \A k, l \in Specs : Key(k) = Key(l) => k.base = l.base

Calm(j) == Ver(j) \notin crowded

\* What a step of the script takes from the one before has the right type.
Prepared ==
    \A j \in Jobs :
        /\ pc[j] \in {"fragment", "merge", "make"} => dotConfig[Tree(j)] \in Made
        /\ pc[j] = "merge" => fragment[Tree(j)] \in Configs
TypeInv == TypeOK /\ Prepared

\* A hit is on an entry that is marked, and marks come from jobs that return; what
\* is torn some job is writing or was when it ended.
Marked ==
    /\ \A k \in Keys : meta[k] = "whole" => \E i \in Jobs : pc[i] = "built" /\ Entry(i) = k
    /\ \A k \in Keys : files[k] = Torn =>
          \E i \in Jobs : pc[i] \in {"copying", "failed", "killed"} /\ Entry(i) = k
    /\ HitWasBuilt

\* On a calm version one job works, ...
Solo ==
    /\ \A i, j \in Jobs : /\ i # j /\ pc[i] \in Building /\ pc[j] \in Building
                          /\ Ver(i) = Ver(j)
                          => ~Calm(i)
    /\ \A j \in spoiled : ~Calm(j)

\* ... what it extracts is complete, ...
Extracted ==
    /\ \A j \in Jobs : pc[j] = "move" /\ Calm(j) => tmp[Ver(j)] = "whole"
    /\ TreesAreWhole

\* ... and it makes what it was asked for, in an entry nobody else looks at.
Makes(j) ==
    /\ pc[j] \in {"fragment", "merge"} =>
          dotConfig[Tree(j)] = [base |-> spec[j].base, configs |-> {}]
    /\ pc[j] = "merge" => fragment[Tree(j)] = spec[j].config
    /\ pc[j] = "make" => dotConfig[Tree(j)] = Asked(spec[j])
    /\ pc[j] \in {"copy", "copying"} => object[Tree(j)] = Asked(spec[j])
    /\ pc[j] \in {"mark", "marking"} => files[Entry(j)] = Asked(spec[j])
    /\ pc[j] \in InScript \cup {"mark"} => meta[Entry(j)] = "absent"
    /\ pc[j] \in {"hit", "built"} => meta[Entry(j)] = "whole"
    /\ meta[Entry(j)] # "absent" => files[Entry(j)] = Asked(spec[j])
Right == \A j \in Jobs : Calm(j) => Makes(j)

Step(j) == GetStep(j) \/ SourceStep(j) \/ BuildStep(j) \/ FailScript(j) \/ Kill(j)

USE DEF sources, trees, cache

-----------------------------------------------------------------------------
(* Type correctness. *)

\* Everything a job's spec leads to is in the range it should be in.
LEMMA SpecOf ==
    ASSUME TypeOK, NEW j \in Jobs
    PROVE  /\ spec[j] \in Kernel /\ Ver(j) \in Versions
           /\ Tree(j) \in Trees /\ Tree(j)[1] = Ver(j) /\ Entry(j) \in Keys
           /\ spec[j].base \in Bases /\ spec[j].config \in Configs
  <1>1. spec[j] \in Specs /\ spec[j] \in Kernel
    BY StoreAssumption DEF TypeOK
  <1> QED
    BY <1>1 DEF Kernel, Ver, Tree, TreeOf, Trees, Entry, Keys

LEMMA TypeInit == Init => TypeInv
  BY DEF Init, TypeInv, TypeOK, Prepared, Extent, Made, Nothing

LEMMA TypeGet ==
    ASSUME TypeInv, NEW j \in Jobs, GetStep(j) \/ FailScript(j) \/ Kill(j)
    PROVE  TypeInv'
  <1> USE DEF TypeInv, TypeOK, Prepared, To, Tree, Failed
  <1>1. Ver(j) \in Versions /\ Entry(j) \in Keys
    BY SpecOf
  <1>2. CASE Begin(j)
    BY <1>2 DEF Begin
  <1>3. CASE Found(j)
    BY <1>3 DEF Found, Returned
  <1>4. CASE NotFound(j)
    BY <1>4, <1>1 DEF NotFound, Returned, Building, InScript
  <1>5. CASE MarkBegin(j)
    BY <1>5, <1>1 DEF MarkBegin, Extent, Building
  <1>6. CASE MarkEnd(j)
    BY <1>6, <1>1 DEF MarkEnd, Extent, Returned
  <1>7. CASE FailScript(j)
    BY <1>7 DEF FailScript, Returned
  <1>8. CASE Kill(j)
    BY <1>8 DEF Kill, Returned
  <1> QED
    BY <1>2, <1>3, <1>4, <1>5, <1>6, <1>7, <1>8 DEF GetStep

LEMMA TypeSource ==
    ASSUME TypeInv, NEW j \in Jobs, SourceStep(j)
    PROVE  TypeInv'
  <1> USE DEF TypeInv, TypeOK, Prepared, To, Tree, Failed, At, Extent, Building, InScript, Returned
  <1>1. Ver(j) \in Versions /\ TreeOf(spec[j]) \in Trees
    BY SpecOf
  <1>2. CASE CheckTarball(j)
    BY <1>2 DEF CheckTarball
  <1>3. CASE CurlBegin(j)
    BY <1>3, <1>1 DEF CurlBegin
  <1>4. CASE CurlEnd(j)
    BY <1>4, <1>1 DEF CurlEnd
  <1>5. CASE CheckTree(j)
    BY <1>5 DEF CheckTree
  <1>6. CASE RemoveTmp(j)
    BY <1>6, <1>1 DEF RemoveTmp
  <1>7. CASE TarBegin(j)
    BY <1>7, <1>1 DEF TarBegin
  <1>8. CASE TarEnd(j)
    BY <1>8, <1>1 DEF TarEnd
  <1>9. CASE MoveTree(j)
    BY <1>9, <1>1 DEF MoveTree
  <1> QED
    BY <1>2, <1>3, <1>4, <1>5, <1>6, <1>7, <1>8, <1>9, SourceStep(j) DEF SourceStep

LEMMA TypeBuild ==
    ASSUME TypeInv, NEW j \in Jobs, BuildStep(j)
    PROVE  TypeInv'
  <1> USE DEF TypeInv, TypeOK, Prepared, To, Tree, Building, InScript, Returned
  <1>1. /\ TreeOf(spec[j]) \in Trees /\ Entry(j) \in Keys
        /\ spec[j].base \in Bases /\ spec[j].config \in Configs
    BY SpecOf
  <1>2. \A new \in Made :
           /\ pc[j] \in {"configure", "merge"} /\ pc' \in {[pc EXCEPT ![j] = "fragment"],
                                                         [pc EXCEPT ![j] = "make"]}
           /\ dotConfig' = [dotConfig EXCEPT ![Tree(j)] = new]
           /\ UNCHANGED <<spec, orphans, sources, fragment, object, cache, crowded>>
           => TypeInv'
    BY <1>1
  <1>3. CASE Configure(j)
    <2>1. [base |-> spec[j].base, configs |-> {}] \in Made
      BY <1>1 DEF Made
    <2> QED
      BY <1>2, <1>3, <2>1 DEF Configure
  <1>4. CASE WriteFragment(j)
    BY <1>4, <1>1 DEF WriteFragment
  <1>5. CASE MergeFragment(j)
    <2>1. dotConfig[Tree(j)] \in Made /\ fragment[Tree(j)] \in Configs
      BY <1>5 DEF MergeFragment
    <2>2. [dotConfig[Tree(j)] EXCEPT !.configs = @ \cup {fragment[Tree(j)]}] \in Made
      BY <2>1 DEF Made
    <2>3. dotConfig' = [dotConfig EXCEPT ![Tree(j)] =
                 [dotConfig[Tree(j)] EXCEPT !.configs = @ \cup {fragment[Tree(j)]}]]
      BY <1>5 DEF MergeFragment
    <2> QED
      BY <1>2, <1>5, <2>2, <2>3 DEF MergeFragment
  <1>6. CASE MakeImage(j)
    BY <1>6, <1>1 DEF MakeImage
  <1>7. CASE CopyBegin(j)
    BY <1>7, <1>1 DEF CopyBegin
  <1>8. CASE CopyEnd(j)
    BY <1>8, <1>1 DEF CopyEnd
  <1> QED
    BY <1>3, <1>4, <1>5, <1>6, <1>7, <1>8, BuildStep(j) DEF BuildStep

LEMMA TypeStep == TypeInv /\ [Next]_vars => TypeInv'
  <1> SUFFICES ASSUME TypeInv, [Next]_vars PROVE TypeInv'
    OBVIOUS
  <1>1. CASE UNCHANGED vars
    BY <1>1 DEF vars, TypeInv, TypeOK, Prepared, Tree
  <1>2. CASE Next
    BY <1>2, TypeGet, TypeSource, TypeBuild DEF Next
  <1> QED
    BY <1>1, <1>2

\* Every variable of the store keeps its type, whatever jobs do to the files
\* they share.
THEOREM StoreTypeCorrect == Spec => []TypeOK
  <1>1. Spec => []TypeInv
    BY TypeInit, TypeStep, PTL DEF Spec
  <1>2. TypeInv => TypeOK
    BY DEF TypeInv
  <1> QED
    BY <1>1, <1>2, PTL

-----------------------------------------------------------------------------
(* What a step leaves alone. *)

LEMMA Frame ==
    ASSUME TypeInv, NEW j \in Jobs, Step(j)
    PROVE  /\ spec' = spec /\ crowded \subseteq crowded'
           /\ pc[j] \notin Returned
           /\ \A i \in Jobs : i # j => pc'[i] = pc[i]
           /\ pc'[j] \in Building => pc[j] \in Building \/ NotFound(j)
           /\ NotFound(j) /\ pc'[j] \in Building =>
                 \A i \in Jobs : pc[i] \in Building /\ Ver(i) = Ver(j) => Ver(j) \in crowded'
  <1> USE DEF TypeInv, TypeOK, To, Failed, Building, InScript, Returned
  <1>1. CASE GetStep(j)
    BY <1>1, SpecOf DEF GetStep, Begin, Found, NotFound, MarkBegin, MarkEnd
  <1>2. CASE SourceStep(j)
    BY <1>2 DEF SourceStep, CheckTarball, CurlBegin, CurlEnd, CheckTree, RemoveTmp,
                TarBegin, TarEnd, MoveTree, NotFound
  <1>3. CASE BuildStep(j)
    BY <1>3 DEF BuildStep, Configure, WriteFragment, MergeFragment, MakeImage, CopyBegin,
                CopyEnd, NotFound
  <1>4. CASE FailScript(j) \/ Kill(j)
    BY <1>4 DEF FailScript, Kill, NotFound
  <1> QED
    BY <1>1, <1>2, <1>3, <1>4 DEF Step

-----------------------------------------------------------------------------
(* A hit was built. *)

LEMMA MarkedStep ==
    ASSUME TypeInv, Marked, NEW j \in Jobs, Step(j)
    PROVE  Marked'
  <1>1. /\ spec' = spec
        /\ \A i \in Jobs : pc[i] \in Returned => pc'[i] = pc[i]
        /\ \A i \in Jobs : i # j => pc'[i] = pc[i]
    BY Frame
  <1>2. \A i \in Jobs : pc[i] = "built" => pc'[i] = "built"
    BY <1>1 DEF Returned
  <1>3. Entry(j) \in Keys /\ \A i \in Jobs : Entry(i)' = Entry(i)
    BY <1>1, SpecOf DEF TypeInv, Entry
  <1>4. \A k \in Keys : meta'[k] = "whole" =>
           meta[k] = "whole" \/ (k = Entry(j) /\ pc'[j] = "built")
    <2>1. CASE MarkBegin(j)
      BY <2>1 DEF MarkBegin, TypeInv, TypeOK
    <2>2. CASE MarkEnd(j)
      BY <2>2, <1>3 DEF MarkEnd, To, TypeInv, TypeOK
    <2>3. CASE UNCHANGED meta
      BY <2>3
    <2> QED
      BY <2>1, <2>2, <2>3 DEF Step, GetStep, SourceStep, BuildStep, Begin, Found, NotFound,
         CheckTarball, CurlBegin, CurlEnd, CheckTree, RemoveTmp, TarBegin, TarEnd, MoveTree,
         Configure, WriteFragment, MergeFragment, MakeImage, CopyBegin, CopyEnd,
         FailScript, Kill
  <1>5. \A k \in Keys : meta'[k] = "whole" =>
           \E i \in Jobs : pc'[i] = "built" /\ Entry(i)' = k
    BY <1>2, <1>3, <1>4 DEF Marked
  <1>6. pc'[j] = "hit" => pc[j] = "hit" \/ meta[Entry(j)] = "whole"
    <2>1. CASE Found(j)
      BY <2>1, <1>3 DEF Found, Absent, Corrupt, To, TypeInv, TypeOK, Extent
    <2>2. CASE ~Found(j)
      BY <2>2 DEF Step, GetStep, SourceStep, BuildStep, Begin, NotFound, MarkBegin, MarkEnd,
         CheckTarball, CurlBegin, CurlEnd, CheckTree, RemoveTmp, TarBegin, TarEnd, MoveTree,
         Configure, WriteFragment, MergeFragment, MakeImage, CopyBegin, CopyEnd,
         FailScript, Kill, To, Failed, TypeInv, TypeOK
    <2> QED
      BY <2>1, <2>2
  <1>7. \A k \in Keys : files'[k] = Torn =>
           files[k] = Torn \/ (k = Entry(j) /\ pc'[j] = "copying")
    <2>1. CASE CopyBegin(j)
      BY <2>1 DEF CopyBegin, To, TypeInv, TypeOK
    <2>2. CASE CopyEnd(j)
      <3>1. object[Tree(j)] \in Made \cup {Nothing}
        BY SpecOf DEF TypeInv, TypeOK
      <3>2. object[Tree(j)] # Torn
        BY <3>1, StoreAssumption DEF Made, Nothing, Torn
      <3> QED
        BY <2>2, <3>2 DEF CopyEnd, TypeInv, TypeOK
    <2>3. CASE UNCHANGED files
      BY <2>3
    <2> QED
      BY <2>1, <2>2, <2>3 DEF Step, GetStep, SourceStep, BuildStep, Begin, Found, NotFound,
         MarkBegin, MarkEnd, CheckTarball, CurlBegin, CurlEnd, CheckTree, RemoveTmp, TarBegin,
         TarEnd, MoveTree, Configure, WriteFragment, MergeFragment, MakeImage,
         FailScript, Kill
  <1>8. pc[j] = "copying" => \/ pc'[j] \in {"copying", "failed", "killed"}
                             \/ files'[Entry(j)] # Torn
    <2>1. CASE CopyEnd(j)
      <3>1. object[Tree(j)] \in Made \cup {Nothing}
        BY SpecOf DEF TypeInv, TypeOK
      <3>2. object[Tree(j)] # Torn
        BY <3>1, StoreAssumption DEF Made, Nothing, Torn
      <3> QED
        BY <2>1, <3>2, <1>3 DEF CopyEnd, TypeInv, TypeOK
    <2>2. CASE FailScript(j) \/ Kill(j)
      BY <2>2 DEF FailScript, Kill, To, Failed, TypeInv, TypeOK
    <2> QED
      BY <2>1, <2>2 DEF Step, GetStep, SourceStep, BuildStep, Begin, Found, NotFound,
         MarkBegin, MarkEnd, CheckTarball, CurlBegin, CurlEnd, CheckTree, RemoveTmp, TarBegin,
         TarEnd, MoveTree, Configure, WriteFragment, MergeFragment, MakeImage, CopyBegin
  <1>9. \A k \in Keys : files'[k] = Torn =>
           \E i \in Jobs : pc'[i] \in {"copying", "failed", "killed"} /\ Entry(i)' = k
    <2> SUFFICES ASSUME NEW k \in Keys, files'[k] = Torn
                 PROVE  \E i \in Jobs : pc'[i] \in {"copying", "failed", "killed"} /\ Entry(i) = k
      BY <1>3
    <2>1. CASE k = Entry(j) /\ pc'[j] = "copying"
      BY <2>1
    <2>2. CASE files[k] = Torn
      <3> PICK i \in Jobs : pc[i] \in {"copying", "failed", "killed"} /\ Entry(i) = k
        BY <2>2 DEF Marked
      <3> QED
        BY <1>1, <1>8 DEF Returned
    <2> QED
      BY <1>7, <2>1, <2>2
  <1>10. HitWasBuilt'
    <2> SUFFICES ASSUME NEW i \in Jobs, pc'[i] = "hit"
                 PROVE  /\ \E h \in Jobs : pc'[h] = "built" /\ Entry(h)' = Entry(i)'
                        /\ files'[Entry(i)'] = Torn =>
                              \E h \in Jobs : /\ pc'[h] \in {"copying", "failed", "killed"}
                                              /\ Entry(h)' = Entry(i)'
      BY DEF HitWasBuilt
    <2>1. \E h \in Jobs : pc[h] = "built" /\ Entry(h) = Entry(i)
      BY <1>1, <1>3, <1>6 DEF Marked, HitWasBuilt
    <2>2. Entry(i)' \in Keys
      BY <1>1, SpecOf DEF TypeInv, Entry
    <2> QED
      BY <1>2, <1>3, <1>9, <2>1, <2>2
  <1> QED
    BY <1>5, <1>9, <1>10 DEF Marked, Entry

\* No kill, failure or race makes a look-up succeed on an entry that no Get ever
\* completed, and what it finds is torn only by another build of the same entry.
THEOREM StoreHits == Spec => []HitWasBuilt
  <1>1. Init => TypeInv /\ Marked
    <2>1. Nothing # Torn
      <3>1. {} # {Missing}
        OBVIOUS
      <3> QED
        BY <3>1 DEF Nothing, Torn
    <2>2. Init => TypeInv
      BY TypeInit
    <2>3. ASSUME Init PROVE Marked
      <3>1. /\ \A k \in Keys : meta[k] = "absent" /\ files[k] = Nothing
            /\ \A i \in Jobs : pc[i] = "new"
        BY <2>3 DEF Init
      <3> QED
        BY <2>1, <3>1 DEF Marked, HitWasBuilt
    <2> QED
      BY <2>2, <2>3
  <1>2. (TypeInv /\ Marked) /\ [Next]_vars => (TypeInv /\ Marked)'
    <2> SUFFICES ASSUME TypeInv, Marked, [Next]_vars PROVE Marked'
      BY TypeStep
    <2>1. CASE UNCHANGED vars
      BY <2>1 DEF vars, Marked, HitWasBuilt, Entry
    <2>2. CASE Next
      BY <2>2, MarkedStep DEF Next, Step
    <2> QED
      BY <2>1, <2>2
  <1>3. Marked => HitWasBuilt
    BY DEF Marked
  <1> QED
    BY <1>1, <1>2, <1>3, PTL DEF Spec

-----------------------------------------------------------------------------
(* One job at a time works on a calm version. *)

LEMMA SoloStep ==
    ASSUME TypeInv, Solo, NEW j \in Jobs, Step(j)
    PROVE  Solo'
  <1>1. \A i \in Jobs : Ver(i)' = Ver(i) /\ (Calm(i)' => Calm(i))
    BY Frame DEF Ver, Calm
  <1>2. \A i, k \in Jobs : /\ i # k /\ pc'[i] \in Building /\ pc'[k] \in Building
                          /\ Ver(i)' = Ver(k)'
                          => ~Calm(i)'
    <2> SUFFICES ASSUME NEW i \in Jobs, NEW k \in Jobs, i # k, Ver(i) = Ver(k),
                        pc'[i] \in Building, pc'[k] \in Building
                 PROVE  ~Calm(i)'
      BY <1>1
    <2>1. CASE pc[i] \in Building /\ pc[k] \in Building
      BY <2>1, <1>1 DEF Solo
    <2>2. CASE pc[i] \notin Building \/ pc[k] \notin Building
      BY <2>2, <1>1, Frame DEF Calm
    <2> QED
      BY <2>1, <2>2
  <1>3. \A i \in spoiled' : i \in Jobs /\ ~Calm(i)'
    <2>1. \A i \in spoiled' : i \in Jobs
      BY TypeStep DEF TypeInv, TypeOK, Next, Step
    <2>2. \A i \in spoiled' \ spoiled :
             pc[i] \in Building /\ pc[j] \in Building /\ Ver(i) = Ver(j) /\ i # j
      BY DEF Step, GetStep, SourceStep, BuildStep, Begin, Found, NotFound, MarkBegin, MarkEnd,
         CheckTarball, CurlBegin, CurlEnd, CheckTree, RemoveTmp, TarBegin, TarEnd, MoveTree,
         Configure, WriteFragment, MergeFragment, MakeImage, CopyBegin, CopyEnd,
         FailScript, Kill, At, Building, InScript
    <2> QED
      BY <2>1, <2>2, <1>1 DEF Solo
  <1> QED
    BY <1>2, <1>3 DEF Solo, Ver

LEMMA ExtractedStep ==
    ASSUME TypeInv, Solo, Extracted, NEW j \in Jobs, Step(j)
    PROVE  Extracted'
  <1> USE DEF TypeInv, TypeOK
  <1>1. /\ \A i \in Jobs : Ver(i)' = Ver(i) /\ (Calm(i)' => Calm(i))
        /\ crowded \subseteq crowded'
        /\ \A i \in Jobs : i # j => pc'[i] = pc[i]
    BY Frame DEF Ver, Calm
  <1>2. Ver(j) \in Versions /\ Tree(j) \in Trees /\ Tree(j)[1] = Ver(j)
    BY SpecOf
  <1>3. /\ pc'[j] = "move" /\ Calm(j) => tmp'[Ver(j)] = "whole"
        /\ \A v \in Versions : v # Ver(j) \/ pc[j] \notin Building => tmp'[v] = tmp[v]
    <2>1. CASE RemoveTmp(j) \/ TarBegin(j) \/ TarEnd(j) \/ MoveTree(j)
      BY <2>1, <1>2 DEF RemoveTmp, TarBegin, TarEnd, MoveTree, To, Failed, Solo, Building, InScript
    <2>2. CASE ~(RemoveTmp(j) \/ TarBegin(j) \/ TarEnd(j) \/ MoveTree(j))
      <3>1. tmp' = tmp /\ (pc'[j] = "move" => pc[j] = "move")
        BY <2>2 DEF Step, GetStep, SourceStep, BuildStep, Begin, Found, NotFound, MarkBegin,
           MarkEnd, CheckTarball, CurlBegin, CurlEnd, CheckTree, Configure, WriteFragment,
           MergeFragment, MakeImage, CopyBegin, CopyEnd, FailScript, Kill, To, Failed
      <3> QED
        BY <3>1 DEF Extracted
    <2> QED
      BY <2>1, <2>2
  <1>4. \A i \in Jobs : pc'[i] = "move" /\ Calm(i)' => tmp'[Ver(i)] = "whole"
    <2> SUFFICES ASSUME NEW i \in Jobs, i # j, pc[i] = "move", Calm(i)
                 PROVE  tmp'[Ver(i)] = "whole"
      BY <1>1, <1>3
    <2>1. Ver(i) \in Versions /\ tmp[Ver(i)] = "whole"
      BY SpecOf DEF Extracted
    <2>2. Ver(i) # Ver(j) \/ pc[j] \notin Building
      BY DEF Solo, Calm, Building, InScript
    <2> QED
      BY <2>1, <2>2, <1>3
  <1>5. TreesAreWhole'
    <2>1. CASE MoveTree(j)
      BY <2>1, <1>1, <1>2 DEF MoveTree, TreesAreWhole, Extracted, Calm
    <2>2. CASE ~MoveTree(j)
      <3>1. tree' = tree
        BY <2>2 DEF Step, GetStep, SourceStep, BuildStep, Begin, Found, NotFound, MarkBegin,
           MarkEnd, CheckTarball, CurlBegin, CurlEnd, CheckTree, RemoveTmp, TarBegin, TarEnd,
           Configure, WriteFragment, MergeFragment, MakeImage, CopyBegin, CopyEnd,
           FailScript, Kill
      <3> QED
        BY <3>1, <1>1 DEF TreesAreWhole, Extracted
    <2> QED
      BY <2>1, <2>2
  <1> QED
    BY <1>1, <1>4, <1>5 DEF Extracted

LEMMA SoloInv == Spec => [](TypeInv /\ Solo /\ Extracted)
  <1>1. Init => TypeInv /\ Solo /\ Extracted
    <2> SUFFICES ASSUME Init PROVE TypeInv /\ Solo /\ Extracted
      OBVIOUS
    <2>1. TypeInv
      BY TypeInit
    <2>2. Solo
      BY DEF Init, Solo, Building, InScript
    <2>3. Extracted
      BY DEF Init, Extracted, TreesAreWhole
    <2> QED
      BY <2>1, <2>2, <2>3
  <1>2. (TypeInv /\ Solo /\ Extracted) /\ [Next]_vars => (TypeInv /\ Solo /\ Extracted)'
    <2> SUFFICES ASSUME TypeInv, Solo, Extracted, [Next]_vars PROVE Solo' /\ Extracted'
      BY TypeStep
    <2>1. CASE UNCHANGED vars
      BY <2>1 DEF vars, Solo, Extracted, TreesAreWhole, Calm, Ver
    <2>2. CASE Next
      BY <2>2, SoloStep, ExtractedStep DEF Next, Step
    <2> QED
      BY <2>1, <2>2
  <1> QED
    BY <1>1, <1>2, PTL DEF Spec

\* However extractions are cut short, a source tree that is not complete is one
\* of a version that two jobs worked on at the same time.
THEOREM StoreTrees == Spec => []TreesAreWhole
  BY SoloInv, PTL DEF Extracted

-----------------------------------------------------------------------------
(* What is returned is what was asked for. *)

\* A step of the script or of Get changes its own tree and entry only.
LEMMA Own ==
    ASSUME TypeInv, NEW j \in Jobs, Step(j)
    PROVE  /\ \A t \in Trees : t # Tree(j) =>
                 /\ dotConfig'[t] = dotConfig[t] /\ fragment'[t] = fragment[t]
                 /\ object'[t] = object[t]
           /\ \A k \in Keys : k # Entry(j) => files'[k] = files[k] /\ meta'[k] = meta[k]
           /\ pc[j] \notin Building => UNCHANGED <<trees, cache>>
           /\ \A k \in Keys : meta[k] = "whole" /\ meta'[k] # "whole" =>
                 k = Entry(j) /\ pc[j] = "mark"
  <1> USE DEF TypeInv, TypeOK, Building, InScript
  <1>1. Tree(j) \in Trees /\ Entry(j) \in Keys
    BY SpecOf
  <1>2. CASE MarkBegin(j) \/ MarkEnd(j) \/ CopyBegin(j) \/ CopyEnd(j)
    BY <1>2, <1>1 DEF MarkBegin, MarkEnd, CopyBegin, CopyEnd
  <1>3. CASE Configure(j) \/ WriteFragment(j) \/ MergeFragment(j) \/ MakeImage(j)
    <2>1. UNCHANGED cache /\ pc[j] \in Building
      BY <1>3 DEF Configure, WriteFragment, MergeFragment, MakeImage
    <2>2. /\ object' = object \/ object' = [object EXCEPT ![Tree(j)] = dotConfig[Tree(j)]]
          /\ fragment' = fragment \/ fragment' = [fragment EXCEPT ![Tree(j)] = spec[j].config]
      BY <1>3 DEF Configure, WriteFragment, MergeFragment, MakeImage
    <2>3. \E d : dotConfig' = [dotConfig EXCEPT ![Tree(j)] = d]
      <3>1. CASE Configure(j)
        BY <3>1 DEF Configure
      <3>2. CASE MergeFragment(j)
        BY <3>2, Zenon DEF MergeFragment
      <3>3. CASE WriteFragment(j) \/ MakeImage(j)
        BY <3>3, <1>1 DEF WriteFragment, MakeImage
      <3> QED
        BY <1>3, <3>1, <3>2, <3>3
    <2> QED
      BY <2>1, <2>2, <2>3, <1>1
  <1>4. CASE UNCHANGED <<trees, cache>>
    BY <1>4
  <1> QED
    BY <1>2, <1>3, <1>4 DEF Step, GetStep, SourceStep, BuildStep, Begin, Found, NotFound,
       CheckTarball, CurlBegin, CurlEnd, CheckTree, RemoveTmp, TarBegin, TarEnd, MoveTree,
       FailScript, Kill

LEMMA SetConfigs ==
    ASSUME NEW b, NEW s, NEW t
    PROVE  [[base |-> b, configs |-> s] EXCEPT !.configs = t] = [base |-> b, configs |-> t]
  OBVIOUS

\* A job on a calm version makes what it was asked for.
LEMMA MakesStep ==
    ASSUME TypeInv, NEW j \in Jobs, Makes(j), Step(j)
    PROVE  Makes(j)'
  <1> USE DEF TypeInv, TypeOK, To, Failed, Tree, Makes, Building, InScript, Returned
  <1>1. /\ TreeOf(spec[j]) \in Trees /\ Entry(j) \in Keys /\ spec[j].config \in Configs
        /\ spec' = spec /\ Entry(j)' = Entry(j)
    BY SpecOf, Frame DEF Entry
  <1>2. CASE Begin(j) \/ FailScript(j) \/ Kill(j)
    BY ZenonT(60), <1>2, <1>1 DEF Begin, FailScript, Kill
  <1>3. CASE Found(j) \/ NotFound(j)
    BY <1>3, <1>1 DEF Found, NotFound, Absent, Corrupt, Extent
  <1>4. CASE MarkBegin(j) \/ MarkEnd(j)
    BY <1>4, <1>1 DEF MarkBegin, MarkEnd
  <1>5. CASE SourceStep(j)
    BY <1>5, <1>1 DEF SourceStep, CheckTarball, CurlBegin, CurlEnd, CheckTree, RemoveTmp,
                      TarBegin, TarEnd, MoveTree
  <1>6. CASE Configure(j) \/ WriteFragment(j) \/ MakeImage(j)
    BY <1>6, <1>1 DEF Configure, WriteFragment, MakeImage
  <1>7. CASE MergeFragment(j)
    <2>1. [dotConfig[Tree(j)] EXCEPT !.configs = @ \cup {fragment[Tree(j)]}] = Asked(spec[j])
      <3>1. /\ dotConfig[Tree(j)] = [base |-> spec[j].base, configs |-> {}]
            /\ fragment[Tree(j)] = spec[j].config
        BY <1>7 DEF MergeFragment
      <3>2. {} \cup {spec[j].config} = {spec[j].config}
        OBVIOUS
      <3> DEFINE old == dotConfig[Tree(j)]
                 all == old.configs \cup {fragment[Tree(j)]}
      <3>3. all = {spec[j].config}
        BY <3>1, <3>2
      <3>4. old = [base |-> spec[j].base, configs |-> {}]
        BY <3>1
      <3> HIDE DEF all, old
      <3>5. [old EXCEPT !.configs = all] = [base |-> spec[j].base, configs |-> all]
        BY <3>4, SetConfigs
      <3>6. [old EXCEPT !.configs = all] = Asked(spec[j])
        BY <3>3, <3>5 DEF Asked
      <3> QED
        BY <3>6 DEF all, old
    <2>2. dotConfig' = [dotConfig EXCEPT ![Tree(j)] =
                 [dotConfig[Tree(j)] EXCEPT !.configs = @ \cup {fragment[Tree(j)]}]]
      BY <1>7 DEF MergeFragment
    <2>3. dotConfig'[Tree(j)] = Asked(spec[j])
      BY <2>1, <2>2, <1>1
    <2> QED
      BY <1>7, <2>3, <1>1 DEF MergeFragment
  <1>8. CASE CopyBegin(j) \/ CopyEnd(j)
    BY <1>8, <1>1 DEF CopyBegin, CopyEnd
  <1> QED
    BY <1>2, <1>3, <1>4, <1>5, <1>6, <1>7, <1>8 DEF Step, GetStep, BuildStep

\* No other job disturbs it.
LEMMA RightStep ==
    ASSUME KeysTellBases, TypeInv, Solo, Right, NEW j \in Jobs, Step(j)
    PROVE  Right'
  <1> SUFFICES ASSUME NEW i \in Jobs, Calm(i)' PROVE Makes(i)'
    BY DEF Right
  <1>1. /\ spec' = spec /\ Tree(i)' = Tree(i) /\ Entry(i)' = Entry(i) /\ Calm(i)
        /\ i # j => pc'[i] = pc[i]
    BY Frame DEF Calm, Ver, Tree, Entry
  <1>2. Makes(i) /\ Tree(i) \in Trees /\ Entry(i) \in Keys
    BY <1>1, SpecOf DEF Right, TypeInv
  <1>3. CASE i = j
    BY <1>2, <1>3, MakesStep
  <1>4. CASE i # j /\ Ver(i) # Ver(j)
    <2>1. Tree(i) # Tree(j) /\ Entry(i) # Entry(j)
      BY <1>4 DEF Tree, TreeOf, Entry, Key, Ver
    <2> QED
      BY <1>1, <1>2, <1>4, <2>1, Own DEF Makes
  <1>5. CASE i # j /\ Ver(i) = Ver(j) /\ pc[i] \in Building
    <2>1. UNCHANGED <<trees, cache>>
      BY <1>1, <1>5, Own DEF Solo
    <2> QED
      BY <1>1, <1>2, <1>5, <2>1 DEF Makes
  <1>6. CASE i # j /\ Ver(i) = Ver(j) /\ pc[i] \notin Building
    <2>1. /\ Makes(i)' <=> /\ pc[i] \in {"hit", "built"} => meta'[Entry(i)] = "whole"
                           /\ meta'[Entry(i)] # "absent" => files'[Entry(i)] = Asked(spec[i])
          /\ pc[i] \in {"hit", "built"} => meta[Entry(i)] = "whole"
      BY <1>1, <1>2, <1>6 DEF Makes, Building, InScript
    <2>2. CASE Entry(i) # Entry(j)
      BY <2>1, <2>2, <1>2, Own DEF Makes
    <2>3. CASE Entry(i) = Entry(j)
      <3>1. Makes(j) /\ Makes(j)'
        BY <1>1, <1>6, MakesStep DEF Right, Calm
      <3>2. Asked(spec[i]) = Asked(spec[j])
        BY <2>3 DEF KeysTellBases, Entry, Key, Asked, TypeInv, TypeOK
      <3>3. pc[j] = "mark" => meta[Entry(j)] = "absent"
        BY <3>1 DEF Makes
      <3>4. meta'[Entry(j)] # "absent" => files'[Entry(j)] = Asked(spec[j])
        BY <3>1, <1>1 DEF Makes, Entry
      <3> QED
        BY <2>1, <2>3, <3>2, <3>3, <3>4, <1>2, Own
    <2> QED
      BY <2>2, <2>3
  <1> QED
    BY <1>3, <1>4, <1>5, <1>6

LEMMA RightInv == ASSUME KeysTellBases PROVE Spec => [](TypeInv /\ Solo /\ Right)
  <1>1. Init => Right
    BY SpecOf, TypeInit DEF Init, Right, Makes, InScript, TypeInv
  <1>2. (TypeInv /\ Solo /\ Right) /\ [Next]_vars => Right'
    <2> SUFFICES ASSUME TypeInv, Solo, Right, [Next]_vars PROVE Right'
      OBVIOUS
    <2>1. CASE UNCHANGED vars
      BY <2>1 DEF vars, Right, Makes, Calm, Ver, Tree, Entry
    <2>2. CASE Next
      BY <2>2, RightStep DEF Next, Step
    <2> QED
      BY <2>1, <2>2
  <1> QED
    BY <1>1, <1>2, SoloInv, PTL DEF Spec

\* A Get that returns, returns the kernel that was asked for, provided that no
\* two kernels that share a key differ in their base config.
THEOREM StoreReturns == ASSUME KeysTellBases PROVE Spec => []ReturnsWhatWasAsked
  <1>1. TypeInv /\ Right => ReturnsWhatWasAsked
    BY DEF Right, Makes, ReturnsWhatWasAsked, Calm
  <1> QED
    BY <1>1, RightInv, PTL

\* What was returned once is found by every later look-up.
THEOREM StoreReuses == ASSUME KeysTellBases PROVE Spec => BuiltIsReused
  <1>1. TypeInv /\ Right /\ [Next]_vars =>
          [\A i, j \in Jobs :
             /\ pc[i] \in {"hit", "built"} /\ Ver(i) \notin crowded
             /\ Entry(i) = Entry(j)
             /\ pc[j] = "lookup" /\ pc'[j] # "lookup"
             => pc'[j] \in {"hit", "killed"}]_vars
    <2> SUFFICES ASSUME TypeInv, Right, Next,
                        NEW i \in Jobs, NEW j \in Jobs,
                        pc[i] \in {"hit", "built"}, Ver(i) \notin crowded,
                        Entry(i) = Entry(j), pc[j] = "lookup", pc'[j] # "lookup"
                 PROVE  pc'[j] \in {"hit", "killed"}
      OBVIOUS
    <2>1. meta[Entry(j)] = "whole"
      BY DEF Right, Makes, Calm
    <2>2. Step(j)
      BY Frame DEF Next, Step
    <2> QED
      BY <2>1, <2>2 DEF Step, GetStep, SourceStep, BuildStep, Begin, Found, NotFound,
         MarkBegin, MarkEnd, CheckTarball, CurlBegin, CurlEnd, CheckTree, RemoveTmp, TarBegin,
         TarEnd, MoveTree, Configure, WriteFragment, MergeFragment, MakeImage, CopyBegin,
         CopyEnd, FailScript, Kill, To, Absent, Corrupt, InScript, TypeInv, TypeOK
  <1> QED
    BY <1>1, RightInv, PTL DEF Spec, BuiltIsReused
=============================================================================
