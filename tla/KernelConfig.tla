---------------------------- MODULE KernelConfig ----------------------------
(***************************************************************************)
(* Which kernel a name stands for: from the config fragments the matrix    *)
(* lists (cmd/klab/main.go) through their merge and the cache key          *)
(* (internal/kernel/kernel.go) to an entry of the cache.  "klab kernel     *)
(* build" and "klab up" each go that way on their own, and must arrive at  *)
(* the same entry, while the fragments are edited and the VM's compiler is *)
(* upgraded between any two steps.  What happens inside the cache and the  *)
(* build is module KernelStore; here a build is one step.                  *)
(***************************************************************************)
EXTENDS FiniteSets, Sorting

CONSTANTS
    Procs,      \* klab processes
    Builders,   \* those that are "klab kernel build", the others being "klab up"
    Kernels,    \* name |-> its ref, architecture and fragments, see Kernel
    Unlisted,   \* a name that the matrix does not have
    Paths,      \* fragment files
    Texts,      \* what a fragment file may hold, see Line
    Missing,    \* the text of a file that does not exist
    Symbols,    \* kconfig symbols, numbers in the order of their names
    Majors,     \* major versions of clang
    Silent,     \* what toolchainID says when the VM does not tell
    MaxEntries  \* bound: entries in the cache

(***************************************************************************)
(* A line sets a symbol, says that it "is not set", or is something else.  *)
(***************************************************************************)
Values == {"y", "m", "n"}
Line == [form : {"set"}, sym : Symbols, val : Values]
        \cup [form : {"off"}, sym : Symbols] \cup [form : {"other"}]
Kernel == [ref : STRING, arch : STRING, fragments : Seq(Paths)]

ASSUME MatrixAssumption ==
    /\ Builders \subseteq Procs
    /\ \A n \in DOMAIN Kernels : Kernels[n] \in Kernel
    /\ Unlisted \notin DOMAIN Kernels
    /\ Texts \subseteq Seq(Line) /\ Missing \notin Texts
    /\ Symbols \subseteq Nat
    /\ Majors \subseteq Nat /\ Majors # {} /\ Silent \notin Nat
    /\ MaxEntries \in Nat

VARIABLES
    text,   \* path |-> the text of that fragment file
    clang,  \* the major version of the VM's compiler
    cache,  \* the entries, see Entry
    pc,     \* process |-> the step it is about to take, or how it returned
    want,   \* process |-> the name it was given
    merged, \* process |-> the config it resolved
    tool,   \* process |-> its toolchainID
    said    \* history: process |-> what the fragments it read say, see Said

asking == <<want, merged, tool, said>>
vars == <<text, clang, cache, pc, asking>>

-----------------------------------------------------------------------------
(* MergeConfig and CacheKey. *)

\* What is known of the symbols once a line has been applied.
Apply_FirstWins(vals, l) ==
    IF l.form = "other" \/ l.sym \in DOMAIN vals THEN vals
    ELSE [s \in DOMAIN vals \cup {l.sym} |->
             IF s \in DOMAIN vals THEN vals[s] ELSE IF l.form = "off" THEN "n" ELSE l.val]
Apply_Forgets(vals, l) ==
    IF l.form = "other" THEN vals
    ELSE IF l.form = "off" THEN [s \in DOMAIN vals \ {l.sym} |-> vals[s]]
    ELSE [s \in DOMAIN vals \cup {l.sym} |-> IF s # l.sym THEN vals[s] ELSE l.val]
Apply_Blank(vals, l) ==
    IF l.form = "other" THEN vals
    ELSE [s \in DOMAIN vals \cup {l.sym} |->
             IF s # l.sym THEN vals[s] ELSE IF l.form = "off" THEN "" ELSE l.val]
Apply(vals, l) ==
    IF l.form = "other" THEN vals
    ELSE [s \in DOMAIN vals \cup {l.sym} |->
             IF s # l.sym THEN vals[s] ELSE IF l.form = "off" THEN "n" ELSE l.val]
NoVals == [s \in {} |-> "n"]

\* One directive per symbol, sorted.
Written(vals) ==
    LET syms == Sorted(SetToSeq(DOMAIN vals), {st \in Symbols \X Symbols : st[1] < st[2]})
    IN  [k \in DOMAIN syms |->
            IF vals[syms[k]] = "n" THEN [form |-> "off", sym |-> syms[k]]
            ELSE [form |-> "set", sym |-> syms[k], val |-> vals[syms[k]]]]

\* The base is the empty text, at both callers.
MergeConfig(fragments) == Written(FoldLeft(Apply, NoVals, FlattenSeq(fragments)))

\* The hash has no collisions.
CacheKey_NoTool(ref, arch, toolchain, config) == <<ref, arch, config>>
CacheKey(ref, arch, toolchain, config) == <<ref, arch, toolchain, config>>

Key(p) == LET k == Kernels[want[p]]
          IN  CacheKey(k.ref, k.arch, tool[p], merged[p])

\* An entry: its key, and what its kernel was made of.
Entry(p) == [key |-> Key(p), name |-> want[p], config |-> merged[p], clang |-> clang]

Working == {"resolve", "toolchain", "lookup", "build"}
Returned == {"hit", "built", "failed", "notBuilt"}

\* History: what fragments say, defined without a merge: a symbol that a line
\* names has the value of the last line that names it.
Said(fragments) ==
    LET lines == FlattenSeq(fragments)
        Naming(s) == {k \in DOMAIN lines : lines[k].form # "other" /\ lines[k].sym = s}
        LastOf(s) == CHOOSE k \in Naming(s) : \A j \in Naming(s) : j <= k
        Value(l) == IF l.form = "off" THEN "n" ELSE l.val
    IN  [s \in {x \in Symbols : Naming(x) # {}} |-> Value(lines[LastOf(s)])]

-----------------------------------------------------------------------------
Init ==
    /\ text \in [Paths -> Texts \cup {Missing}]
    /\ clang \in Majors
    /\ cache = {}
    /\ pc = [p \in Procs |-> "new"]
    /\ want = [p \in Procs |-> Unlisted]
    /\ merged = [p \in Procs |-> <<>>]
    /\ tool = [p \in Procs |-> Silent]
    /\ said = [p \in Procs |-> NoVals]

To(p, label) == pc' = [pc EXCEPT ![p] = label]

\* kernelBuild and resolveKernelImage.
Ask(p, n) ==
    /\ pc[p] = "new"
    /\ want' = [want EXCEPT ![p] = n]
    /\ To(p, IF n \in DOMAIN Kernels THEN "resolve" ELSE "failed")
    /\ UNCHANGED <<text, clang, cache, merged, tool, said>>

ResolveConfig(p) ==
    /\ pc[p] = "resolve"
    /\ LET paths == Kernels[want[p]].fragments
           texts == [k \in DOMAIN paths |-> text[paths[k]]]
       IN  IF Missing \in ToSet(texts)
           THEN To(p, "failed") /\ UNCHANGED <<merged, said>>
           ELSE /\ To(p, "toolchain")
                /\ merged' = [merged EXCEPT ![p] = MergeConfig(texts)]
                /\ said' = [said EXCEPT ![p] = Said(texts)]
    /\ UNCHANGED <<text, clang, cache, want, tool>>

ToolchainID(p) ==
    /\ pc[p] = "toolchain"
    /\ tool' \in {[tool EXCEPT ![p] = t] : t \in {clang, Silent}}
    /\ To(p, "lookup")
    /\ UNCHANGED <<text, clang, cache, want, merged, said>>

LookUp(p) ==
    /\ pc[p] = "lookup"
    /\ To(p, IF \E e \in cache : e.key = Key(p) THEN "hit"
             ELSE IF p \in Builders THEN "build" ELSE "notBuilt")
    /\ UNCHANGED <<text, clang, cache, asking>>

\* A build overwrites what another process built under its key meanwhile.
Build_Forgotten(p) ==
    /\ pc[p] = "build"
    /\ To(p, "built")
    /\ UNCHANGED <<text, clang, cache, asking>>
Build(p) ==
    /\ pc[p] = "build"
    /\ cache' = {e \in cache : e.key # Key(p)} \cup {Entry(p)}
    /\ Cardinality(cache') <= MaxEntries
    /\ To(p, "built")
    /\ UNCHANGED <<text, clang, asking>>
FailBuild(p) ==
    /\ pc[p] = "build"
    /\ To(p, "failed")
    /\ UNCHANGED <<text, clang, cache, asking>>

Return(p) ==
    /\ pc[p] \in Returned
    /\ To(p, "new")
    /\ want' = [want EXCEPT ![p] = Unlisted]
    /\ merged' = [merged EXCEPT ![p] = <<>>]
    /\ tool' = [tool EXCEPT ![p] = Silent]
    /\ said' = [said EXCEPT ![p] = NoVals]
    /\ UNCHANGED <<text, clang, cache>>

\* The user edits a fragment, and upgrades the VM.
Edit(f) ==
    /\ \E t \in Texts \cup {Missing} : text' = [text EXCEPT ![f] = t]
    /\ UNCHANGED <<clang, cache, pc, asking>>
Upgrade ==
    /\ \E t \in Majors : t > clang /\ clang' = t
    /\ UNCHANGED <<text, cache, pc, asking>>

Next ==
    \/ \E p \in Procs :
          \/ \E n \in DOMAIN Kernels \cup {Unlisted} : Ask(p, n)
          \/ ResolveConfig(p) \/ ToolchainID(p) \/ LookUp(p)
          \/ Build(p) \/ FailBuild(p) \/ Return(p)
    \/ \E f \in Paths : Edit(f)
    \/ Upgrade
Spec == Init /\ [][Next]_vars

-----------------------------------------------------------------------------
(* Properties. *)

TypeOK ==
    /\ text \in [Paths -> Texts \cup {Missing}]
    /\ clang \in Majors
    /\ \A e \in cache : e.name \in DOMAIN Kernels /\ e.clang \in Majors
    /\ pc \in [Procs -> {"new"} \cup Working \cup Returned]
    /\ want \in [Procs -> DOMAIN Kernels \cup {Unlisted}]
    /\ merged \in [Procs -> Seq(Line)]
    /\ tool \in [Procs -> Majors \cup {Silent}]

\* The kernel a process gets under the name it was given has the ref and the
\* architecture of that name and was configured with what the fragments said
\* when it read them, last-wins (kernel.go:43-50), whoever built it and whatever
\* was edited before and after.
GetsWhatItRead ==
    \A p \in Procs : pc[p] \in {"hit", "built"} =>
        \A e \in cache : e.key = Key(p) =>
            /\ Kernels[e.name].ref = Kernels[want[p]].ref
            /\ Kernels[e.name].arch = Kernels[want[p]].arch
            /\ Said(<<e.config>>) = said[p]

\* Two requests have the same resolved config exactly when their fragments say
\* the same (kernel.go:52-54, 92-94): neither the order of fragments that do not
\* conflict, nor comments, nor the way of disabling a symbol makes a difference,
\* and everything else does.
SameKeySameMeaning ==
    \A p, q \in Procs : pc[p] \in {"lookup"} \cup Returned /\ pc[q] = "lookup" =>
        (merged[p] = merged[q] <=> said[p] = said[q])

\* When the VM tells its compiler, a kernel that an older one built is no hit
\* (kernel.go:88-92, F1.4), even with entries around that were made while the VM
\* did not tell, or during an upgrade.
NeverOlderCompiler ==
    \A p \in Procs : pc[p] \in {"hit", "built"} /\ tool[p] # Silent =>
        \A e \in cache : e.key = Key(p) => e.clang >= tool[p]

\* "run 'klab kernel build' first" (main.go:209) is good advice: once a build or
\* a hit was returned, "klab up" finds that kernel, if the VM tells both the same
\* compiler, or neither, and the fragments say the same to both.
BuiltIsFound ==
    [][\A p, q \in Procs :
          /\ pc[q] \in {"hit", "built"} /\ pc[p] = "lookup" /\ pc'[p] # "lookup"
          /\ want[p] = want[q] /\ tool[p] = tool[q] /\ said[p] = said[q]
          => pc'[p] = "hit"]_vars
=============================================================================
