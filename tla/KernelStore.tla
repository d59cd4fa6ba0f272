---------------------------- MODULE KernelStore ----------------------------
(***************************************************************************)
(* The kernel cache (internal/kernel/store.go) and the script that fills   *)
(* it (builder.go).  A job is one klab process that asks for one kernel:   *)
(* "klab kernel build", which builds on a miss, or the look-up of "klab    *)
(* up", which does not.  Jobs share the cache and, in the VM, a tarball    *)
(* per version, the directory it is extracted to, and a source tree per    *)
(* version and architecture.  Nothing is locked.                           *)
(*                                                                         *)
(* What takes time is two steps, and leaves something partial between      *)
(* them: a download, an extraction, the copy of the results, the writing   *)
(* of artifact.json.  The script may fail at any step.  A klab process that*)
(* is killed may leave its script running in the VM.                       *)
(***************************************************************************)
EXTENDS Naturals, FiniteSets

CONSTANTS
    Jobs,       \* klab processes
    Finders,    \* those that only look up
    Versions, Archs, Bases, Configs,
    Specs,      \* the kernels asked for
    Missing     \* a fragment, a .config or a kernel that does not exist

\* A kernel as asked for; "config" is the resolved config, MergeConfig's result.
Kernel == [ver : Versions, arch : Archs, base : Bases, config : Configs]

ASSUME StoreAssumption ==
    /\ Finders \subseteq Jobs
    /\ Specs \subseteq Kernel
    /\ Missing \notin Configs

VARIABLES
    pc,         \* job |-> the step it is about to take, or how it returned
    spec,       \* job |-> the kernel it asks for
    orphans,    \* jobs whose klab process is gone and whose script runs on
    tarball,    \* version |-> its tarball
    tmp,        \* version |-> the directory its tarball is extracted to
    tree,       \* <<version, arch>> |-> its source tree
    fragment,   \* tree |-> what its klab.fragment holds
    dotConfig,  \* tree |-> what its .config was made from, see Made
    object,     \* tree |-> the .config that its last make built
    files,      \* key |-> the kernel in its cache entry
    meta,       \* key |-> its artifact.json
    spoiled,    \* jobs of whose download or extraction another lost a part
    crowded     \* history: versions that two jobs worked on at the same time

sources == <<tarball, tmp, tree, spoiled>>
trees == <<fragment, dotConfig, object>>
cache == <<files, meta>>
vars == <<pc, spec, orphans, sources, trees, cache, crowded>>

Trees == Versions \X Archs
TreeOf(k) == <<k.ver, k.arch>>

\* A .config and what is built from it: the base target and the fragments.
Made == [base : Bases, configs : SUBSET Configs]
Asked(k) == [base |-> k.base, configs |-> {k.config}]
Nothing == [base |-> Missing, configs |-> {}]
Torn == [base |-> Missing, configs |-> {Missing}]

\* CacheKey.  The hash has no collisions.  The toolchain is the same for all.
Key(k) == <<k.ver, k.arch, k.config>>
Keys == {Key(k) : k \in Specs}

Extent == {"absent", "partial", "whole"}
InScript == {"check", "curl", "curling", "tree", "rm", "tar", "untar", "move",
             "configure", "fragment", "merge", "make", "copy", "copying"}
Building == InScript \cup {"mark", "marking"}
Returned == {"hit", "built", "failed", "corrupt", "notBuilt", "killed"}

TypeOK ==
    /\ pc \in [Jobs -> {"new", "lookup"} \cup Building \cup Returned]
    /\ spec \in [Jobs -> Specs]
    /\ orphans \subseteq Jobs
    /\ tarball \in [Versions -> Extent]
    /\ tmp \in [Versions -> Extent]
    /\ tree \in [Trees -> Extent]
    /\ fragment \in [Trees -> Configs \cup {Missing}]
    /\ dotConfig \in [Trees -> Made \cup {Nothing}]
    /\ object \in [Trees -> Made \cup {Nothing}]
    /\ files \in [Keys -> Made \cup {Nothing, Torn}]
    /\ meta \in [Keys -> Extent]
    /\ spoiled \subseteq Jobs
    /\ crowded \subseteq Versions

Init ==
    /\ pc = [j \in Jobs |-> "new"]
    /\ spec \in [Jobs -> Specs]
    /\ orphans = {} /\ spoiled = {} /\ crowded = {}
    /\ tarball = [v \in Versions |-> "absent"]
    /\ tmp = [v \in Versions |-> "absent"]
    /\ tree = [t \in Trees |-> "absent"]
    /\ fragment = [t \in Trees |-> Missing]
    /\ dotConfig = [t \in Trees |-> Nothing]
    /\ object = [t \in Trees |-> Nothing]
    /\ files = [k \in Keys |-> Nothing]
    /\ meta = [k \in Keys |-> "absent"]

Ver(j) == spec[j].ver
Tree(j) == TreeOf(spec[j])
Entry(j) == Key(spec[j])
To(j, label) == pc' = [pc EXCEPT ![j] = label]
\* How a script that fails ends its job.
Failed(j) == IF j \in orphans THEN "killed" ELSE "failed"
At(label, v) == {i \in Jobs : pc[i] = label /\ Ver(i) = v}

-----------------------------------------------------------------------------
(* Get, on the host. *)

Begin(j) ==
    /\ pc[j] = "new"
    /\ To(j, "lookup")
    /\ UNCHANGED <<spec, orphans, sources, trees, cache, crowded>>

\* What is in the entry but artifact.json does not matter.
Absent_NoEntry(j) == files[Entry(j)] = Nothing
Absent(j) == meta[Entry(j)] = "absent"
Corrupt(j) == meta[Entry(j)] = "partial"
Found(j) ==
    /\ pc[j] = "lookup" /\ ~Absent(j)
    /\ To(j, IF Corrupt(j) THEN "corrupt" ELSE "hit")
    /\ UNCHANGED <<spec, orphans, sources, trees, cache, crowded>>
NotFound(j) ==
    /\ pc[j] = "lookup" /\ Absent(j)
    /\ To(j, IF j \in Finders THEN "notBuilt" ELSE "check")
    /\ crowded' = IF j \notin Finders
                     /\ \E i \in Jobs : pc[i] \in Building /\ Ver(i) = Ver(j)
                  THEN crowded \cup {Ver(j)} ELSE crowded
    /\ UNCHANGED <<spec, orphans, sources, trees, cache>>

\* os.WriteFile of artifact.json truncates it first.
MarkBegin(j) ==
    /\ pc[j] = "mark"
    /\ To(j, "marking")
    /\ meta' = [meta EXCEPT ![Entry(j)] = "partial"]
    /\ UNCHANGED <<spec, orphans, sources, trees, files, crowded>>
MarkEnd_Unwritten(j) ==
    /\ pc[j] = "marking"
    /\ To(j, "built")
    /\ UNCHANGED <<spec, orphans, sources, trees, cache, crowded>>
MarkEnd(j) ==
    /\ pc[j] = "marking"
    /\ To(j, "built")
    /\ meta' = [meta EXCEPT ![Entry(j)] = "whole"]
    /\ UNCHANGED <<spec, orphans, sources, trees, files, crowded>>

-----------------------------------------------------------------------------
(* The script, in the VM: the sources. *)

CheckTarball(j) ==
    /\ pc[j] = "check"
    /\ To(j, IF tarball[Ver(j)] = "absent" THEN "curl" ELSE "tree")
    /\ UNCHANGED <<spec, orphans, sources, trees, cache, crowded>>

\* curl truncates the file; another curl that was writing it leaves a hole.
CurlBegin(j) ==
    /\ pc[j] = "curl"
    /\ To(j, "curling")
    /\ tarball' = [tarball EXCEPT ![Ver(j)] = "partial"]
    /\ spoiled' = spoiled \cup At("curling", Ver(j))
    /\ UNCHANGED <<spec, orphans, tmp, tree, trees, cache, crowded>>
CurlEnd(j) ==
    /\ pc[j] = "curling"
    /\ To(j, "tree")
    /\ tarball' = [tarball EXCEPT ![Ver(j)] = IF j \in spoiled THEN @ ELSE "whole"]
    /\ spoiled' = spoiled \ {j}
    /\ UNCHANGED <<spec, orphans, tmp, tree, trees, cache, crowded>>

CheckTree(j) ==
    /\ pc[j] = "tree"
    /\ To(j, IF tree[Tree(j)] = "absent" THEN "rm" ELSE "configure")
    /\ UNCHANGED <<spec, orphans, sources, trees, cache, crowded>>

\* All architectures of a version are extracted to one directory first.
RemoveTmp(j) ==
    /\ pc[j] = "rm"
    /\ To(j, "tar")
    /\ tmp' = [tmp EXCEPT ![Ver(j)] = "absent"]
    /\ spoiled' = spoiled \cup At("untar", Ver(j))
    /\ UNCHANGED <<spec, orphans, tarball, tree, trees, cache, crowded>>

\* A tarball that is cut short makes tar, and with it the script, fail.
TarBegin_Unchecked(j) ==
    /\ pc[j] = "tar"
    /\ To(j, IF tarball[Ver(j)] = "whole" THEN "untar" ELSE "move")
    /\ tmp' = [tmp EXCEPT ![Ver(j)] = "partial"]
    /\ UNCHANGED <<spec, orphans, tarball, tree, spoiled, trees, cache, crowded>>
TarBegin(j) ==
    /\ pc[j] = "tar"
    /\ To(j, IF tarball[Ver(j)] = "whole" THEN "untar" ELSE Failed(j))
    /\ tmp' = [tmp EXCEPT ![Ver(j)] = "partial"]
    /\ UNCHANGED <<spec, orphans, tarball, tree, spoiled, trees, cache, crowded>>

\* What another job removed or moved away meanwhile is not extracted again.
TarEnd(j) ==
    /\ pc[j] = "untar"
    /\ To(j, "move")
    /\ tmp' = [tmp EXCEPT ![Ver(j)] =
                 IF j \notin spoiled THEN "whole"
                 ELSE IF @ = "absent" THEN "partial" ELSE @]
    /\ spoiled' = spoiled \ {j}
    /\ UNCHANGED <<spec, orphans, tarball, tree, trees, cache, crowded>>

\* mv moves the directory into a tree that is there by now, and fails when
\* another job has moved it away.
MoveTree(j) ==
    /\ pc[j] = "move"
    /\ LET v == Ver(j)
       IN  /\ To(j, IF tmp[v] = "absent" THEN Failed(j) ELSE "configure")
           /\ tmp' = [tmp EXCEPT ![v] = "absent"]
           /\ tree' = [tree EXCEPT ![Tree(j)] = IF @ = "absent" THEN tmp[v] ELSE @]
           /\ spoiled' = spoiled \cup At("untar", v)
    /\ UNCHANGED <<spec, orphans, tarball, trees, cache, crowded>>

-----------------------------------------------------------------------------
(* The script, in the VM: the build. *)

\* "make <base>" replaces the .config.
Configure_Keeps(j) ==
    /\ pc[j] = "configure"
    /\ To(j, "fragment")
    /\ dotConfig' = [dotConfig EXCEPT ![Tree(j)] = [@ EXCEPT !.base = spec[j].base]]
    /\ UNCHANGED <<spec, orphans, sources, fragment, object, cache, crowded>>
Configure(j) ==
    /\ pc[j] = "configure"
    /\ To(j, "fragment")
    /\ dotConfig' = [dotConfig EXCEPT ![Tree(j)] = [base |-> spec[j].base, configs |-> {}]]
    /\ UNCHANGED <<spec, orphans, sources, fragment, object, cache, crowded>>
WriteFragment_Skipped(j) ==
    /\ pc[j] = "fragment"
    /\ To(j, "merge")
    /\ UNCHANGED <<spec, orphans, sources, trees, cache, crowded>>
WriteFragment(j) ==
    /\ pc[j] = "fragment"
    /\ To(j, "merge")
    /\ fragment' = [fragment EXCEPT ![Tree(j)] = spec[j].config]
    /\ UNCHANGED <<spec, orphans, sources, dotConfig, object, cache, crowded>>

\* merge_config.sh and "make olddefconfig".
MergeFragment(j) ==
    /\ pc[j] = "merge"
    /\ To(j, "make")
    /\ dotConfig' = [dotConfig EXCEPT ![Tree(j)].configs = @ \cup {fragment[Tree(j)]}]
    /\ UNCHANGED <<spec, orphans, sources, fragment, object, cache, crowded>>
MakeImage(j) ==
    /\ pc[j] = "make"
    /\ To(j, "copy")
    /\ object' = [object EXCEPT ![Tree(j)] = dotConfig[Tree(j)]]
    /\ UNCHANGED <<spec, orphans, sources, fragment, dotConfig, cache, crowded>>

\* Image, vmlinux and .config are copied to the cache entry; the Go side goes on
\* when the script ended, if there is one.
CopyBegin(j) ==
    /\ pc[j] = "copy"
    /\ To(j, "copying")
    /\ files' = [files EXCEPT ![Entry(j)] = Torn]
    /\ UNCHANGED <<spec, orphans, sources, trees, meta, crowded>>
CopyEnd(j) ==
    /\ pc[j] = "copying"
    /\ To(j, IF j \in orphans THEN "killed" ELSE "mark")
    /\ files' = [files EXCEPT ![Entry(j)] = object[Tree(j)]]
    /\ UNCHANGED <<spec, orphans, sources, trees, meta, crowded>>

-----------------------------------------------------------------------------
(* Failures. *)

\* The script fails where it is ("set -e"): no network, a full disk, a source
\* tree that is not whole; or the command cannot be started.
FailScript(j) ==
    /\ pc[j] \in InScript
    /\ To(j, Failed(j))
    /\ spoiled' = spoiled \ {j}
    /\ UNCHANGED <<spec, orphans, tarball, tmp, tree, trees, cache, crowded>>

\* The klab process is killed; its script may run on in the VM.
Kill(j) ==
    /\ pc[j] \in {"lookup"} \cup Building /\ j \notin orphans
    /\ \/ /\ To(j, "killed")
          /\ spoiled' = spoiled \ {j}
          /\ UNCHANGED orphans
       \/ /\ pc[j] \in InScript
          /\ orphans' = orphans \cup {j}
          /\ UNCHANGED <<pc, spoiled>>
    /\ UNCHANGED <<spec, tarball, tmp, tree, trees, cache, crowded>>

-----------------------------------------------------------------------------
GetStep(j) == Begin(j) \/ Found(j) \/ NotFound(j) \/ MarkBegin(j) \/ MarkEnd(j)
SourceStep(j) ==
    \/ CheckTarball(j) \/ CurlBegin(j) \/ CurlEnd(j) \/ CheckTree(j)
    \/ RemoveTmp(j) \/ TarBegin(j) \/ TarEnd(j) \/ MoveTree(j)
BuildStep(j) ==
    \/ Configure(j) \/ WriteFragment(j) \/ MergeFragment(j) \/ MakeImage(j)
    \/ CopyBegin(j) \/ CopyEnd(j)
Next == \E j \in Jobs :
    GetStep(j) \/ SourceStep(j) \/ BuildStep(j) \/ FailScript(j) \/ Kill(j)
Spec == Init /\ [][Next]_vars

-----------------------------------------------------------------------------
(* Properties. *)

\* A hit is on an entry that some Get completed, as artifact.json is written last:
\* what failed or killed builds left is never a hit (store_test.go:119).  It need
\* not be whole, against store.go:29-30 ("distinguishes a complete cache entry from
\* a partial/failed one"): where two jobs worked on the version, another build of
\* the same entry may be writing it or have been cut short under the mark of the
\* first.  Nothing else tears it.  What is in it that is whole is
\* ReturnsWhatWasAsked's matter.
HitWasBuilt ==
    \A j \in Jobs : pc[j] = "hit" =>
        /\ \E i \in Jobs : pc[i] = "built" /\ Entry(i) = Entry(j)
        /\ files[Entry(j)] = Torn =>
              \E i \in Jobs : pc[i] \in {"copying", "failed", "killed"} /\ Entry(i) = Entry(j)

\* What a Get returned is, then and later, the complete kernel of that version,
\* architecture and config (store.go:19-22), after any failures and kills, as
\* long as no two jobs worked on the version at the same time.
ReturnsWhatWasAsked ==
    \A j \in Jobs : pc[j] \in {"hit", "built"} /\ Ver(j) \notin crowded =>
        files[Entry(j)] = Asked(spec[j])

\* A source tree that exists is complete: the extraction happens elsewhere and is
\* renamed (builder.go:85-89), so nothing that is cut short, not even the
\* tarball, leaves a tree that later builds take for complete, unless two jobs
\* worked on the version at the same time.
TreesAreWhole ==
    \A t \in Trees : tree[t] = "partial" => t[1] \in crowded

\* Identical inputs are reused (store.go:20-21, F1.3): what was returned once is
\* found by every later look-up, unless two jobs worked on the version at the
\* same time.
BuiltIsReused ==
    [][\A i, j \in Jobs :
          /\ pc[i] \in {"hit", "built"} /\ Ver(i) \notin crowded
          /\ Entry(i) = Entry(j)
          /\ pc[j] = "lookup" /\ pc'[j] # "lookup"
          => pc'[j] \in {"hit", "killed"}]_vars
=============================================================================
