------------------------------- MODULE Rootfs -------------------------------
(***************************************************************************)
(* The base root filesystem: the script that builds it in the VM           *)
(* (scripts/guest/mkrootfs.sh), "klab up", which asks whether it is there  *)
(* (cmd/klab/main.go), and the copy of it that each node gets              *)
(* (internal/runner/cluster.go).  The script and "klab up" both take the   *)
(* one file /sbin/klab-init for the whole.  A run of the script may fail   *)
(* or be killed at any step and be started again, and nothing keeps a      *)
(* second one, or an up, from running meanwhile.                           *)
(***************************************************************************)
EXTENDS Naturals, Sequences

CONSTANTS
    Runs,       \* runs of mkrootfs.sh
    Ups,        \* runs of "klab up"
    Programs,   \* the XDP programs, in the order of the script's loop
    Missing     \* an object file that does not exist

Named == {Programs[k] : k \in DOMAIN Programs}
ASSUME ProgramsAssumption ==
    /\ Runs \cap Ups = {}
    /\ Programs \in Seq(Named) /\ Missing \notin Named

VARIABLES
    base,       \* the base, see Tree
    tmp,        \* the program whose object /tmp/klab_xdp.o is
    pc, pos,    \* run |-> its next step, and the program its loop is at
    clone,      \* up |-> its node's copy of the base
    crowded     \* history: two runs were at work at the same time

vars == <<base, tmp, pc, pos, clone, crowded>>

\* A file tree: how much of the distribution, which of klab's files, and under
\* the name of each program the object of which.
Tree == [os : {"absent", "partial", "whole"}, bpftool : BOOLEAN, init : BOOLEAN,
         xdp : [Named -> Named \cup {Missing}]]
NoTree == [os |-> "absent", bpftool |-> FALSE, init |-> FALSE,
           xdp |-> [p \in Named |-> Missing]]

AtWork == {"bpftool", "debootstrap", "unpack", "tools", "init", "clang",
           "object"}
Ended == {"present", "done", "failed", "refused", "cloned"}

Typed ==
    /\ base \in Tree
    /\ tmp \in Named \cup {Missing}
    /\ pc \in [Runs \cup Ups -> {"check", "clone"} \cup AtWork \cup Ended]
    /\ pos \in [Runs -> Nat \ {0}]
    /\ clone \in [Ups -> Tree]
    /\ crowded \in BOOLEAN
\* The type invariant; also, a run that is to install an object has compiled one,
\* as a compiler that fails ends it, and only another run takes it away.
TypeOK == Typed /\ (~crowded => \A r \in Runs : pc[r] = "object" => tmp # Missing)

Init ==
    /\ base = NoTree /\ tmp = Missing
    /\ pc = [r \in Runs \cup Ups |-> "check"]
    /\ pos = [r \in Runs |-> 1]
    /\ clone = [u \in Ups |-> NoTree]
    /\ crowded = FALSE

To(r, label) == pc' = [pc EXCEPT ![r] = label]

-----------------------------------------------------------------------------
(* mkrootfs.sh. *)

CheckBase(r) ==
    /\ pc[r] = "check"
    /\ To(r, IF base.init THEN "present" ELSE "bpftool")
    /\ crowded' = (crowded \/ (~base.init /\ \E q \in Runs : pc[q] \in AtWork))
    /\ UNCHANGED <<base, tmp, pos, clone>>

\* Without a kernel source tree to make bpftool in, the script fails.
MakeBpftool(r) ==
    /\ pc[r] = "bpftool"
    /\ To(r, "debootstrap")
    /\ UNCHANGED <<base, tmp, pos, clone, crowded>>

\* debootstrap starts over in the directory that an earlier run left.
BootstrapBegin_InitFirst(r) ==
    /\ pc[r] = "debootstrap"
    /\ To(r, "unpack")
    /\ base' = [base EXCEPT !.os = "partial", !.init = TRUE]
    /\ UNCHANGED <<tmp, pos, clone, crowded>>
BootstrapBegin_Once(r) ==
    /\ pc[r] = "debootstrap"
    /\ To(r, IF base.os = "absent" THEN "unpack" ELSE "tools")
    /\ base' = [base EXCEPT !.os = "partial"]
    /\ UNCHANGED <<tmp, pos, clone, crowded>>
BootstrapBegin(r) ==
    /\ pc[r] = "debootstrap"
    /\ To(r, "unpack")
    /\ base' = [base EXCEPT !.os = "partial"]
    /\ UNCHANGED <<tmp, pos, clone, crowded>>
BootstrapEnd(r) ==
    /\ pc[r] = "unpack"
    /\ To(r, "tools")
    /\ base' = [base EXCEPT !.os = "whole"]
    /\ UNCHANGED <<tmp, pos, clone, crowded>>

InstallBpftool(r) ==
    /\ pc[r] = "tools"
    /\ To(r, "init")
    /\ base' = [base EXCEPT !.bpftool = TRUE]
    /\ UNCHANGED <<tmp, pos, clone, crowded>>
InstallInit(r) ==
    /\ pc[r] = "init"
    /\ To(r, "clang")
    /\ base' = [base EXCEPT !.init = TRUE]
    /\ UNCHANGED <<tmp, pos, clone, crowded>>

\* One object file in /tmp serves all programs, and all runs.
Compile_Unchecked(r) ==
    /\ pc[r] = "clang" /\ pos[r] \in DOMAIN Programs
    /\ To(r, "object")
    /\ tmp' \in {tmp, Programs[pos[r]]}
    /\ UNCHANGED <<base, pos, clone, crowded>>
Compile(r) ==
    /\ pc[r] = "clang" /\ pos[r] \in DOMAIN Programs
    /\ To(r, "object")
    /\ tmp' = Programs[pos[r]]
    /\ UNCHANGED <<base, pos, clone, crowded>>
InstallObject(r) ==
    /\ pc[r] = "object" /\ tmp # Missing
    /\ base' = [base EXCEPT !.xdp[Programs[pos[r]]] = tmp]
    /\ pos' = [pos EXCEPT ![r] = @ + 1]
    /\ To(r, "clang")
    /\ UNCHANGED <<tmp, clone, crowded>>
Finish(r) ==
    /\ pc[r] = "clang" /\ pos[r] \notin DOMAIN Programs
    /\ To(r, "done")
    /\ tmp' = Missing
    /\ UNCHANGED <<base, pos, clone, crowded>>

\* A command fails ("set -e"), or the script is killed.
Fail(r) ==
    /\ pc[r] \in AtWork
    /\ To(r, "failed")
    /\ UNCHANGED <<base, tmp, pos, clone, crowded>>

-----------------------------------------------------------------------------
(* klab up. *)

UpCheck(u) ==
    /\ pc[u] = "check"
    /\ To(u, IF base.init THEN "clone" ELSE "refused")
    /\ UNCHANGED <<base, tmp, pos, clone, crowded>>
PrepRootfs(u) ==
    /\ pc[u] = "clone"
    /\ clone' = [clone EXCEPT ![u] = base]
    /\ To(u, "cloned")
    /\ UNCHANGED <<base, tmp, pos, crowded>>

-----------------------------------------------------------------------------
Again(r) ==
    /\ pc[r] \in Ended
    /\ To(r, "check")
    /\ pos' = [q \in Runs |-> IF q = r THEN 1 ELSE pos[q]]
    /\ clone' = [u \in Ups |-> IF u = r THEN NoTree ELSE clone[u]]
    /\ UNCHANGED <<base, tmp, crowded>>

Step(r) ==
    \/ CheckBase(r) \/ MakeBpftool(r)
    \/ BootstrapBegin(r) \/ BootstrapEnd(r) \/ InstallBpftool(r) \/ InstallInit(r)
    \/ Compile(r) \/ InstallObject(r) \/ Finish(r) \/ Fail(r)
Next ==
    \/ \E r \in Runs : Step(r)
    \/ \E u \in Ups : UpCheck(u) \/ PrepRootfs(u)
    \/ \E r \in Runs \cup Ups : Again(r)
Spec == Init /\ [][Next]_vars

-----------------------------------------------------------------------------
(* Properties. *)

\* A node never gets less than what it takes to boot (init.sh needs the
\* distribution, main.go:260 checks only for klab-init): whatever runs failed or
\* were killed before, and even while one is at work, "klab up" copies the whole
\* distribution with bpftool and klab's init, unless two runs of the script met.
CloneBoots ==
    \A u \in Ups : pc[u] = "cloned" /\ ~crowded =>
        clone[u].os = "whole" /\ clone[u].bpftool /\ clone[u].init

\* An object in a base is of the program it is named for, never a left-over of
\* another program or run in /tmp, unless two runs met.
ObjectIsItself ==
    ~crowded => \A p \in Named : base.xdp[p] \in {p, Missing}

\* A run that went to its end leaves the base the script promises
\* (mkrootfs.sh:4-7), whatever earlier runs left behind, unless two met.
Complete(t) == t.os = "whole" /\ t.bpftool /\ t.init /\ \A p \in Named : t.xdp[p] = p
DoneIsComplete ==
    \A r \in Runs : pc[r] = "done" /\ ~crowded => Complete(base)
=============================================================================
