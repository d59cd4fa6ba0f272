---------------------------- MODULE RootfsProofs ----------------------------
(***************************************************************************)
(* All properties of Rootfs, for any number of runs of the script, of      *)
(* klab ups and of programs.                                               *)
(*                                                                         *)
(* Unless two runs met, one is at work at a time (Solo), and where it is   *)
(* tells what is in the base (Reached).  klab-init in the base tells as    *)
(* much: it is installed last but for the objects, so that whoever finds   *)
(* it finds a whole distribution (Whole), and no run starts over in that   *)
(* base any more, which is why it stays whole (NoneEarly).                 *)
(***************************************************************************)
EXTENDS Rootfs, TLAPS

Solo == \A r, q \in Runs : pc[r] \in AtWork /\ pc[q] \in AtWork => r = q
Early == {"bpftool", "debootstrap", "unpack", "tools", "init"}
NoneEarly == base.init => \A r \in Runs : pc[r] \notin Early
Whole == base.init => base.os = "whole" /\ base.bpftool
Reached(r) ==
    /\ pc[r] = "tools" => base.os = "whole"
    /\ pc[r] = "init" => base.os = "whole" /\ base.bpftool
    /\ pc[r] \in {"clang", "object"} =>
          /\ base.init
          /\ \A k \in DOMAIN Programs : k < pos[r] => base.xdp[Programs[k]] = Programs[k]
    /\ pc[r] = "object" => tmp = Programs[pos[r]]
    /\ pc[r] = "done" => Complete(base)
Boots(t) == t.os = "whole" /\ t.bpftool /\ t.init

InLoop == \A r \in Runs : /\ pc[r] = "object" => pos[r] \in DOMAIN Programs
                          /\ pc[r] \in Early \cup {"check"} => pos[r] = 1
Copying == \A u \in Ups : /\ pc[u] = "clone" => base.init
                          /\ ~crowded /\ pc[u] = "cloned" => Boots(clone[u])
Uncrowded == ~crowded =>
    /\ Solo /\ NoneEarly /\ Whole
    /\ \A p \in Named : base.xdp[p] \in {p, Missing}
    /\ \A r \in Runs : Reached(r)
RootfsInv == Typed /\ InLoop /\ Copying /\ Uncrowded

-----------------------------------------------------------------------------
LEMMA ProgramIsNamed ==
    ASSUME NEW k \in DOMAIN Programs PROVE Programs[k] \in Named
  BY DEF Named

LEMMA RootfsInit == Init => RootfsInv
  <1> SUFFICES ASSUME Init PROVE RootfsInv
    OBVIOUS
  <1>1. base \in Tree /\ tmp = Missing /\ \A p \in Named : base.xdp[p] = Missing
    BY DEF Init, Tree, NoTree
  <1>2. Typed
    <2>1. NoTree \in Tree
      BY DEF Tree, NoTree
    <2>2. pc \in [Runs \cup Ups -> {"check", "clone"} \cup AtWork \cup Ended]
      BY DEF Init
    <2>3. pos \in [Runs -> Nat \ {0}]
      BY DEF Init
    <2>4. clone \in [Ups -> Tree]
      BY <2>1 DEF Init
    <2>5. crowded \in BOOLEAN
      BY DEF Init
    <2> QED
      BY <1>1, <2>2, <2>3, <2>4, <2>5 DEF Typed
  <1>3. InLoop /\ Copying
    BY DEF Init, InLoop, Copying, NoTree
  <1>4. Uncrowded
    BY <1>1 DEF Init, Uncrowded, Solo, NoneEarly, Whole, Reached, AtWork, Early, NoTree
  <1> QED
    BY <1>2, <1>3, <1>4 DEF RootfsInv

LEMMA TypeStep ==
    ASSUME RootfsInv, Next PROVE Typed' /\ InLoop'
  <1> USE DEF Typed, InLoop, To, Early
  <1>a. Typed /\ InLoop /\ Runs \cap Ups = {}
    BY ProgramsAssumption DEF RootfsInv
  <1>1. ASSUME NEW r \in Runs, Step(r) PROVE Typed' /\ InLoop'
    <2>1. CASE CheckBase(r) \/ MakeBpftool(r) \/ Fail(r)
      BY <1>a, <2>1 DEF CheckBase, MakeBpftool, Fail, AtWork, Ended
    <2>2. CASE BootstrapBegin(r) \/ BootstrapEnd(r) \/ InstallBpftool(r) \/ InstallInit(r)
      BY ZenonT(60), <1>a, <2>2
         DEF BootstrapBegin, BootstrapEnd, InstallBpftool, InstallInit, AtWork, Ended, Tree
    <2>3. CASE Compile(r)
      BY <1>a, <2>3, ProgramIsNamed DEF Compile, AtWork, Ended
    <2>4. CASE InstallObject(r)
      BY <1>a, <2>4, ProgramIsNamed DEF InstallObject, AtWork, Ended, Tree
    <2>5. CASE Finish(r)
      BY <1>a, <2>5 DEF Finish, AtWork, Ended
    <2> QED
      BY <1>1, <2>1, <2>2, <2>3, <2>4, <2>5 DEF Step
  <1>2. ASSUME NEW u \in Ups, UpCheck(u) \/ PrepRootfs(u) PROVE Typed' /\ InLoop'
    BY <1>a, <1>2 DEF UpCheck, PrepRootfs, AtWork, Ended
  <1>3. ASSUME NEW r \in Runs \cup Ups, Again(r) PROVE Typed' /\ InLoop'
    BY <1>a, <1>3 DEF Again, AtWork, Ended, Tree, NoTree
  <1> QED
    BY <1>1, <1>2, <1>3 DEF Next

\* klab-init is never removed, and a crowd is never forgotten.
LEMMA CopyingStep ==
    ASSUME RootfsInv, Next PROVE Copying'
  <1>a. Typed /\ Copying /\ Uncrowded /\ Runs \cap Ups = {}
    BY ProgramsAssumption DEF RootfsInv
  <1>1. ASSUME NEW r \in Runs, Step(r) PROVE Copying'
    <2>1. /\ \A u \in Ups : pc'[u] = pc[u]
          /\ clone' = clone /\ (crowded => crowded')
      BY <1>1, <1>a
         DEF Step, CheckBase, MakeBpftool, BootstrapBegin, BootstrapEnd, InstallBpftool,
             InstallInit, Compile, InstallObject, Finish, Fail, To, Typed
    <2>2. base.init => base'.init
      BY <1>1, <1>a
         DEF Step, CheckBase, MakeBpftool, BootstrapBegin, BootstrapEnd, InstallBpftool,
             InstallInit, Compile, InstallObject, Finish, Fail, Typed, Tree
    <2> QED
      BY <1>a, <2>1, <2>2 DEF Copying, Boots
  <1>2. ASSUME NEW u \in Ups, UpCheck(u) PROVE Copying'
    BY <1>2, <1>a DEF UpCheck, Copying, Boots, To, Typed
  <1>3. ASSUME NEW u \in Ups, PrepRootfs(u) PROVE Copying'
    BY <1>3, <1>a DEF PrepRootfs, Copying, Boots, To, Typed, Uncrowded, Whole
  <1>4. ASSUME NEW r \in Runs \cup Ups, Again(r) PROVE Copying'
    BY <1>4, <1>a DEF Again, Copying, Boots, To, Typed
  <1> QED
    BY <1>1, <1>2, <1>3, <1>4 DEF Next

-----------------------------------------------------------------------------
(* As long as no two runs meet. *)

\* A run that works on the base is the only one, so that it answers for itself;
\* of the others it is to keep what was promised when they were done.
LEMMA SoloStep ==
    ASSUME RootfsInv, NEW r \in Runs, Step(r), ~crowded'
    PROVE  ~crowded /\ Solo' /\ \A q \in Runs \ {r} : pc'[q] = pc[q] /\ pos'[q] = pos[q]
  <1>a. Typed /\ Uncrowded
    BY DEF RootfsInv
  <1>1. ~crowded
    BY <1>a DEF Step, CheckBase, MakeBpftool, BootstrapBegin, BootstrapEnd, InstallBpftool,
                InstallInit, Compile, InstallObject, Finish, Fail, Typed
  <1>2. \A q \in Runs \ {r} : pc'[q] = pc[q] /\ pos'[q] = pos[q]
    BY <1>a DEF Step, CheckBase, MakeBpftool, BootstrapBegin, BootstrapEnd, InstallBpftool,
                InstallInit, Compile, InstallObject, Finish, Fail, Typed, To
  <1>3. CASE CheckBase(r)
    BY <1>a, <1>1, <1>2, <1>3 DEF CheckBase, Uncrowded, Solo, To, Typed, AtWork
  <1>4. CASE ~CheckBase(r)
    <2>1. pc[r] \in AtWork
      BY <1>4 DEF Step, MakeBpftool, BootstrapBegin, BootstrapEnd, InstallBpftool,
                  InstallInit, Compile, InstallObject, Finish, Fail, AtWork
    <2> QED
      BY <1>a, <1>1, <1>2, <2>1 DEF Uncrowded, Solo
  <1> QED
    BY <1>1, <1>2, <1>3, <1>4

LEMMA UncrowdedStep ==
    ASSUME RootfsInv, Typed', NEW r \in Runs, Step(r), ~crowded'
    PROVE  /\ NoneEarly' /\ Whole' /\ (\A p \in Named : base'.xdp[p] \in {p, Missing})
           /\ \A q \in Runs : Reached(q)'
  <1>a. /\ Typed /\ InLoop /\ Uncrowded /\ ~crowded
        /\ \A q \in Runs \ {r} : pc'[q] = pc[q] /\ pos'[q] = pos[q]
        /\ Solo /\ NoneEarly /\ Whole /\ \A p \in Named : base.xdp[p] \in {p, Missing}
        /\ \A q \in Runs : Reached(q)
    BY SoloStep DEF RootfsInv, Uncrowded
  <1>b. pc[r] \in AtWork => \A q \in Runs \ {r} : pc[q] \notin AtWork
    BY <1>a DEF Solo
  <1>c. pos[r] \in Nat \ {0} /\ Programs \in Seq(Named)
    BY <1>a, ProgramsAssumption DEF Typed
  <1>1. CASE CheckBase(r)
    <2>1. UNCHANGED <<base, tmp, pos>> /\ pc'[r] \in {"present", "bpftool"}
          /\ (base.init => pc'[r] = "present")
      BY <1>1, <1>a DEF CheckBase, To, Typed
    <2> QED
      BY <1>a, <2>1 DEF NoneEarly, Early, Whole, Reached, Complete
  <1>2. CASE MakeBpftool(r) \/ Fail(r)
    <2>1. /\ UNCHANGED <<base, tmp, pos>> /\ pc'[r] \in {"debootstrap", "failed"}
          /\ (pc'[r] = "debootstrap" => pc[r] = "bpftool")
      BY <1>2, <1>a DEF MakeBpftool, Fail, To, Typed
    <2> QED
      BY <1>a, <2>1 DEF NoneEarly, Early, Whole, Reached, Complete
  <1>3. CASE BootstrapBegin(r) \/ BootstrapEnd(r) \/ InstallBpftool(r)
    <2>1. /\ pc[r] \in Early /\ pc[r] \in AtWork /\ pc'[r] \in Early
          /\ ~base.init /\ base'.init = base.init /\ base'.xdp = base.xdp
      BY <1>3, <1>a DEF BootstrapBegin, BootstrapEnd, InstallBpftool, To, Typed, Tree,
                        Early, AtWork, NoneEarly
    <2>2. Reached(r)'
      BY <1>3, <1>a DEF BootstrapBegin, BootstrapEnd, InstallBpftool, To, Typed, Tree, Reached
    <2>3. ASSUME NEW q \in Runs \ {r} PROVE Reached(q)'
      <3>1. pc'[q] \notin AtWork /\ pc'[q] # "done"
        BY <1>a, <1>b, <2>1 DEF Reached, Complete
      <3> QED
        BY <3>1 DEF Reached, AtWork
    <2> QED
      BY <1>a, <2>1, <2>2, <2>3 DEF NoneEarly, Whole
  <1>4. CASE InstallInit(r)
    <2>1. /\ pc[r] = "init" /\ pc'[r] = "clang" /\ UNCHANGED <<tmp, pos>>
          /\ base' = [base EXCEPT !.init = TRUE]
      BY <1>4, <1>a DEF InstallInit, To, Typed
    <2>2. base'.os = "whole" /\ base'.bpftool /\ base'.init /\ base'.xdp = base.xdp
      BY <1>a, <2>1 DEF Reached, Typed, Tree
    <2>3. \A q \in Runs \ {r} : pc'[q] \notin AtWork
      BY <1>a, <1>b, <2>1 DEF AtWork
    <2>4. NoneEarly' /\ Whole'
      BY <2>1, <2>2, <2>3 DEF NoneEarly, Whole, Early, AtWork
    <2>5. pos'[r] = 1
      BY <1>a, <2>1 DEF InLoop, Early
    <2>6. Reached(r)'
      BY <1>c, <2>1, <2>2, <2>5 DEF Reached
    <2>7. ASSUME NEW q \in Runs \ {r} PROVE Reached(q)'
      BY <1>a, <2>1, <2>2, <2>3 DEF Reached, Complete, AtWork
    <2> QED
      BY <1>a, <2>2, <2>4, <2>6, <2>7
  <1>5. CASE Compile(r)
    <2>1. /\ pc[r] = "clang" /\ pc'[r] = "object" /\ UNCHANGED <<base, pos>>
          /\ tmp' = Programs[pos[r]]
      BY <1>5, <1>a DEF Compile, To, Typed
    <2>2. \A q \in Runs \ {r} : pc'[q] \notin AtWork
      BY <1>a, <1>b, <2>1 DEF AtWork
    <2> QED
      BY <1>a, <2>1, <2>2 DEF NoneEarly, Early, Whole, Reached, Complete, AtWork
  <1>6. CASE InstallObject(r)
    <2> DEFINE name == Programs[pos[r]]
    <2>1. /\ pc[r] = "object" /\ pc'[r] = "clang" /\ pos[r] \in DOMAIN Programs
          /\ pos'[r] = pos[r] + 1 /\ tmp = name /\ name \in Named
          /\ base' = [base EXCEPT !.xdp[name] = tmp]
      BY <1>6, <1>a, ProgramIsNamed DEF InstallObject, To, Typed, InLoop, Reached
    <2>2. /\ base'.os = base.os /\ base'.bpftool = base.bpftool /\ base'.init = base.init
          /\ base'.xdp[name] = name
          /\ \A p \in Named \ {name} : base'.xdp[p] = base.xdp[p]
      BY <1>a, <2>1 DEF Typed, Tree
    <2>3. \A q \in Runs \ {r} : pc'[q] \notin AtWork
      BY <1>a, <1>b, <2>1 DEF AtWork
    <2>4. \A p \in Named : base'.xdp[p] \in {p, Missing} /\ (base.xdp[p] = p => base'.xdp[p] = p)
      BY <1>a, <2>2
    <2>5. ASSUME NEW k \in DOMAIN Programs, k < pos'[r] PROVE base'.xdp[Programs[k]] = Programs[k]
      <3>1. CASE k = pos[r]
        BY <2>2, <3>1
      <3>2. CASE k # pos[r]
        <4>1. k < pos[r]
          <5>1. k \in Nat
            BY <1>c
          <5> QED
            BY <1>c, <2>1, <2>5, <3>2, <5>1
        <4>2. base.xdp[Programs[k]] = Programs[k]
          BY <1>a, <2>1, <4>1 DEF Reached
        <4> QED
          BY <2>4, <4>2, ProgramIsNamed
      <3> QED
        BY <3>1, <3>2
    <2>6. Reached(r)'
      BY <1>a, <2>1, <2>2, <2>5 DEF Reached
    <2>7. ASSUME NEW q \in Runs \ {r} PROVE Reached(q)'
      BY <1>a, <2>2, <2>3, <2>4 DEF Reached, Complete, AtWork
    <2>8. NoneEarly' /\ Whole'
      BY <1>a, <2>1, <2>2 DEF NoneEarly, Early, Whole
    <2> QED
      BY <2>4, <2>6, <2>7, <2>8
  <1>7. CASE Finish(r)
    <2>1. /\ pc[r] = "clang" /\ pc'[r] = "done" /\ UNCHANGED <<base, pos>>
          /\ pos[r] \notin DOMAIN Programs
      BY <1>7, <1>a DEF Finish, To, Typed
    <2>2. \A q \in Runs \ {r} : pc'[q] \notin AtWork
      BY <1>a, <1>b, <2>1 DEF AtWork
    <2>3. Complete(base)
      <3>1. base.os = "whole" /\ base.bpftool /\ base.init
        BY <1>a, <2>1 DEF Reached, Whole
      <3>2. \A p \in Named : base.xdp[p] = p
        <4> SUFFICES ASSUME NEW p \in Named PROVE base.xdp[p] = p
          OBVIOUS
        <4>1. PICK k \in DOMAIN Programs : p = Programs[k]
          BY DEF Named
        <4>2. k < pos[r]
          BY <1>c, <2>1
        <4> QED
          BY <1>a, <2>1, <4>1, <4>2 DEF Reached
      <3> QED
        BY <3>1, <3>2 DEF Complete
    <2> QED
      BY <1>a, <2>1, <2>2, <2>3 DEF NoneEarly, Early, Whole, Reached, Complete, AtWork
  <1> QED
    BY <1>1, <1>2, <1>3, <1>4, <1>5, <1>6, <1>7 DEF Step

\* What is not a step of a run leaves the base and /tmp alone.
LEMMA OtherStep ==
    ASSUME RootfsInv, UNCHANGED <<base, tmp, crowded>>,
           NEW r \in Runs \cup Ups, pc'[r] \in {"check", "clone"} \cup Ended, pc'[r] # "done",
           \A q \in Runs \ {r} : pc'[q] = pc[q] /\ pos'[q] = pos[q]
    PROVE  Uncrowded'
  <1>1. SUFFICES ASSUME ~crowded
                 PROVE  /\ Solo' /\ NoneEarly' /\ Whole' /\ \A q \in Runs : Reached(q)'
                        /\ \A p \in Named : base'.xdp[p] \in {p, Missing}
    BY DEF Uncrowded
  <1>2. Solo /\ NoneEarly /\ Whole /\ \A q \in Runs : Reached(q)
    BY <1>1 DEF RootfsInv, Uncrowded
  <1>3. pc'[r] \notin AtWork /\ pc'[r] \notin Early
    BY DEF AtWork, Early, Ended
  <1>4. Solo' /\ NoneEarly' /\ Whole'
    BY <1>2, <1>3 DEF Solo, NoneEarly, Whole
  <1>5. ASSUME NEW q \in Runs PROVE Reached(q)'
    <2>1. CASE q = r
      BY <1>3, <2>1 DEF Reached, AtWork
    <2>2. CASE q # r
      BY <1>2, <2>2 DEF Reached, Complete
    <2> QED
      BY <2>1, <2>2
  <1> QED
    BY <1>1, <1>4, <1>5 DEF RootfsInv, Uncrowded

LEMMA RootfsStep == RootfsInv /\ [Next]_vars => RootfsInv'
  <1> SUFFICES ASSUME RootfsInv, [Next]_vars PROVE RootfsInv'
    OBVIOUS
  <1>1. CASE UNCHANGED vars
    BY <1>1 DEF vars, RootfsInv, Typed, InLoop, Copying, Uncrowded, Solo, NoneEarly, Whole,
                Reached, Complete, Boots
  <1>2. CASE Next
    <2>1. Typed' /\ InLoop' /\ Copying'
      BY <1>2, TypeStep, CopyingStep
    <2>2. Typed /\ Runs \cap Ups = {}
      BY ProgramsAssumption DEF RootfsInv
    <2>3. ASSUME NEW r \in Runs, Step(r) PROVE Uncrowded'
      BY <2>1, <2>3, SoloStep, UncrowdedStep DEF Uncrowded
    <2>4. ASSUME NEW u \in Ups, UpCheck(u) \/ PrepRootfs(u) PROVE Uncrowded'
      <3>1. /\ UNCHANGED <<base, tmp, crowded>>
            /\ pc'[u] \in {"check", "clone"} \cup Ended /\ pc'[u] # "done"
            /\ \A q \in Runs \ {u} : pc'[q] = pc[q] /\ pos'[q] = pos[q]
        BY <2>2, <2>4 DEF UpCheck, PrepRootfs, To, Typed, Ended
      <3> QED
        BY <3>1, OtherStep
    <2>5. ASSUME NEW r \in Runs \cup Ups, Again(r) PROVE Uncrowded'
      <3>1. /\ UNCHANGED <<base, tmp, crowded>>
            /\ pc'[r] \in {"check", "clone"} \cup Ended /\ pc'[r] # "done"
            /\ \A q \in Runs \ {r} : pc'[q] = pc[q] /\ pos'[q] = pos[q]
        BY <2>2, <2>5 DEF Again, To, Typed
      <3> QED
        BY <3>1, OtherStep
    <2>6. Uncrowded'
      BY <1>2, <2>3, <2>4, <2>5 DEF Next
    <2> QED
      BY <2>1, <2>6 DEF RootfsInv
  <1> QED
    BY <1>1, <1>2

-----------------------------------------------------------------------------
LEMMA RootfsInvariant == Spec => []RootfsInv
  <1> QED
    BY RootfsInit, RootfsStep, PTL DEF Spec

\* Type correctness of the script's and klab up's state; an object that is to be
\* installed is there.
THEOREM RootfsTypeOK == Spec => []TypeOK
  <1>1. RootfsInv => TypeOK
    <2>1. ASSUME RootfsInv, ~crowded, NEW r \in Runs, pc[r] = "object"
          PROVE  tmp # Missing
      <3>1. tmp = Programs[pos[r]] /\ pos[r] \in DOMAIN Programs
        BY <2>1 DEF RootfsInv, Uncrowded, Reached, InLoop
      <3> QED
        BY <3>1, ProgramIsNamed, ProgramsAssumption
    <2> QED
      BY <2>1 DEF RootfsInv, TypeOK
  <1> QED
    BY <1>1, RootfsInvariant, PTL

\* Whatever runs of mkrootfs.sh failed before, or are at work, "klab up" copies
\* the whole of what a node boots from, unless two runs met (main.go:260).
THEOREM RootfsCloneBoots == Spec => []CloneBoots
  <1>1. RootfsInv => CloneBoots
    BY DEF RootfsInv, Copying, CloneBoots, Boots
  <1> QED
    BY <1>1, RootfsInvariant, PTL

\* The one object file in /tmp is never installed under another program's name,
\* unless two runs met (mkrootfs.sh:49-52).
THEOREM RootfsObjects == Spec => []ObjectIsItself
  <1>1. RootfsInv => ObjectIsItself
    BY DEF RootfsInv, Uncrowded, ObjectIsItself
  <1> QED
    BY <1>1, RootfsInvariant, PTL

\* A run that reaches its end leaves the base complete, and complete it stays,
\* unless two runs met (mkrootfs.sh:27-55).
THEOREM RootfsComplete == Spec => []DoneIsComplete
  <1>1. RootfsInv => DoneIsComplete
    BY DEF RootfsInv, Uncrowded, Reached, DoneIsComplete
  <1> QED
    BY <1>1, RootfsInvariant, PTL
=============================================================================
