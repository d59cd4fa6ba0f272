----------------------------- MODULE LabProofs -----------------------------
(***************************************************************************)
(* Proofs about Cluster and Lab, for every set of klab processes,          *)
(* topologies, nodes, devices and process ids, and with mishaps of both    *)
(* kinds: type correctness; what a Down leaves (DownInv); that a host's    *)
(* life is a behaviour of LabService (LabInv); and what an Up that         *)
(* returned success promises from then on (UpInv).  Each of the four parts *)
(* adds to the invariant of the one before it.                             *)
(***************************************************************************)
EXTENDS Lab, TLAPS

-----------------------------------------------------------------------------
(***************************************************************************)
(* Part 1.  The types of Cluster, with which a loop over the nodes of a    *)
(* topology never runs past its end.                                       *)
(***************************************************************************)

\* Between two passes of a loop over the nodes, the node is one of them.
InNodeLoop == {"launch", "wait", "reap", "force", "pkill", "ping"}
Inside(c) == pc[c] \in InNodeLoop => pos[c] <= Len(Plans[topo[c]].nodes)

TypeInv == TypeOK /\ \A c \in Clis : Inside(c)

-----------------------------------------------------------------------------
(* What a loop's item is. *)

LEMMA PlanTypes ==
    ASSUME NEW t \in Topos
    PROVE  /\ Plans[t].bridges \in Seq(Bridges)
           /\ Plans[t].taps \in Seq(TapPlan)
           /\ Plans[t].nodes \in Seq(Nodes)
  BY PlansAssumption DEF PlanType

LEMMA BridgeItem ==
    ASSUME TypeOK, NEW c \in Clis, pc[c] = "bridge", More(c)
    PROVE  Item(c) \in Bridges /\ Item(c) \in BridgesOf(topo[c])
  <1>1. topo[c] \in Topos /\ pos[c] \in Nat \ {0}
    BY DEF TypeOK
  <1>2. Items(c) = Plans[topo[c]].bridges
    BY DEF Items
  <1>3. pos[c] \in 1..Len(Plans[topo[c]].bridges)
    BY <1>1, <1>2, PlanTypes DEF More
  <1> QED
    BY <1>1, <1>2, <1>3, PlanTypes DEF Item, BridgesOf

LEMMA TapItem ==
    ASSUME TypeOK, NEW c \in Clis, pc[c] \in {"tap", "ip"}, More(c)
    PROVE  Item(c) \in TapPlan /\ Item(c).name \in TapsOf(topo[c])
  <1>1. topo[c] \in Topos /\ pos[c] \in Nat \ {0}
    BY DEF TypeOK
  <1>2. Items(c) = Plans[topo[c]].taps
    BY DEF Items
  <1>3. pos[c] \in 1..Len(Plans[topo[c]].taps)
    BY <1>1, <1>2, PlanTypes DEF More
  <1> QED
    BY <1>1, <1>2, <1>3, PlanTypes DEF Item, TapsOf

NodeLoops == InNodeLoop \cup {"prep", "stop", "status"}
LEMMA NodeItem ==
    ASSUME TypeOK, NEW c \in Clis, pc[c] \in NodeLoops,
           pos[c] <= Len(Plans[topo[c]].nodes)
    PROVE  /\ Item(c) = Plans[topo[c]].nodes[pos[c]]
           /\ Item(c) \in Nodes /\ Item(c) \in NodesOf(topo[c])
           /\ More(c)
  <1>1. topo[c] \in Topos /\ pos[c] \in Nat \ {0}
    BY DEF TypeOK
  <1>2. Items(c) = Plans[topo[c]].nodes
    BY DEF Items, NodeLoops, InNodeLoop
  <1>3. pos[c] \in 1..Len(Plans[topo[c]].nodes)
    BY <1>1, PlanTypes
  <1> QED
    BY <1>1, <1>2, <1>3, PlanTypes DEF Item, NodesOf, More

LEMMA NodeLoopMore ==
    ASSUME TypeInv, NEW c \in Clis,
           pc[c] \in InNodeLoop \/ (pc[c] \in {"prep", "stop", "status"} /\ More(c))
    PROVE  pos[c] <= Len(Plans[topo[c]].nodes)
  BY DEF TypeInv, Inside, More, Items, InNodeLoop

-----------------------------------------------------------------------------
(* What the helpers return. *)

LEMMA AnyTopoType == AnyTopo \in Topos
  BY PlansAssumption DEF AnyTopo

LEMMA NicsType == ASSUME NEW t \in Topos, NEW n \in Nodes
                  PROVE  NicsOf(t, n) \subseteq Taps
  <1>1. Plans[t].taps \in Seq(TapPlan)
    BY PlanTypes
  <1>2. \A k \in DOMAIN Plans[t].taps : Plans[t].taps[k] \in TapPlan
    BY <1>1
  <1> QED
    BY <1>2 DEF NicsOf, TapPlan

LEMMA NoProcessType == NoProcess \in Process
  BY DEF NoProcess, Process

\* Each update the actions make to a process leaves a process.
LEMMA ProcessUpdate ==
    ASSUME NEW q \in Process
    PROVE  /\ \A f \in BOOLEAN : [q EXCEPT !.live = f] \in Process
           /\ \A f \in BOOLEAN : [q EXCEPT !.ready = f] \in Process
           /\ \A w \in Nodes \cup {Free, Foreign} : [q EXCEPT !.who = w] \in Process
           /\ \A S \in SUBSET Taps : [q EXCEPT !.nics = S] \in Process
           /\ \A S \in SUBSET Taps : [q EXCEPT !.addrs = S] \in Process
           /\ q.nics \in SUBSET Taps /\ q.addrs \in SUBSET Taps
  BY DEF Process

LEMMA FreshDirType ==
    ASSUME TypeOK, NEW n \in Nodes, FreshDir(n)
    PROVE  proc' \in [Pids -> Process] /\ dir' \in [Nodes -> RunDir]
  <1>1. ASSUME NEW p \in Pids
        PROVE  [proc[p] EXCEPT !.live = @ /\ proc[p].who # n] \in Process
    <2> DEFINE f == proc[p].live /\ proc[p].who # n
    <2>1. proc[p] \in Process
      BY DEF TypeOK
    <2>2. f \in BOOLEAN
      OBVIOUS
    <2> HIDE DEF f
    <2>3. [proc[p] EXCEPT !.live = f] \in Process
      BY <2>1, <2>2, ProcessUpdate
    <2> QED
      BY <2>3 DEF f
  <1>2. proc' \in [Pids -> Process]
    BY <1>1 DEF FreshDir
  <1>3. dir' \in [Nodes -> RunDir]
    BY DEF FreshDir, NoDir, RunDir, TypeOK
  <1> QED
    BY <1>2, <1>3

LEMMA KillType == ASSUME TypeOK, NEW S PROVE Kill(S) \in [Pids -> Process]
  BY NoProcessType DEF Kill, TypeOK

\* A killed process is Free and a spared one is what it was.
LEMMA KillWho ==
    ASSUME NEW S, NEW p \in Pids
    PROVE  Kill(S)[p].who = IF p \in S THEN Free ELSE proc[p].who
  BY DEF Kill, NoProcess

-----------------------------------------------------------------------------
(* Type correctness. *)

\* A cli moves to a label, keeps to the nodes of its topology, and the other
\* cli stay where they are.
LEMMA Move ==
    ASSUME TypeInv, NEW c \in Clis, NEW label \in Labels, NEW k \in Nat \ {0},
           Goto(c, label, k), UNCHANGED topo,
           label \in InNodeLoop => k <= Len(Plans[topo[c]].nodes)
    PROVE  /\ pc' \in [Clis -> Labels]
           /\ pos' \in [Clis -> Nat \ {0}]
           /\ \A x \in Clis : Inside(x)'
  BY DEF Goto, TypeInv, TypeOK, Inside

USE DEF host

LEMMA TypeInit == Init => TypeInv
  BY AnyTopoType, NoProcessType
     DEF Init, TypeInv, TypeOK, Inside, InNodeLoop, Labels, RunDir, NoDir, Verdicts

LEMMA LabelsOf ==
    /\ UpSteps \subseteq Labels /\ DownSteps \subseteq Labels
    /\ StatusSteps \subseteq Labels /\ Final \subseteq Labels /\ "idle" \in Labels
  BY DEF Labels

LEMMA PosType == ASSUME TypeInv, NEW c \in Clis
                 PROVE  /\ topo[c] \in Topos /\ Inside(c) /\ TypeOK
                        /\ pos[c] \in Nat \ {0} /\ pos[c] + 1 \in Nat \ {0}
  BY DEF TypeInv, TypeOK

\* A command begins, ends or is killed.
LEMMA TypeCommand ==
    ASSUME TypeInv, NEW c \in Clis, Start(c) \/ Return(c) \/ Crash(c) \/ LoopDone(c)
    PROVE  TypeInv'
  <1> USE DEF TypeInv, InNodeLoop
  <1>1. ASSUME NEW t \in Topos, NEW label \in {"bridge", "stop"}, StartChanging(c, t, label)
        PROVE  TypeInv'
    <2>1. calm' \in [Clis -> BOOLEAN]
      <3>1. ASSUME NEW x \in Clis
            PROVE  (IF x = c THEN \A y \in Clis \ {c} : Busy(y) => ~Overlap(topo[y], t)
                             ELSE calm[x] /\ ~Overlap(topo[x], t)) \in BOOLEAN
        OBVIOUS
      <3> QED
        BY <1>1, <3>1 DEF StartChanging
    <2>2. label \in Labels /\ label \notin InNodeLoop
      BY DEF Labels, UpSteps, DownSteps
    <2>3. pc' \in [Clis -> Labels] /\ pos' \in [Clis -> Nat \ {0}] /\ topo' \in [Clis -> Topos]
      BY <1>1, <2>2 DEF StartChanging, Goto, TypeOK
    <2>4. \A x \in Clis : Inside(x)'
      BY <1>1, <2>2 DEF StartChanging, Goto, TypeOK, Inside
    <2>5. up' \subseteq Topos
      BY <1>1 DEF StartChanging, TypeOK
    <2> QED
      BY <1>1, <2>1, <2>3, <2>4, <2>5 DEF StartChanging, TypeOK
  <1>2. ASSUME NEW t \in Topos, StartStatus(c, t)
        PROVE  TypeInv'
    BY <1>2 DEF StartStatus, Goto, TypeOK, Inside, Labels, StatusSteps
  <1>3. ASSUME Reset(c)
        PROVE  TypeInv'
    BY <1>3, AnyTopoType DEF Reset, Goto, TypeOK, Inside, Labels, Verdicts
  <1>4. CASE LoopDone(c)
    <2>1. AfterLoop[pc[c]] \in Labels \ InNodeLoop
      BY <1>4 DEF LoopDone, AfterLoop, Labels, UpSteps, DownSteps, Final
    <2>2. /\ pc' \in [Clis -> Labels] /\ pos' \in [Clis -> Nat \ {0}]
          /\ \A x \in Clis : Inside(x)'
      BY <1>4, <2>1, Move DEF LoopDone
    <2> QED
      BY <1>4, <2>2 DEF LoopDone, TypeOK
  <1> QED
    BY <1>1, <1>2, <1>3, <1>4 DEF Start, StartUp, StartDown, Return, Crash

\* The steps of Up.
LEMMA TypeUp ==
    ASSUME TypeInv, NEW c \in Clis,
           \/ CreateBridge(c) \/ CreateTap(c) \/ PrepNode(c) \/ RefuseNode(c)
           \/ Launch(c) \/ SeeReady(c) \/ BootTimeout(c) \/ ReapBoot(c)
           \/ SkipIP(c) \/ AssignIP(c) \/ FailIP(c)
    PROVE  TypeInv'
  <1> DEFINE Moved == /\ pc' \in [Clis -> Labels] /\ pos' \in [Clis -> Nat \ {0}]
                      /\ \A x \in Clis : Inside(x)'
  <1>a. /\ TypeOK /\ Inside(c) /\ pos[c] \in Nat \ {0} /\ pos[c] + 1 \in Nat \ {0}
        /\ 1 \in Nat \ {0}
    BY PosType
  <1>b. {"bridge", "tap", "prep", "launch", "wait", "reap", "ip", "upErr"} \subseteq Labels
    BY DEF Labels, UpSteps, Final
  <1>1. CASE CreateBridge(c)
    <2>1. Moved
      BY <1>1, <1>a, <1>b, Move DEF CreateBridge, InNodeLoop
    <2> QED
      BY <1>1, <1>a, <2>1, BridgeItem DEF CreateBridge, TypeInv, TypeOK
  <1>2. CASE CreateTap(c)
    <2>1. Moved
      BY <1>2, <1>a, <1>b, Move DEF CreateTap, InNodeLoop
    <2>2. tap' \in [Taps -> Bridges \cup {Absent, Loose}]
      BY <1>2, <1>a, TapItem DEF CreateTap, TypeOK, TapPlan
    <2> QED
      BY <1>2, <1>a, <2>1, <2>2 DEF CreateTap, TypeInv, TypeOK
  <1>3. CASE PrepNode(c)
    <2>1. Item(c) \in Nodes /\ pos[c] <= Len(Plans[topo[c]].nodes)
      BY <1>3, <1>a, NodeItem, NodeLoopMore DEF PrepNode, NodeLoops
    <2>2. Moved
      BY <1>3, <1>a, <1>b, <2>1, Move DEF PrepNode, Fail, InNodeLoop
    <2>3. proc' \in [Pids -> Process] /\ dir' \in [Nodes -> RunDir]
      BY <1>3, <1>a, <2>1, FreshDirType DEF PrepNode
    <2> QED
      BY <1>3, <1>a, <2>2, <2>3 DEF PrepNode, TypeInv, TypeOK
  <1>4. CASE RefuseNode(c)
    <2>1. Moved
      BY <1>4, <1>a, <1>b, Move DEF RefuseNode, Fail, InNodeLoop
    <2> QED
      BY <1>4, <1>a, <2>1 DEF RefuseNode, TypeInv, TypeOK
  <1>5. CASE Launch(c)
    <2>1. Item(c) \in Nodes /\ pos[c] <= Len(Plans[topo[c]].nodes)
      BY <1>5, <1>a, NodeItem, NodeLoopMore DEF Launch, NodeLoops, InNodeLoop
    <2>2. Moved
      BY <1>5, <1>a, <1>b, <2>1, Move DEF Launch
    <2> DEFINE nics == NicsOf(topo[c], Item(c))
               qemu == [NoProcess EXCEPT !.who = Item(c), !.nics = nics, !.live = TRUE]
    <2>3. qemu \in Process
      BY <2>1, PosType, NicsType DEF NoProcess, Process
    <2>4. \A p \in Pids : Recorded(Item(c), p) \in [Nodes -> RunDir]
      BY <1>a, <2>1 DEF Recorded, RunDir, TypeOK
    <2>5. proc' \in [Pids -> Process] /\ dir' \in [Nodes -> RunDir]
      <3> HIDE DEF qemu
      <3>1. \/ UNCHANGED <<proc, dir>>
            \/ \E p \in Pids : /\ dir' = Recorded(Item(c), p)
                               /\ proc' \in {proc, [proc EXCEPT ![p] = qemu]}
        BY <1>5 DEF Launch, qemu
      <3> QED
        BY <1>a, <2>3, <2>4, <3>1 DEF TypeOK
    <2> QED
      BY <1>5, <1>a, <2>2, <2>5 DEF Launch, TypeInv, TypeOK
  <1>6. CASE SeeReady(c) \/ BootTimeout(c)
    <2>1. Moved
      BY <1>6, <1>a, <1>b, Move DEF SeeReady, BootTimeout, InNodeLoop, Inside
    <2> QED
      BY <1>6, <1>a, <2>1 DEF SeeReady, BootTimeout, TypeInv, TypeOK
  <1>7. CASE ReapBoot(c)
    <2>1. Moved
      BY <1>7, <1>a, <1>b, Move DEF ReapBoot, Fail, InNodeLoop
    <2> QED
      BY <1>7, <1>a, <2>1, KillType DEF ReapBoot, TypeInv, TypeOK
  <1>8. CASE SkipIP(c) \/ FailIP(c)
    <2>1. Moved
      BY <1>8, <1>a, <1>b, Move DEF SkipIP, FailIP, Fail, InNodeLoop
    <2> QED
      BY <1>8, <1>a, <2>1 DEF SkipIP, FailIP, TypeInv, TypeOK
  <1>9. CASE AssignIP(c)
    <2>1. Item(c).name \in Taps
      BY <1>9, <1>a, TapItem DEF AssignIP, TapPlan
    <2>2. Moved
      BY <1>9, <1>a, <1>b, Move DEF AssignIP, InNodeLoop
    <2>3. proc' \in [Pids -> Process]
      <3>1. PICK p \in Pids : proc' = [proc EXCEPT ![p] =
                                [proc[p] EXCEPT !.addrs = @ \cup {Item(c).name}]]
        BY <1>9 DEF AssignIP, ProcessesOf
      <3>2. [proc[p] EXCEPT !.addrs = @ \cup {Item(c).name}] \in Process
        BY <1>a, <2>1, ProcessUpdate DEF TypeOK
      <3> QED
        BY <1>a, <3>1, <3>2 DEF TypeOK
    <2> QED
      BY <1>9, <1>a, <2>2, <2>3 DEF AssignIP, TypeInv, TypeOK
  <1> QED
    BY <1>1, <1>2, <1>3, <1>4, <1>5, <1>6, <1>7, <1>8, <1>9

\* The steps of Down.
LEMMA TypeDown ==
    ASSUME TypeInv, NEW c \in Clis,
           StopNode(c) \/ StopForce(c) \/ PkillNode(c) \/ DeleteLinks(c)
    PROVE  TypeInv'
  <1> DEFINE Moved == /\ pc' \in [Clis -> Labels] /\ pos' \in [Clis -> Nat \ {0}]
                      /\ \A x \in Clis : Inside(x)'
  <1>a. /\ TypeOK /\ Inside(c) /\ pos[c] \in Nat \ {0} /\ pos[c] + 1 \in Nat \ {0}
        /\ 1 \in Nat \ {0}
    BY PosType
  <1>b. {"stop", "force", "pkill", "links", "downOk"} \subseteq Labels
    BY DEF Labels, DownSteps, Final
  <1>1. CASE StopNode(c)
    <2>1. Item(c) \in Nodes /\ pos[c] <= Len(Plans[topo[c]].nodes)
      BY <1>1, <1>a, NodeItem, NodeLoopMore DEF StopNode, NodeLoops
    <2>2. Moved
      BY <1>1, <1>a, <1>b, <2>1, Move DEF StopNode
    <2>3. victim' \in [Clis -> Pids \cup {NoPid}]
      BY <1>1, <1>a, <2>1 DEF StopNode, TypeOK, RunDir
    <2>4. proc' \in [Pids -> Process]
      BY <1>1, <1>a, KillType DEF StopNode, TypeOK
    <2> QED
      BY <1>1, <1>a, <2>2, <2>3, <2>4 DEF StopNode, TypeInv, TypeOK
  <1>2. CASE StopForce(c)
    <2>1. Moved
      BY <1>2, <1>a, <1>b, Move DEF StopForce, InNodeLoop, Inside
    <2> QED
      BY <1>2, <1>a, <2>1, KillType DEF StopForce, TypeInv, TypeOK
  <1>3. CASE PkillNode(c)
    <2> DEFINE shells == Stopping(Item(c))
    <2>1. /\ pc' = [x \in Clis |-> IF x \in shells THEN "stop" ELSE pc[x]]
          /\ pos' = [x \in Clis |-> IF x \in shells THEN pos[x] + 1 ELSE pos[x]]
          /\ victim' = [x \in Clis |-> IF x \in shells THEN NoPid ELSE victim[x]]
          /\ UNCHANGED topo
      BY <1>3 DEF PkillNode
    <2> HIDE DEF shells
    <2>2. Moved
      BY <1>a, <1>b, <2>1 DEF TypeInv, TypeOK, Inside, InNodeLoop
    <2>3. victim' \in [Clis -> Pids \cup {NoPid}]
      BY <1>a, <2>1 DEF TypeOK
    <2> QED
      BY <1>3, <1>a, <2>2, <2>3, KillType DEF PkillNode, TypeInv, TypeOK
  <1>4. CASE DeleteLinks(c)
    <2>1. Moved
      BY <1>4, <1>a, <1>b, Move DEF DeleteLinks, InNodeLoop
    <2>2. proc' \in [Pids -> Process]
      <3>1. ASSUME NEW p \in Pids
            PROVE  [proc[p] EXCEPT !.nics = @ \ Unlinked(topo[c])] \in Process
        BY <1>a, ProcessUpdate DEF TypeOK
      <3> QED
        BY <1>4, <3>1 DEF DeleteLinks
    <2>3. tap' \in [Taps -> Bridges \cup {Absent, Loose}]
      BY <1>4, <1>a DEF DeleteLinks, TypeOK
    <2> QED
      BY <1>4, <1>a, <2>1, <2>2, <2>3 DEF DeleteLinks, TypeInv, TypeOK
  <1> QED
    BY <1>1, <1>2, <1>3, <1>4

\* The steps of Status, and the mishaps.
LEMMA TypeStatusAndMishaps ==
    ASSUME TypeInv, NEW c \in Clis, CheckPid(c) \/ Ping(c) \/ Mishap(c)
    PROVE  TypeInv'
  <1> DEFINE Moved == /\ pc' \in [Clis -> Labels] /\ pos' \in [Clis -> Nat \ {0}]
                      /\ \A x \in Clis : Inside(x)'
  <1>a. /\ TypeOK /\ Inside(c) /\ pos[c] \in Nat \ {0} /\ pos[c] + 1 \in Nat \ {0}
        /\ 1 \in Nat \ {0}
    BY PosType
  <1>b. Labels = {"idle", "bridge", "tap", "prep", "launch", "wait", "reap", "ip", "stop",
                  "force", "pkill", "links", "status", "ping", "upOk", "upErr", "downOk",
                  "statusOk"}
    BY DEF Labels, UpSteps, DownSteps, StatusSteps, Final
  <1>c. \A n, v : v \in Verdicts =>
            [report EXCEPT ![c][n] = v] \in [Clis -> [Nodes -> Verdicts]]
    BY <1>a DEF TypeOK
  <1>1. CASE CheckPid(c)
    <2>1. pos[c] <= Len(Plans[topo[c]].nodes)
      BY <1>1, <1>a, NodeLoopMore DEF CheckPid
    <2>2. Moved
      BY <1>1, <1>a, <1>b, <2>1, Move DEF CheckPid, InNodeLoop
    <2>3. report' \in [Clis -> [Nodes -> Verdicts]]
      BY <1>1, <1>c DEF CheckPid, Verdicts
    <2> QED
      BY <1>1, <1>a, <2>2, <2>3 DEF CheckPid, TypeInv, TypeOK
  <1>2. CASE Ping(c)
    <2>1. Moved
      BY <1>2, <1>a, <1>b, Move DEF Ping, InNodeLoop
    <2>2. report' \in [Clis -> [Nodes -> Verdicts]]
      <3>1. report' = report \/ report' = [report EXCEPT ![c][Item(c)] = "ready"]
        BY <1>2 DEF Ping
      <3>2. [report EXCEPT ![c][Item(c)] = "ready"] \in [Clis -> [Nodes -> Verdicts]]
        BY <1>c DEF Verdicts
      <3>3. report \in [Clis -> [Nodes -> Verdicts]]
        BY <1>a DEF TypeOK
      <3> QED
        BY <3>1, <3>2, <3>3
    <2> QED
      BY <1>2, <1>a, <2>1, <2>2 DEF Ping, TypeInv, TypeOK
  <1>3. ASSUME Disturb(c), Moved
        PROVE  TypeInv'
    BY <1>3, <1>a DEF Disturb, TypeInv, TypeOK
  <1>4. CASE LoseInUp(c)
    <2>1. pc[c] = "prep" => pos[c] <= Len(Plans[topo[c]].nodes)
      BY <1>4, NodeLoopMore DEF LoseInUp, MoreToRun, AfterLoop
    <2>2. UNCHANGED topo
      BY <1>4 DEF LoseInUp, Disturb
    <2>3. Moved
      <3>1. CASE pc[c] \in {"bridge", "tap"} /\ Goto(c, pc[c], pos[c] + 1)
        BY <1>a, <1>b, <2>2, <3>1, Move DEF InNodeLoop
      <3>2. CASE pc[c] = "prep" /\ (Goto(c, "launch", pos[c]) \/ Fail(c))
        BY <1>a, <1>b, <2>1, <2>2, <3>2, Move DEF InNodeLoop, Fail
      <3>3. CASE pc[c] = "launch" /\ Goto(c, "wait", pos[c])
        BY <1>a, <1>b, <2>2, <3>3, Move DEF InNodeLoop, Inside
      <3>4. CASE pc[c] = "reap" /\ Fail(c)
        BY <1>a, <1>b, <2>2, <3>4, Move DEF InNodeLoop, Fail
      <3> QED
        BY <1>4, <3>1, <3>2, <3>3, <3>4 DEF LoseInUp
    <2> QED
      BY <1>4, <1>3, <2>3 DEF LoseInUp
  <1>5. CASE FailInUp(c)
    <2>1. Moved
      BY <1>5, <1>a, <1>b, Move DEF FailInUp, Disturb, Fail, InNodeLoop
    <2> QED
      BY <1>5, <1>3, <2>1 DEF FailInUp
  <1>6. CASE MishapInDown(c)
    <2>1. Moved
      BY <1>6, <1>a, <1>b, Move DEF MishapInDown, Disturb, InNodeLoop
    <2> QED
      BY <1>6, <1>3, <2>1 DEF MishapInDown
  <1>7. CASE MishapInStatus(c)
    <2>1. Moved
      BY <1>7, <1>a, <1>b, Move DEF MishapInStatus, InNodeLoop
    <2>2. report' \in [Clis -> [Nodes -> Verdicts]]
      BY <1>7, <1>c DEF MishapInStatus, Verdicts
    <2> QED
      BY <1>7, <1>a, <2>1, <2>2 DEF MishapInStatus, TypeInv, TypeOK
  <1> QED
    BY <1>1, <1>2, <1>4, <1>5, <1>6, <1>7 DEF Mishap

\* The steps of the host.
LEMMA TypeHost ==
    ASSUME TypeInv, NEW p \in Pids, HostStep(p)
    PROVE  TypeInv'
  <1>a. TypeOK /\ proc[p] \in Process
    BY DEF TypeInv, TypeOK
  <1>b. UNCHANGED <<pc, pos, topo>> => \A x \in Clis : Inside(x)'
    BY DEF TypeInv, Inside
  <1>1. CASE GuestReady(p)
    <2>1. proc' \in [Pids -> Process]
      BY <1>1, <1>a, ProcessUpdate DEF GuestReady, TypeOK
    <2>2. dir' \in [Nodes -> RunDir]
      BY ZenonT(60), <1>1, <1>a DEF GuestReady, RunDir, TypeOK
    <2> QED
      BY <1>1, <1>a, <1>b, <2>1, <2>2 DEF GuestReady, TypeInv, TypeOK
  <1>2. CASE QemuExit(p) \/ ForeignExit(p)
    BY <1>2, <1>a, <1>b, KillType DEF QemuExit, ForeignExit, TypeInv, TypeOK
  <1>3. CASE ForeignStart(p)
    <2>1. proc' \in [Pids -> Process]
      BY <1>3, <1>a, ProcessUpdate DEF ForeignStart, TypeOK
    <2> QED
      BY <1>3, <1>a, <1>b, <2>1 DEF ForeignStart, TypeInv, TypeOK
  <1> QED
    BY <1>1, <1>2, <1>3 DEF HostStep

LEMMA TypeStep == TypeInv /\ [Next]_vars => TypeInv'
  <1> SUFFICES ASSUME TypeInv, [Next]_vars PROVE TypeInv'
    OBVIOUS
  <1>1. CASE UNCHANGED vars
    BY <1>1 DEF vars, TypeInv, TypeOK, Inside
  <1>2. ASSUME NEW c \in Clis, Start(c) \/ CliStep(c) \/ Mishap(c) \/ Crash(c)
        PROVE  TypeInv'
    BY <1>2, TypeCommand, TypeUp, TypeDown, TypeStatusAndMishaps DEF CliStep
  <1>3. ASSUME NEW p \in Pids, HostStep(p)
        PROVE  TypeInv'
    BY <1>3, TypeHost
  <1> QED
    BY <1>1, <1>2, <1>3 DEF Next

\* Every variable keeps its type, and a step inside a loop over the nodes acts
\* on one of them (cluster.go's loops over topo.Expand()).
THEOREM TypeCorrect == Spec => []TypeInv
  <1>1. Init => TypeInv
    BY TypeInit
  <1>2. TypeInv /\ [Next]_vars => TypeInv'
    BY TypeStep
  <1> QED
    BY <1>1, <1>2, PTL DEF Spec

\* Hence the type invariant the runs check.
THEOREM SpecTypeOK == Spec => []TypeOK
  <1>1. TypeInv => TypeOK
    BY DEF TypeInv
  <1> QED
    BY <1>1, TypeCorrect, PTL

-----------------------------------------------------------------------------
(***************************************************************************)
(* Part 2.                                                                 *)
(* A Down that nothing disturbed leaves nothing of its topology, whatever  *)
(* happened on the host before.                                            *)
(*                                                                         *)
(* The invariant says how far a Down has come.  It is inductive only       *)
(* together with the fact that no other command on an overlapping topology *)
(* is running, since only such a command could start a qemu or create a    *)
(* device that this Down has dealt with already.                           *)
(***************************************************************************)

\* No other command that changes the host works on an overlapping topology.
Alone(c) == calm[c] =>
    /\ pc[c] # "idle"
    /\ \A y \in Clis \ {c} : Busy(y) => ~Overlap(topo[y], topo[c])

\* The nodes Down has passed have no qemu; after its script, no device either.
Stopped(c, k) == ProcessesOf(Plans[topo[c]].nodes[k]) = {}
Progress(c) == calm[c] =>
    /\ pc[c] \in {"stop", "force", "pkill"} =>
          \A k \in DOMAIN Plans[topo[c]].nodes : k < pos[c] => Stopped(c, k)
    /\ pc[c] = "links" => \A n \in NodesOf(topo[c]) : ProcessesOf(n) = {}
    /\ pc[c] = "downOk" => Clean(topo[c])

DownInv == TypeInv /\ \A c \in Clis : Alone(c) /\ Progress(c)

CliAction(c) == Start(c) \/ CliStep(c) \/ Mishap(c) \/ Crash(c)
Changes(c, t) == StartUp(c, t) \/ StartDown(c, t)

-----------------------------------------------------------------------------
(* What a step of one cli does to the others. *)

LEMMA OverlapSymmetric ==
    ASSUME NEW s \in Topos, NEW t \in Topos
    PROVE  Overlap(s, t) <=> Overlap(t, s)
  BY DEF Overlap

\* It leaves them where they are, but for those that are stopping the node it
\* kills, whose topologies share that node with its own.
LEMMA OthersStay ==
    ASSUME TypeInv, NEW c \in Clis, CliAction(c), NEW x \in Clis \ {c}
    PROVE  /\ topo'[x] = topo[x]
           /\ calm'[x] => calm[x]
           /\ \/ pc'[x] = pc[x] /\ pos'[x] = pos[x]
              \/ /\ pc'[x] = "stop" /\ Busy(x)
                 /\ pc[c] = "pkill" /\ Overlap(topo[c], topo[x])
  <1> USE DEF TypeInv, TypeOK, Goto, Fail
  <1>1. CASE Start(c)
    BY <1>1 DEF Start, StartUp, StartDown, StartChanging, StartStatus
  <1>2. CASE Return(c) \/ Crash(c)
    BY <1>2 DEF Return, Crash, Reset
  <1>3. CASE LoopDone(c)
    BY <1>3 DEF LoopDone
  <1>4. CASE CreateBridge(c) \/ CreateTap(c) \/ PrepNode(c) \/ RefuseNode(c)
    BY <1>4 DEF CreateBridge, CreateTap, PrepNode, RefuseNode
  <1>5. CASE Launch(c) \/ SeeReady(c) \/ BootTimeout(c) \/ ReapBoot(c)
    BY <1>5 DEF Launch, SeeReady, BootTimeout, ReapBoot
  <1>6. CASE SkipIP(c) \/ AssignIP(c) \/ FailIP(c)
    BY <1>6 DEF SkipIP, AssignIP, FailIP
  <1>7. CASE StopNode(c) \/ StopForce(c) \/ DeleteLinks(c)
    BY <1>7 DEF StopNode, StopForce, DeleteLinks
  <1>8. CASE CheckPid(c) \/ Ping(c)
    BY <1>8 DEF CheckPid, Ping
  <1>9. CASE Mishap(c)
    BY <1>9 DEF Mishap, LoseInUp, FailInUp, MishapInDown, MishapInStatus, Disturb
  <1>10. CASE PkillNode(c)
    <2>1. CASE x \notin Stopping(Item(c))
      BY <1>10, <2>1 DEF PkillNode
    <2>2. CASE x \in Stopping(Item(c))
      <3>1. pc[x] \in {"force", "pkill"} /\ Item(x) = Item(c) /\ pc[c] = "pkill"
        BY <1>10, <2>2 DEF PkillNode, Stopping
      <3>2. Item(c) \in NodesOf(topo[c]) /\ Item(c) \in NodesOf(topo[x])
        BY <3>1, NodeItem, NodeLoopMore DEF NodeLoops, InNodeLoop
      <3>3. Overlap(topo[c], topo[x]) /\ Busy(x)
        BY <3>1, <3>2 DEF Overlap, Busy, DownSteps
      <3> QED
        BY <1>10, <2>2, <3>1, <3>3 DEF PkillNode
    <2> QED
      BY <2>1, <2>2
  <1> QED
    BY <1>1, <1>2, <1>3, <1>4, <1>5, <1>6, <1>7, <1>8, <1>9, <1>10 DEF CliAction, CliStep

\* A step that begins no Up or Down leaves no cli calm that was not, makes none
\* busy that was not, and changes the topology of none that is either.
LEMMA NothingBegins ==
    ASSUME TypeInv, NEW c \in Clis, CliAction(c), ~\E t \in Topos : Changes(c, t),
           Alone(c)
    PROVE  /\ calm'[c] => calm[c] /\ topo'[c] = topo[c] /\ pc'[c] # "idle"
           /\ Busy(c)' => Busy(c) /\ topo'[c] = topo[c]
  <1> USE DEF TypeInv, TypeOK, Goto, Fail, Alone, Busy, UpSteps, DownSteps
  <1>1. CASE Start(c)
    BY <1>1 DEF Start, StartStatus, Changes
  <1>2. CASE Return(c) \/ Crash(c)
    BY <1>2 DEF Return, Crash, Reset
  <1>3. CASE LoopDone(c)
    BY <1>3 DEF LoopDone, AfterLoop
  <1>4. CASE CreateBridge(c) \/ CreateTap(c) \/ PrepNode(c) \/ RefuseNode(c)
    BY <1>4 DEF CreateBridge, CreateTap, PrepNode, RefuseNode
  <1>5. CASE Launch(c) \/ SeeReady(c) \/ BootTimeout(c) \/ ReapBoot(c)
    BY <1>5 DEF Launch, SeeReady, BootTimeout, ReapBoot
  <1>6. CASE SkipIP(c) \/ AssignIP(c) \/ FailIP(c)
    BY <1>6 DEF SkipIP, AssignIP, FailIP
  <1>7. CASE StopNode(c) \/ StopForce(c) \/ PkillNode(c) \/ DeleteLinks(c)
    BY <1>7 DEF StopNode, StopForce, PkillNode, DeleteLinks
  <1>8. CASE CheckPid(c) \/ Ping(c)
    BY <1>8 DEF CheckPid, Ping
  <1>9. CASE Mishap(c)
    BY <1>9 DEF Mishap, LoseInUp, FailInUp, MishapInDown, MishapInStatus, Disturb
  <1> QED
    BY <1>1, <1>2, <1>3, <1>4, <1>5, <1>6, <1>7, <1>8, <1>9 DEF CliAction, CliStep

-----------------------------------------------------------------------------
(* What a step does to the devices and processes of a topology. *)

\* What is gone stays gone.
KeepsGone(t) ==
    /\ \A n \in NodesOf(t) : ProcessesOf(n) = {} => ProcessesOf(n)' = {}
    /\ \A x \in TapsOf(t) : tap[x] = Absent => tap'[x] = Absent
    /\ \A br \in BridgesOf(t) : br \notin bridges => br \notin bridges'

LEMMA NamesOf ==
    ASSUME NEW t \in Topos
    PROVE  NodesOf(t) \subseteq Nodes /\ TapsOf(t) \subseteq Taps
  <1>1. /\ \A k \in DOMAIN Plans[t].nodes : Plans[t].nodes[k] \in Nodes
        /\ \A k \in DOMAIN Plans[t].taps : Plans[t].taps[k] \in TapPlan
    BY PlanTypes
  <1> QED
    BY <1>1 DEF NodesOf, TapsOf, TapPlan

LEMMA KillKeeps ==
    ASSUME TypeOK, NEW S, proc' = Kill(S), UNCHANGED <<tap, bridges>>, NEW t \in Topos
    PROVE  KeepsGone(t)
  <1>1. ASSUME NEW n \in NodesOf(t), ProcessesOf(n) = {}
        PROVE  ProcessesOf(n)' = {}
    <2>1. n # Free
      BY NamesOf, NamesAssumption
    <2>2. \A p \in Pids : proc'[p].who # n
      BY <1>1, <2>1, KillWho DEF ProcessesOf
    <2> QED
      BY <2>2 DEF ProcessesOf
  <1> QED
    BY <1>1 DEF KeepsGone

\* Processes keep their occupants.
LEMMA SameWhoKeeps ==
    ASSUME \A p \in Pids : proc'[p].who = proc[p].who
    PROVE  \A n : ProcessesOf(n)' = ProcessesOf(n)
  BY DEF ProcessesOf

LEMMA UpdateWho ==
    ASSUME TypeOK, NEW p \in Pids
    PROVE  /\ \A f : [proc[p] EXCEPT !.live = f].who = proc[p].who
           /\ \A f : [proc[p] EXCEPT !.ready = f].who = proc[p].who
           /\ \A f : [proc[p] EXCEPT !.nics = f].who = proc[p].who
           /\ \A f : [proc[p] EXCEPT !.addrs = f].who = proc[p].who
  BY DEF TypeOK, Process

\* A step of a cli brings back nothing of a topology its own does not overlap,
\* and a step of a cli that is in a Down, or in none, brings back nothing.
LEMMA StepKeepsGone ==
    ASSUME TypeInv, NEW c \in Clis, CliAction(c), NEW t \in Topos,
           pc[c] \in UpSteps => ~Overlap(topo[c], t)
    PROVE  KeepsGone(t)
  <1>a. TypeOK /\ topo[c] \in Topos
    BY DEF TypeInv, TypeOK
  <1>1. CASE UNCHANGED host
    <2>1. \A n : ProcessesOf(n)' = ProcessesOf(n)
      BY <1>1 DEF ProcessesOf, host
    <2> QED
      BY <1>1, <2>1 DEF KeepsGone, host
  <1>2. CASE CreateBridge(c)
    <2>1. Item(c) \notin BridgesOf(t) /\ Item(c) \in Bridges
      BY <1>2, <1>a, BridgeItem DEF CreateBridge, UpSteps, Overlap
    <2>2. \A x \in Taps : tap[x] = Absent => tap'[x] = Absent
      BY <1>2, <2>1, NamesAssumption DEF CreateBridge
    <2>3. \A n : ProcessesOf(n)' = ProcessesOf(n)
      BY <1>2 DEF CreateBridge, ProcessesOf
    <2> QED
      BY <1>2, <2>1, <2>2, <2>3, NamesOf DEF CreateBridge, KeepsGone
  <1>3. CASE CreateTap(c)
    <2>1. Item(c).name \notin TapsOf(t)
      BY <1>3, <1>a, TapItem DEF CreateTap, UpSteps, Overlap
    <2>2. \A x \in TapsOf(t) : tap'[x] = tap[x]
      BY <1>3, <1>a, <2>1, NamesOf DEF CreateTap, TypeOK
    <2>3. \A n : ProcessesOf(n)' = ProcessesOf(n)
      BY <1>3 DEF CreateTap, ProcessesOf
    <2> QED
      BY <1>3, <2>2, <2>3 DEF CreateTap, KeepsGone
  <1>4. CASE PrepNode(c)
    <2>1. \A p \in Pids : proc'[p].who = proc[p].who
      BY <1>4, <1>a, UpdateWho DEF PrepNode, FreshDir
    <2> QED
      BY <1>4, <2>1, SameWhoKeeps DEF PrepNode, KeepsGone
  <1>5. CASE Launch(c)
    <2>1. Item(c) \in NodesOf(topo[c])
      BY <1>5, <1>a, NodeItem, NodeLoopMore DEF Launch, NodeLoops, InNodeLoop
    <2>2. Item(c) \notin NodesOf(t)
      BY <1>5, <2>1 DEF Launch, UpSteps, Overlap
    <2> DEFINE qemu == [NoProcess EXCEPT !.who = Item(c),
                          !.nics = NicsOf(topo[c], Item(c)), !.live = TRUE]
    <2>3. qemu.who = Item(c)
      BY DEF NoProcess
    <2> HIDE DEF qemu
    <2>4. proc' = proc \/ \E p \in Pids : proc' = [proc EXCEPT ![p] = qemu]
      BY <1>5 DEF Launch, qemu
    <2>5. \A p \in Pids, n \in NodesOf(t) : proc'[p].who = n => proc[p].who = n
      BY <1>a, <2>2, <2>3, <2>4 DEF TypeOK
    <2>6. \A n \in NodesOf(t) : ProcessesOf(n) = {} => ProcessesOf(n)' = {}
      BY <2>5 DEF ProcessesOf
    <2> QED
      BY <1>5, <2>6 DEF Launch, KeepsGone
  <1>6. CASE AssignIP(c)
    <2>1. PICK p \in Pids : proc' = [proc EXCEPT ![p] =
                              [proc[p] EXCEPT !.addrs = @ \cup {Item(c).name}]]
      BY <1>6 DEF AssignIP, ProcessesOf
    <2>2. \A q \in Pids : proc'[q].who = proc[q].who
      BY <1>a, <2>1, UpdateWho DEF TypeOK
    <2> QED
      BY <1>6, <2>2, SameWhoKeeps DEF AssignIP, KeepsGone
  <1>7. CASE ReapBoot(c) \/ StopNode(c) \/ StopForce(c) \/ PkillNode(c)
    <2>1. CASE (StopNode(c) \/ ReapBoot(c)) /\ UNCHANGED proc
      BY <1>1, <2>1 DEF StopNode, ReapBoot, host
    <2>2. CASE StopNode(c) /\ proc' = Kill({dir[Item(c)].pid})
      BY <1>a, <2>2, KillKeeps DEF StopNode
    <2>3. CASE ReapBoot(c) /\ proc' = Kill({dir[Item(c)].pid})
      BY <1>a, <2>3, KillKeeps DEF ReapBoot
    <2>4. CASE StopForce(c)
      BY <1>a, <2>4, KillKeeps DEF StopForce
    <2>5. CASE PkillNode(c)
      BY <1>a, <2>5, KillKeeps DEF PkillNode
    <2> QED
      BY <1>7, <2>1, <2>2, <2>3, <2>4, <2>5 DEF StopNode, ReapBoot
  <1>8. CASE DeleteLinks(c)
    <2>1. \A p \in Pids : proc'[p].who = proc[p].who
      BY <1>8, <1>a, UpdateWho DEF DeleteLinks
    <2>2. \A x \in Taps : tap[x] = Absent => tap'[x] = Absent
      BY <1>8, NamesAssumption DEF DeleteLinks
    <2> QED
      BY <1>8, <2>1, <2>2, SameWhoKeeps, NamesOf DEF DeleteLinks, KeepsGone
  <1> QED
    BY <1>1, <1>2, <1>3, <1>4, <1>5, <1>6, <1>7, <1>8
       DEF CliAction, CliStep, Start, StartUp, StartDown, StartChanging, StartStatus,
           Return, Crash, Reset, LoopDone, RefuseNode, SeeReady, BootTimeout, SkipIP,
           FailIP, CheckPid, Ping, Mishap, LoseInUp, FailInUp, MishapInDown,
           MishapInStatus, Disturb

\* A step of the host brings back nothing: what a process id is given to is no
\* node's qemu.
LEMMA HostKeepsGone ==
    ASSUME TypeInv, NEW p \in Pids, HostStep(p), NEW t \in Topos
    PROVE  KeepsGone(t)
  <1>a. TypeOK
    BY DEF TypeInv
  <1>1. CASE GuestReady(p)
    <2>1. \A q \in Pids : proc'[q].who = proc[q].who
      BY <1>1, <1>a, UpdateWho DEF GuestReady, TypeOK
    <2> QED
      BY <1>1, <2>1, SameWhoKeeps DEF GuestReady, KeepsGone
  <1>2. CASE QemuExit(p) \/ ForeignExit(p)
    BY <1>2, <1>a, KillKeeps DEF QemuExit, ForeignExit
  <1>3. CASE ForeignStart(p)
    <2>1. proc'[p].who = Foreign
      BY <1>3, <1>a DEF ForeignStart, TypeOK, Process
    <2>2. \A q \in Pids \ {p} : proc'[q] = proc[q]
      BY <1>3, <1>a DEF ForeignStart, TypeOK
    <2>3. \A n \in NodesOf(t) : ProcessesOf(n) = {} => ProcessesOf(n)' = {}
      BY <2>1, <2>2, NamesOf, NamesAssumption DEF ProcessesOf
    <2> QED
      BY <1>3, <2>3 DEF ForeignStart, KeepsGone
  <1> QED
    BY <1>1, <1>2, <1>3 DEF HostStep

-----------------------------------------------------------------------------
(* The invariant is preserved. *)

LEMMA AloneStep ==
    ASSUME DownInv, NEW c \in Clis, CliAction(c), NEW x \in Clis
    PROVE  Alone(x)'
  <1>a. TypeInv /\ \A y \in Clis : Alone(y) /\ topo[y] \in Topos
    BY DEF DownInv, TypeInv, TypeOK
  <1>1. CASE ~\E t \in Topos : Changes(c, t)
    <2>1. \A y \in Clis : /\ calm'[y] => calm[y] /\ topo'[y] = topo[y] /\ pc'[y] # "idle"
                          /\ Busy(y)' => Busy(y) /\ topo'[y] = topo[y]
      <3>1. ASSUME NEW y \in Clis \ {c}
            PROVE  /\ calm'[y] => calm[y] /\ topo'[y] = topo[y] /\ pc'[y] # "idle"
                   /\ Busy(y)' => Busy(y) /\ topo'[y] = topo[y]
        BY <1>a, <3>1, OthersStay DEF Busy, Alone
      <3> QED
        BY <1>1, <1>a, <3>1, NothingBegins
    <2> QED
      BY <1>a, <2>1 DEF Alone, Overlap
  <1>2. ASSUME NEW t \in Topos, Changes(c, t)
        PROVE  Alone(x)'
    <2>1. PICK label \in {"bridge", "stop"} : StartChanging(c, t, label)
      BY <1>2 DEF Changes, StartUp, StartDown
    <2>2. topo'[c] = t /\ pc'[c] = label
      BY <1>a, <2>1 DEF StartChanging, Goto, TypeInv, TypeOK
    <2>3. \A y \in Clis \ {c} : /\ pc'[y] = pc[y] /\ topo'[y] = topo[y]
                                /\ calm'[y] => calm[y]
      BY <1>a, <2>1, OthersStay DEF StartChanging
    <2>4. CASE x = c
      BY <1>a, <2>1, <2>2, <2>3, <2>4 DEF StartChanging, Alone, Busy, Overlap
    <2>5. CASE x # c
      <3>1. calm'[x] => calm[x] /\ ~Overlap(topo[x], t)
        BY <2>1, <2>5 DEF StartChanging
      <3>2. calm'[x] => ~Overlap(t, topo[x])
        BY <1>a, <3>1, OverlapSymmetric
      <3>3. ASSUME NEW y \in Clis \ {x}, calm'[x], Busy(y)'
            PROVE  ~Overlap(topo'[y], topo'[x])
        <4>1. CASE y = c
          BY <2>2, <2>3, <2>5, <3>2, <3>3, <4>1
        <4>2. CASE y # c
          BY <1>a, <2>3, <2>5, <3>1, <3>3, <4>2 DEF Alone, Busy
        <4> QED
          BY <4>1, <4>2
      <3> QED
        BY <1>a, <2>3, <2>5, <3>1, <3>3 DEF Alone, Overlap, NodesOf, TapsOf, BridgesOf
    <2> QED
      BY <2>4, <2>5
  <1> QED
    BY <1>1, <1>2

\* A cli that stays where it is and calm keeps its progress as long as what is
\* gone stays gone.
LEMMA ProgressKept ==
    ASSUME TypeInv, NEW x \in Clis, Progress(x), KeepsGone(topo[x]),
           pc'[x] = pc[x], pos'[x] = pos[x], topo'[x] = topo[x], calm'[x] => calm[x]
    PROVE  Progress(x)'
  <1>1. \A k \in DOMAIN Plans[topo[x]].nodes :
            Plans[topo[x]].nodes[k] \in NodesOf(topo[x])
    BY DEF NodesOf
  <1>2. ASSUME Clean(topo[x])
        PROVE  Clean(topo[x])'
    BY <1>2 DEF Clean, KeepsGone, NodesOf, TapsOf, BridgesOf
  <1>3. ASSUME NEW k \in DOMAIN Plans[topo[x]].nodes, Stopped(x, k)
        PROVE  Stopped(x, k)'
    BY <1>1, <1>3 DEF Stopped, KeepsGone, ProcessesOf
  <1>4. ASSUME NEW n \in NodesOf(topo[x]), ProcessesOf(n) = {}
        PROVE  ProcessesOf(n)' = {}
    BY <1>4 DEF KeepsGone
  <1> QED
    BY <1>2, <1>3, <1>4 DEF Progress, Clean, NodesOf, TapsOf, BridgesOf

\* The command's own steps advance the progress.
LEMMA OwnProgress ==
    ASSUME DownInv, NEW c \in Clis, CliAction(c)
    PROVE  Progress(c)'
  <1>a. /\ TypeInv /\ TypeOK /\ Alone(c) /\ Progress(c) /\ topo[c] \in Topos
        /\ pos[c] \in Nat \ {0}
    BY DEF DownInv, TypeInv, TypeOK
  <1>b. pc'[c] \notin DownSteps \cup {"downOk"} => Progress(c)'
    BY DEF Progress, DownSteps
  <1>c. pc[c] \notin UpSteps => KeepsGone(topo[c])
    BY <1>a, StepKeepsGone
  <1>d. Plans[topo[c]].nodes \in Seq(Nodes)
    BY <1>a, PlanTypes
  <1>1. CASE Start(c)
    <2>1. pos'[c] = 1 /\ pc'[c] \in {"bridge", "stop", "status"} /\ topo'[c] \in Topos
      BY <1>1, <1>a
         DEF Start, StartUp, StartDown, StartChanging, StartStatus, Goto, TypeOK
    <2>2. Plans[topo'[c]].nodes \in Seq(Nodes)
      BY <2>1, PlanTypes
    <2> QED
      BY <1>b, <2>1, <2>2 DEF Progress, DownSteps
  <1>2. CASE Return(c) \/ Crash(c)
    <2>1. ~calm'[c]
      BY <1>2, <1>a DEF Return, Crash, Reset, TypeOK
    <2> QED
      BY <2>1 DEF Progress
  <1>3. CASE LoopDone(c)
    <2>1. CASE pc[c] = "stop"
      <3>1. /\ pc'[c] = "links" /\ topo'[c] = topo[c] /\ calm'[c] = calm[c]
            /\ UNCHANGED proc
        BY <1>3, <1>a, <2>1 DEF LoopDone, AfterLoop, Goto, TypeOK, host
      <3>2. \A k \in DOMAIN Plans[topo[c]].nodes : k < pos[c]
        BY <1>3, <1>a, <1>d, <2>1 DEF LoopDone, More, Items
      <3>3. calm[c] => \A n \in NodesOf(topo[c]) : ProcessesOf(n) = {}
        BY <1>a, <2>1, <3>2 DEF Progress, Stopped, NodesOf
      <3>4. \A n : ProcessesOf(n)' = ProcessesOf(n)
        BY <3>1 DEF ProcessesOf
      <3> QED
        BY <3>1, <3>3, <3>4 DEF Progress, NodesOf
    <2>2. CASE pc[c] # "stop"
      <3>1. pc'[c] \in {"tap", "prep", "ip", "upOk", "statusOk"}
        BY <1>3, <1>a, <2>2 DEF LoopDone, AfterLoop, Goto, TypeOK
      <3> QED
        BY <1>b, <3>1 DEF DownSteps
    <2> QED
      BY <2>1, <2>2
  <1>4. CASE StopNode(c) \/ StopForce(c)
    <2>1. /\ pos'[c] = pos[c] /\ topo'[c] = topo[c] /\ calm'[c] = calm[c]
          /\ pc[c] \in {"stop", "force"} /\ pc'[c] \in {"force", "pkill"}
      BY <1>4, <1>a DEF StopNode, StopForce, Goto, TypeOK
    <2>2. KeepsGone(topo[c])
      BY <1>c, <2>1 DEF UpSteps
    <2>3. \A k \in DOMAIN Plans[topo[c]].nodes : Stopped(c, k) => Stopped(c, k)'
      BY <2>1, <2>2 DEF Stopped, KeepsGone, NodesOf, ProcessesOf
    <2> QED
      BY <1>a, <2>1, <2>3 DEF Progress
  <1>5. CASE PkillNode(c)
    <2>1. /\ pos'[c] = pos[c] + 1 /\ topo'[c] = topo[c] /\ calm'[c] = calm[c]
          /\ pc[c] = "pkill" /\ pc'[c] = "stop"
      BY <1>5, <1>a DEF PkillNode, Stopping, TypeOK
    <2>2. KeepsGone(topo[c])
      BY <1>c, <2>1 DEF UpSteps
    <2>3. \A k \in DOMAIN Plans[topo[c]].nodes : Stopped(c, k) => Stopped(c, k)'
      BY <2>1, <2>2 DEF Stopped, KeepsGone, NodesOf, ProcessesOf
    <2>4. Item(c) = Plans[topo[c]].nodes[pos[c]] /\ Item(c) \in Nodes
      BY <1>a, <2>1, NodeItem, NodeLoopMore DEF NodeLoops, InNodeLoop
    <2>5. \A k : k = pos[c] => Stopped(c, k)'
      <3>1. \A p \in Pids : proc'[p].who # Item(c)
        BY <1>5, <2>4, KillWho, NamesAssumption DEF PkillNode, Pkilled, ProcessesOf
      <3> QED
        BY <2>1, <2>4, <3>1 DEF Stopped, ProcessesOf
    <2>6. \A k \in DOMAIN Plans[topo[c]].nodes : k < pos[c] + 1 => k < pos[c] \/ k = pos[c]
      BY <1>a, <1>d
    <2> QED
      BY <1>a, <2>1, <2>3, <2>5, <2>6 DEF Progress, Stopped
  <1>6. CASE DeleteLinks(c)
    <2>1. /\ topo'[c] = topo[c] /\ calm'[c] = calm[c]
          /\ pc[c] = "links" /\ pc'[c] = "downOk"
      BY <1>6, <1>a DEF DeleteLinks, Goto, TypeOK
    <2>2. KeepsGone(topo[c])
      BY <1>c, <2>1 DEF UpSteps
    <2>3. calm[c] => \A n \in NodesOf(topo[c]) : ProcessesOf(n)' = {}
      BY <1>a, <2>1, <2>2 DEF Progress, KeepsGone
    <2>4. /\ \A x \in TapsOf(topo[c]) : tap'[x] = Absent
          /\ BridgesOf(topo[c]) \cap bridges' = {}
      BY <1>6, <1>a, NamesOf DEF DeleteLinks, Unlinked
    <2>5. calm[c] => Clean(topo[c])'
      BY <2>1, <2>3, <2>4 DEF Clean, NodesOf, TapsOf, BridgesOf
    <2> QED
      BY <2>1, <2>5 DEF Progress, Clean, NodesOf, TapsOf, BridgesOf
  <1>7. CASE Mishap(c)
    <2>1. CASE MishapInStatus(c)
      <3>1. pc'[c] = "status"
        BY <1>a, <2>1 DEF MishapInStatus, Goto, TypeOK
      <3> QED
        BY <1>b, <3>1 DEF DownSteps
    <2>2. CASE Disturb(c)
      <3>1. ~calm'[c]
        BY <1>a, <2>2 DEF Disturb, TypeOK
      <3> QED
        BY <3>1 DEF Progress
    <2> QED
      BY <1>7, <2>1, <2>2 DEF Mishap, LoseInUp, FailInUp, MishapInDown
  <1>8. CASE \/ CreateBridge(c) \/ CreateTap(c) \/ PrepNode(c) \/ RefuseNode(c)
             \/ Launch(c) \/ SeeReady(c) \/ BootTimeout(c) \/ ReapBoot(c)
             \/ SkipIP(c) \/ AssignIP(c) \/ FailIP(c) \/ CheckPid(c) \/ Ping(c)
    <2>1. pc'[c] \in UpSteps \cup StatusSteps \cup {"upErr"}
      BY <1>8, <1>a
         DEF CreateBridge, CreateTap, PrepNode, RefuseNode, Launch, SeeReady,
             BootTimeout, ReapBoot, SkipIP, AssignIP, FailIP, CheckPid, Ping, Fail,
             Goto, UpSteps, StatusSteps, TypeOK
    <2> QED
      BY <1>b, <2>1 DEF UpSteps, StatusSteps, DownSteps
  <1> QED
    BY <1>1, <1>2, <1>3, <1>4, <1>5, <1>6, <1>7, <1>8 DEF CliAction, CliStep

LEMMA DownInit == Init => DownInv
  BY TypeInit DEF Init, DownInv, Alone, Progress

LEMMA DownStep == DownInv /\ [Next]_vars => DownInv'
  <1> SUFFICES ASSUME DownInv, [Next]_vars PROVE DownInv'
    OBVIOUS
  <1>a. TypeInv' /\ TypeInv
    BY TypeStep DEF DownInv
  <1>b. \A x \in Clis : Alone(x) /\ Progress(x) /\ topo[x] \in Topos
    BY DEF DownInv, TypeInv, TypeOK
  <1>1. CASE UNCHANGED vars
    <2>1. \A n : ProcessesOf(n)' = ProcessesOf(n)
      BY <1>1 DEF vars, ProcessesOf
    <2>2. \A x \in Clis : KeepsGone(topo[x])
      BY <1>1, <2>1 DEF vars, KeepsGone
    <2>3. \A x \in Clis : Progress(x)'
      BY <1>1, <1>a, <1>b, <2>2, ProgressKept DEF vars
    <2> QED
      BY <1>1, <1>a, <1>b, <2>3 DEF vars, DownInv, Alone, Busy, Overlap
  <1>2. ASSUME NEW c \in Clis, CliAction(c)
        PROVE  DownInv'
    <2>1. \A x \in Clis : Alone(x)'
      BY <1>2, AloneStep
    <2>2. ASSUME NEW x \in Clis \ {c}
          PROVE  Progress(x)'
      <3>1. CASE calm[x]
        <4>1. pc[c] \in UpSteps => ~Overlap(topo[c], topo[x])
          BY <1>b, <2>2, <3>1 DEF Alone, Busy
        <4>2. KeepsGone(topo[x])
          BY <1>2, <1>a, <1>b, <4>1, StepKeepsGone
        <4>3. ~(pc[c] = "pkill" /\ Overlap(topo[c], topo[x]))
          BY <1>b, <2>2, <3>1 DEF Alone, Busy, DownSteps
        <4>4. /\ pc'[x] = pc[x] /\ pos'[x] = pos[x] /\ topo'[x] = topo[x]
              /\ calm'[x] => calm[x]
          BY <1>2, <1>a, <2>2, <4>3, OthersStay
        <4> QED
          BY <1>a, <1>b, <4>2, <4>4, ProgressKept
      <3>2. CASE ~calm[x]
        BY <1>2, <1>a, <3>2, OthersStay DEF Progress
      <3> QED
        BY <3>1, <3>2
    <2>3. Progress(c)'
      BY <1>2, OwnProgress
    <2> QED
      BY <1>a, <2>1, <2>2, <2>3 DEF DownInv
  <1>3. ASSUME NEW p \in Pids, HostStep(p)
        PROVE  DownInv'
    <2>1. UNCHANGED <<pc, pos, topo, calm>>
      BY <1>3 DEF HostStep, GuestReady, QemuExit, ForeignStart, ForeignExit
    <2>2. \A x \in Clis : Progress(x)'
      BY <1>3, <1>a, <1>b, <2>1, HostKeepsGone, ProgressKept
    <2> QED
      BY <1>a, <1>b, <2>1, <2>2 DEF DownInv, Alone, Busy, Overlap
  <1> QED
    BY <1>1, <1>2, <1>3 DEF Next, CliAction

\* Down's promise (cluster.go:88): when a Down that nothing disturbed ends, its
\* topology has no qemu, no tap and no bridge left on the host.
THEOREM DownLeavesNothing == Spec => []NoLeakAfterDown
  <1>1. Init => DownInv
    BY DownInit
  <1>2. DownInv /\ [Next]_vars => DownInv'
    BY DownStep
  <1>3. DownInv => NoLeakAfterDown
    BY DEF DownInv, Progress, NoLeakAfterDown
  <1> QED
    BY <1>1, <1>2, <1>3, PTL DEF Spec

-----------------------------------------------------------------------------
(***************************************************************************)
(* Part 3.                                                                 *)
(* Up, Down and everything that happens on a host, for any number of klab  *)
(* processes, topologies, nodes and process ids, is a behaviour of         *)
(* LabService; so nothing is ever on the host that no topology is owed for.*)
(*                                                                         *)
(* A step that makes a thing must find its topology owed (Owing), and an   *)
(* Up that ends must find all of its devices there (Building).  That the   *)
(* devices of a topology that is up stay takes that no command works on an *)
(* overlapping topology (UpStands): only a Down of such a one could take   *)
(* them away.                                                              *)
(***************************************************************************)

\* The devices of t are there.
There(t) == /\ BridgesOf(t) \subseteq bridges
            /\ \A x \in TapsOf(t) : tap[x] # Absent

Owing(c) == pc[c] \in UpSteps => topo[c] \in owed
Building(c) == calm[c] =>
    /\ pc[c] = "bridge" =>
          \A k \in DOMAIN Plans[topo[c]].bridges :
             k < pos[c] => Plans[topo[c]].bridges[k] \in bridges
    /\ pc[c] = "tap" =>
          /\ BridgesOf(topo[c]) \subseteq bridges
          /\ \A k \in DOMAIN Plans[topo[c]].taps :
                k < pos[c] => tap[Plans[topo[c]].taps[k].name] # Absent
    /\ pc[c] \in {"prep", "launch", "wait", "reap", "ip"} => There(topo[c])
UpStands ==
    \A s \in up : There(s) /\ \A y \in Clis : Busy(y) => ~Overlap(topo[y], s)

LabInv ==
    /\ DownInv /\ owed \subseteq Topos
    /\ \A c \in Clis : Owing(c) /\ Building(c)
    /\ UpStands

-----------------------------------------------------------------------------
(* What is there stays there. *)

KeepsThere(t) ==
    /\ \A x \in TapsOf(t) : tap[x] # Absent => tap'[x] # Absent
    /\ \A br \in BridgesOf(t) : br \in bridges => br \in bridges'

LEMMA DevicesOfNames ==
    ASSUME NEW t \in Topos
    PROVE  BridgesOf(t) \subseteq Bridges /\ TapsOf(t) \subseteq Taps
  <1>1. /\ \A k \in DOMAIN Plans[t].bridges : Plans[t].bridges[k] \in Bridges
        /\ \A k \in DOMAIN Plans[t].taps : Plans[t].taps[k] \in TapPlan
    BY PlanTypes
  <1> QED
    BY <1>1 DEF BridgesOf, TapsOf, TapPlan

LEMMA ThereKept ==
    ASSUME NEW t, There(t), KeepsThere(t)
    PROVE  There(t)'
  BY DEF There, KeepsThere, BridgesOf, TapsOf

\* Only a Down's script takes devices away, and only those of its topology.
LEMMA StepKeepsThere ==
    ASSUME TypeInv, NEW c \in Clis, CliAction(c), NEW t \in Topos,
           pc[c] = "links" => ~Overlap(topo[c], t)
    PROVE  KeepsThere(t)
  <1>a. TypeOK /\ topo[c] \in Topos
    BY DEF TypeInv, TypeOK
  <1>1. CASE UNCHANGED <<bridges, tap>>
    BY <1>1 DEF KeepsThere
  <1>2. CASE CreateBridge(c)
    BY <1>2, DevicesOfNames, NamesAssumption DEF CreateBridge, KeepsThere
  <1>3. CASE CreateTap(c)
    <2>1. Item(c) \in TapPlan
      BY <1>a, <1>3, TapItem DEF CreateTap
    <2>2. \A x \in Taps : tap[x] # Absent => tap'[x] # Absent
      BY <1>a, <1>3, <2>1, NamesAssumption DEF CreateTap, TapPlan, TypeOK
    <2> QED
      BY <1>3, <2>2, DevicesOfNames DEF CreateTap, KeepsThere
  <1>4. CASE DeleteLinks(c)
    <2>1. TapsOf(topo[c]) \cap TapsOf(t) = {} /\ BridgesOf(topo[c]) \cap BridgesOf(t) = {}
      BY <1>4 DEF DeleteLinks, Overlap
    <2>2. Unlinked(topo[c]) \cap (TapsOf(t) \cup BridgesOf(t)) = {}
      BY <1>a, <2>1, DevicesOfNames, NamesAssumption DEF Unlinked
    <2>3. \A x \in TapsOf(t) : tap[x] # Absent => tap'[x] # Absent
      BY <1>4, <2>2, DevicesOfNames, NamesAssumption DEF DeleteLinks
    <2> QED
      BY <1>4, <2>2, <2>3 DEF DeleteLinks, KeepsThere
  <1> QED
    BY <1>1, <1>2, <1>3, <1>4
       DEF CliAction, CliStep, Start, StartUp, StartDown, StartChanging, StartStatus,
           Return, Crash, Reset, LoopDone, PrepNode, RefuseNode, Launch, SeeReady,
           BootTimeout, ReapBoot, SkipIP, AssignIP, FailIP, StopNode, StopForce,
           PkillNode, CheckPid, Ping, Mishap, LoseInUp, FailInUp, MishapInDown,
           MishapInStatus, Disturb, host

LEMMA HostKeepsThere ==
    ASSUME NEW p \in Pids, HostStep(p), NEW t
    PROVE  KeepsThere(t)
  BY DEF HostStep, GuestReady, QemuExit, ForeignStart, ForeignExit, KeepsThere

\* A topology has a node, so it overlaps itself.
LEMMA OverlapsItself == ASSUME NEW t \in Topos PROVE Overlap(t, t)
  <1>1. Plans[t].nodes \in Seq(Nodes) /\ Plans[t].nodes # <<>>
    BY PlanTypes, PlansAssumption
  <1>2. 1 \in DOMAIN Plans[t].nodes
    BY <1>1
  <1> QED
    BY <1>2 DEF Overlap, NodesOf

-----------------------------------------------------------------------------
(* How far an Up has come. *)

LEMMA BuildingKept ==
    ASSUME NEW x \in Clis, TypeInv, Building(x), KeepsThere(topo[x]),
           pc'[x] = pc[x], pos'[x] = pos[x], topo'[x] = topo[x], calm'[x] => calm[x]
    PROVE  Building(x)'
  <1>1. There(topo[x]) => There(topo[x])'
    BY ThereKept
  <1>2. /\ \A k \in DOMAIN Plans[topo[x]].bridges :
              Plans[topo[x]].bridges[k] \in BridgesOf(topo[x])
        /\ \A k \in DOMAIN Plans[topo[x]].taps :
              Plans[topo[x]].taps[k].name \in TapsOf(topo[x])
    BY DEF BridgesOf, TapsOf
  <1> QED
    BY <1>1, <1>2 DEF Building, KeepsThere, There, BridgesOf, TapsOf

LEMMA OwnBuilding ==
    ASSUME LabInv, NEW c \in Clis, CliAction(c)
    PROVE  Building(c)'
  <1>a. /\ TypeInv /\ TypeOK /\ Building(c) /\ topo[c] \in Topos /\ pos[c] \in Nat \ {0}
    BY DEF LabInv, DownInv, TypeInv, TypeOK
  <1>b. pc'[c] \notin UpSteps => Building(c)'
    BY DEF Building, UpSteps
  <1>c. pc[c] # "links" => KeepsThere(topo[c])
    BY <1>a, StepKeepsThere
  <1>d. /\ Plans[topo[c]].bridges \in Seq(Bridges) /\ Plans[topo[c]].taps \in Seq(TapPlan)
    BY <1>a, PlanTypes
  <1>e. ~calm'[c] => Building(c)'
    BY DEF Building
  <1>1. CASE Start(c)
    <2>1. pos'[c] = 1 /\ pc'[c] \in {"bridge", "stop", "status"} /\ topo'[c] \in Topos
      BY <1>1, <1>a
         DEF Start, StartUp, StartDown, StartChanging, StartStatus, Goto, TypeOK
    <2>2. Plans[topo'[c]].bridges \in Seq(Bridges)
      BY <2>1, PlanTypes
    <2> QED
      BY <1>b, <2>1, <2>2 DEF Building, UpSteps
  <1>2. CASE Return(c) \/ Crash(c)
    <2>1. ~calm'[c]
      BY <1>2, <1>a DEF Return, Crash, Reset, TypeOK
    <2> QED
      BY <1>e, <2>1
  <1>3. CASE LoopDone(c)
    <2>1. /\ pc'[c] = AfterLoop[pc[c]] /\ pos'[c] = 1 /\ pc[c] \in DOMAIN AfterLoop
          /\ topo'[c] = topo[c] /\ calm'[c] = calm[c] /\ UNCHANGED <<bridges, tap>>
      BY <1>3, <1>a DEF LoopDone, Goto, TypeOK, AfterLoop, host
    <2>2. CASE pc[c] = "bridge"
      <3>1. \A k \in DOMAIN Plans[topo[c]].bridges : k < pos[c]
        BY <1>3, <1>a, <1>d, <2>2 DEF LoopDone, More, Items
      <3>2. calm[c] => BridgesOf(topo[c]) \subseteq bridges
        BY <1>a, <2>2, <3>1 DEF Building, BridgesOf
      <3>3. pc'[c] = "tap"
        BY <2>1, <2>2 DEF AfterLoop
      <3> QED
        BY <1>d, <2>1, <3>2, <3>3 DEF Building, BridgesOf
    <2>3. CASE pc[c] = "tap"
      <3>1. \A k \in DOMAIN Plans[topo[c]].taps : k < pos[c]
        BY <1>3, <1>a, <1>d, <2>3 DEF LoopDone, More, Items
      <3>2. calm[c] => There(topo[c])
        BY <1>a, <2>3, <3>1 DEF Building, There, TapsOf
      <3>3. pc'[c] = "prep"
        BY <2>1, <2>3 DEF AfterLoop
      <3> QED
        BY <2>1, <3>2, <3>3 DEF Building, There, BridgesOf, TapsOf
    <2>4. CASE pc[c] = "prep"
      <3>1. pc'[c] = "ip"
        BY <2>1, <2>4 DEF AfterLoop
      <3> QED
        BY <1>a, <2>1, <2>4, <3>1 DEF Building, There, BridgesOf, TapsOf
    <2>5. CASE pc[c] \notin {"bridge", "tap", "prep"}
      <3>1. pc'[c] \notin UpSteps
        BY <2>1, <2>5 DEF AfterLoop, UpSteps
      <3> QED
        BY <1>b, <3>1
    <2> QED
      BY <2>2, <2>3, <2>4, <2>5
  <1>4. CASE CreateBridge(c)
    <2>1. /\ pc[c] = "bridge" /\ pc'[c] = "bridge" /\ pos'[c] = pos[c] + 1
          /\ topo'[c] = topo[c] /\ calm'[c] = calm[c]
          /\ bridges' = bridges \cup {Plans[topo[c]].bridges[pos[c]]}
      BY <1>4, <1>a DEF CreateBridge, Goto, TypeOK, Item, Items
    <2>2. \A k \in DOMAIN Plans[topo[c]].bridges : k < pos[c] + 1 => k < pos[c] \/ k = pos[c]
      BY <1>a, <1>d
    <2> QED
      BY <1>a, <2>1, <2>2 DEF Building
  <1>5. CASE CreateTap(c)
    <2>1. /\ pc[c] = "tap" /\ pc'[c] = "tap" /\ pos'[c] = pos[c] + 1
          /\ topo'[c] = topo[c] /\ calm'[c] = calm[c] /\ bridges' = bridges
          /\ Item(c) = Plans[topo[c]].taps[pos[c]] /\ Item(c) \in TapPlan
      BY <1>5, <1>a, TapItem DEF CreateTap, Goto, TypeOK, Item, Items
    <2>2. \A k \in DOMAIN Plans[topo[c]].taps : k < pos[c] + 1 => k < pos[c] \/ k = pos[c]
      BY <1>a, <1>d
    <2>3. tap'[Item(c).name] # Absent
      BY <1>5, <1>a, <2>1, NamesAssumption DEF CreateTap, TapPlan, TypeOK
    <2>4. \A k \in DOMAIN Plans[topo[c]].taps : Plans[topo[c]].taps[k].name \in TapsOf(topo[c])
      BY DEF TapsOf
    <2>5. \A k \in DOMAIN Plans[topo[c]].taps :
              tap[Plans[topo[c]].taps[k].name] # Absent => tap'[Plans[topo[c]].taps[k].name] # Absent
      BY <1>c, <2>1, <2>4 DEF KeepsThere
    <2> QED
      BY <1>a, <2>1, <2>2, <2>3, <2>5 DEF Building, BridgesOf
  <1>6. CASE \/ PrepNode(c) \/ RefuseNode(c) \/ Launch(c) \/ SeeReady(c) \/ BootTimeout(c)
             \/ ReapBoot(c) \/ SkipIP(c) \/ AssignIP(c) \/ FailIP(c)
    <2>1. /\ pc[c] \in {"prep", "launch", "wait", "reap", "ip"}
          /\ pc'[c] \in {"prep", "launch", "wait", "reap", "ip", "upErr"}
          /\ topo'[c] = topo[c] /\ calm'[c] = calm[c] /\ UNCHANGED <<bridges, tap>>
      BY <1>6, <1>a DEF PrepNode, RefuseNode, Launch, SeeReady, BootTimeout, ReapBoot,
                        SkipIP, AssignIP, FailIP, Fail, Goto, TypeOK, host
    <2> QED
      BY <1>a, <2>1 DEF Building, There, BridgesOf, TapsOf
  <1>7. CASE StopNode(c) \/ StopForce(c) \/ PkillNode(c) \/ DeleteLinks(c)
             \/ CheckPid(c) \/ Ping(c) \/ MishapInStatus(c)
    <2>1. pc'[c] \notin UpSteps
      BY <1>7, <1>a DEF StopNode, StopForce, PkillNode, DeleteLinks, CheckPid, Ping,
                        MishapInStatus, Goto, TypeOK, UpSteps, Stopping
    <2> QED
      BY <1>b, <2>1
  <1>8. CASE LoseInUp(c) \/ FailInUp(c) \/ MishapInDown(c)
    <2>1. ~calm'[c]
      BY <1>8, <1>a DEF LoseInUp, FailInUp, MishapInDown, Disturb, TypeOK
    <2> QED
      BY <1>e, <2>1
  <1> QED
    BY <1>1, <1>2, <1>3, <1>4, <1>5, <1>6, <1>7, <1>8 DEF CliAction, CliStep, Mishap

-----------------------------------------------------------------------------
(* Who is owed what. *)

\* A command that is busy after a step that begins none was busy before it, with
\* the same topology, and one that is in an Up was in an Up.
LEMMA BusyBefore ==
    ASSUME DownInv, NEW c \in Clis, CliAction(c), ~\E t \in Topos : Changes(c, t),
           NEW y \in Clis, Busy(y)'
    PROVE  Busy(y) /\ topo'[y] = topo[y]
  <1>a. TypeInv /\ Alone(c)
    BY DEF DownInv
  <1>1. CASE y = c
    BY <1>a, <1>1, NothingBegins
  <1>2. CASE y # c
    BY <1>a, <1>2, OthersStay DEF Busy
  <1> QED
    BY <1>1, <1>2

LEMMA InUpBefore ==
    ASSUME TypeInv, NEW c \in Clis, CliAction(c), ~\E t \in Topos : StartUp(c, t),
           pc'[c] \in UpSteps
    PROVE  pc[c] \in UpSteps /\ ~DeleteLinks(c)
  <1> USE DEF TypeInv, TypeOK, Goto, Fail, UpSteps
  <1>1. CASE Start(c)
    BY <1>1 DEF Start, StartDown, StartChanging, StartStatus
  <1>2. CASE Return(c) \/ Crash(c) \/ LoopDone(c)
    <2>1. CASE Return(c) \/ Crash(c)
      BY <2>1 DEF Return, Crash, Reset
    <2>2. CASE LoopDone(c)
      <3>1. pc[c] \in DOMAIN AfterLoop /\ pc'[c] = AfterLoop[pc[c]]
        BY <2>2 DEF LoopDone
      <3>2. pc[c] \in {"bridge", "tap", "prep"}
        BY <3>1 DEF AfterLoop
      <3> QED
        BY <3>2 DEF DeleteLinks
    <2> QED
      BY <1>2, <2>1, <2>2
  <1>3. CASE CreateBridge(c) \/ CreateTap(c) \/ PrepNode(c) \/ RefuseNode(c)
    BY <1>3 DEF CreateBridge, CreateTap, PrepNode, RefuseNode, DeleteLinks
  <1>4. CASE \/ Launch(c) \/ SeeReady(c) \/ BootTimeout(c) \/ ReapBoot(c)
             \/ SkipIP(c) \/ AssignIP(c) \/ FailIP(c)
    BY <1>4 DEF Launch, SeeReady, BootTimeout, ReapBoot, SkipIP, AssignIP, FailIP, DeleteLinks
  <1>5. CASE \/ StopNode(c) \/ StopForce(c) \/ PkillNode(c) \/ DeleteLinks(c)
             \/ CheckPid(c) \/ Ping(c)
    BY <1>5 DEF StopNode, StopForce, PkillNode, Stopping, DeleteLinks, CheckPid, Ping
  <1>6. CASE Mishap(c)
    BY <1>6 DEF Mishap, LoseInUp, FailInUp, MishapInDown, MishapInStatus, DeleteLinks
  <1> QED
    BY <1>1, <1>2, <1>3, <1>4, <1>5, <1>6 DEF CliAction, CliStep

\* An Up's start is the one step that puts a topology on the account, and a calm
\* Down's last the one that takes it off.
LEMMA StartedBy ==
    ASSUME DownInv, NEW c \in Clis, CliAction(c)
    PROVE  /\ \A t \in Topos : StartUp(c, t) => Started = {t}
           /\ (~\E t \in Topos : StartUp(c, t)) => Started = {}
  <1>a. TypeInv /\ TypeOK
    BY DEF DownInv, TypeInv
  <1>1. \A x \in Clis \ {c} : ~(pc[x] = "idle" /\ pc'[x] = "bridge")
    BY <1>a, OthersStay
  <1>2. ASSUME NEW t \in Topos, StartUp(c, t) PROVE Started = {t}
    <2>1. pc[c] = "idle" /\ pc'[c] = "bridge" /\ topo'[c] = t
      BY <1>2, <1>a DEF StartUp, StartChanging, Goto, TypeOK
    <2> QED
      BY <1>1, <2>1 DEF Started
  <1>3. ASSUME ~\E t \in Topos : StartUp(c, t) PROVE Started = {}
    <2>1. ~(pc[c] = "idle" /\ pc'[c] = "bridge")
      BY <1>3, <1>a, InUpBefore DEF UpSteps
    <2> QED
      BY <1>1, <2>1 DEF Started
  <1> QED
    BY <1>2, <1>3

LEMMA SettledBy ==
    ASSUME DownInv, NEW c \in Clis, CliAction(c)
    PROVE  /\ DeleteLinks(c) => Settled = IF calm[c] THEN {topo[c]} ELSE {}
           /\ ~DeleteLinks(c) => Settled = {}
  <1>a. TypeInv /\ TypeOK
    BY DEF DownInv, TypeInv
  <1>1. \A x \in Clis \ {c} : ~(pc[x] = "links" /\ pc'[x] = "downOk")
    BY <1>a, OthersStay
  <1>2. ASSUME DeleteLinks(c) PROVE Settled = IF calm[c] THEN {topo[c]} ELSE {}
    <2>1. pc[c] = "links" /\ pc'[c] = "downOk" /\ calm'[c] = calm[c]
      BY <1>2, <1>a DEF DeleteLinks, Goto, TypeOK
    <2> QED
      BY <1>1, <2>1 DEF Settled
  <1>3. ASSUME ~DeleteLinks(c) PROVE Settled = {}
    <2>1. CASE MishapInDown(c)
      <3>1. ~calm'[c]
        BY <2>1, <1>a DEF MishapInDown, Disturb, TypeOK
      <3> QED
        BY <1>1, <3>1 DEF Settled
    <2>2. CASE ~MishapInDown(c)
      <3>1. ~(pc[c] = "links" /\ pc'[c] = "downOk")
        BY <1>3, <2>2, <1>a
           DEF CliAction, CliStep, Start, StartUp, StartDown, StartChanging, StartStatus,
               Return, Crash, Reset, LoopDone, AfterLoop, CreateBridge, CreateTap, PrepNode,
               RefuseNode, Launch, SeeReady, BootTimeout, ReapBoot, SkipIP, AssignIP, FailIP,
               StopNode, StopForce, PkillNode, CheckPid, Ping, Mishap, LoseInUp, FailInUp,
               MishapInStatus, Final, Goto, TypeOK
      <3> QED
        BY <1>1, <3>1 DEF Settled
    <2> QED
      BY <2>1, <2>2
  <1> QED
    BY <1>2, <1>3

LEMMA OwingStep ==
    ASSUME LabInv, NEW c \in Clis, CliAction(c), owed' = (owed \cup Started) \ Settled,
           NEW x \in Clis
    PROVE  Owing(x)' /\ owed' \subseteq Topos
  <1>a. /\ DownInv /\ TypeInv /\ TypeOK /\ Owing(x) /\ Alone(c)
        /\ \A y \in Clis : topo[y] \in Topos
    BY DEF LabInv, DownInv, TypeInv, TypeOK
  <1>b. Started \subseteq Topos /\ owed \subseteq Topos
    BY <1>a, StartedBy DEF LabInv
  <1>c. ASSUME pc'[x] \in UpSteps PROVE topo'[x] \in owed'
    <2>1. ASSUME NEW t \in Topos, StartUp(c, t), x = c PROVE topo'[x] \in owed'
      <3>1. topo'[c] = t /\ Started = {t} /\ pc[c] = "idle"
        BY <2>1, <1>a, StartedBy DEF StartUp, StartChanging, TypeOK
      <3>2. Settled = {}
        BY <1>a, <3>1, SettledBy DEF DeleteLinks
      <3> QED
        BY <2>1, <3>1, <3>2
    <2>2. ASSUME x = c, ~\E t \in Topos : StartUp(c, t) PROVE topo'[x] \in owed'
      <3>1. pc[c] \in UpSteps /\ Settled = {}
        BY <1>a, <1>c, <2>2, InUpBefore, SettledBy
      <3>2. topo'[c] = topo[c]
        <4>1. ~\E t \in Topos : Changes(c, t)
          BY <3>1 DEF Changes, StartUp, StartDown, StartChanging, UpSteps
        <4> QED
          BY <1>a, <1>c, <2>2, <4>1, BusyBefore DEF Busy
      <3> QED
        BY <1>a, <2>2, <3>1, <3>2 DEF Owing
    <2>3. ASSUME x # c PROVE topo'[x] \in owed'
      <3>1. pc'[x] = pc[x] /\ topo'[x] = topo[x]
        BY <1>a, <1>c, <2>3, OthersStay DEF UpSteps
      <3>2. topo[x] \in owed
        BY <1>a, <1>c, <3>1 DEF Owing
      <3>3. topo[x] \notin Settled
        <4>1. CASE DeleteLinks(c) /\ calm[c]
          <5>1. ~Overlap(topo[x], topo[c])
            BY <1>a, <1>c, <2>3, <3>1, <4>1 DEF Alone, Busy
          <5> QED
            BY <1>a, <4>1, <5>1, OverlapsItself, SettledBy
        <4>2. CASE ~(DeleteLinks(c) /\ calm[c])
          BY <1>a, <4>2, SettledBy
        <4> QED
          BY <4>1, <4>2
      <3> QED
        BY <3>1, <3>2, <3>3
    <2> QED
      BY <2>1, <2>2, <2>3
  <1> QED
    BY <1>b, <1>c DEF Owing

-----------------------------------------------------------------------------
(* What is up stands. *)

LEMMA UpAfter ==
    ASSUME TypeInv, NEW c \in Clis, CliAction(c)
    PROVE  \/ up' = up
           \/ \E t \in Topos : Changes(c, t) /\ up' = {s \in up : ~Overlap(s, t)}
           \/ /\ LoopDone(c) /\ pc[c] = "ip" /\ pc'[c] = "upOk" /\ calm[c]
              /\ up' = up \cup {topo[c]}
  <1>1. CASE Start(c)
    BY <1>1 DEF Start, StartUp, StartDown, StartChanging, StartStatus, Changes
  <1>2. CASE LoopDone(c)
    <2>1. AfterLoop["ip"] = "upOk"
      BY DEF AfterLoop
    <2> QED
      BY <1>2, <2>1 DEF LoopDone, Goto, TypeInv, TypeOK
  <1>3. CASE ~Start(c) /\ ~LoopDone(c)
    BY <1>3
       DEF CliAction, CliStep, Return, Crash, Reset, CreateBridge, CreateTap, PrepNode,
           RefuseNode, Launch, SeeReady, BootTimeout, ReapBoot, SkipIP, AssignIP, FailIP,
           StopNode, StopForce, PkillNode, DeleteLinks, CheckPid, Ping, Mishap, LoseInUp,
           FailInUp, MishapInDown, MishapInStatus, Disturb
  <1> QED
    BY <1>1, <1>2, <1>3

LEMMA StandsStep ==
    ASSUME LabInv, NEW c \in Clis, CliAction(c)
    PROVE  UpStands'
  <1>a. /\ DownInv /\ TypeInv /\ TypeOK /\ Building(c) /\ Alone(c) /\ UpStands
        /\ up \subseteq Topos /\ \A y \in Clis : topo[y] \in Topos
    BY DEF LabInv, DownInv, TypeInv, TypeOK
  <1>b. ASSUME NEW s \in up PROVE There(s)'
    <2>1. There(s) /\ (pc[c] = "links" => ~Overlap(topo[c], s))
      BY <1>a DEF UpStands, Busy, DownSteps
    <2> QED
      BY <1>a, <2>1, StepKeepsThere, ThereKept
  <1>1. CASE ~\E t \in Topos : Changes(c, t)
    <2>1. ASSUME NEW s \in up, NEW y \in Clis, Busy(y)' PROVE ~Overlap(topo'[y], s)
      BY <1>a, <1>1, <2>1, BusyBefore DEF UpStands
    <2>2. CASE up' = up
      BY <1>b, <2>1, <2>2 DEF UpStands, There, BridgesOf, TapsOf, Overlap, NodesOf
    <2>3. CASE /\ pc[c] = "ip" /\ pc'[c] = "upOk" /\ calm[c]
               /\ up' = up \cup {topo[c]}
      <3> PICK t \in Topos : t = topo[c]
        BY <1>a
      <3>1. There(t) /\ KeepsThere(t)
        BY <1>a, <2>3, StepKeepsThere DEF Building
      <3>2. There(t)'
        BY <3>1, ThereKept
      <3>3. ASSUME NEW y \in Clis, Busy(y)' PROVE ~Overlap(topo'[y], t)
        <4>1. y # c
          BY <2>3, <3>3 DEF Busy, UpSteps, DownSteps
        <4> QED
          BY <1>a, <1>1, <2>3, <3>3, <4>1, BusyBefore DEF Alone
      <3>4. \A s \in up' : There(s)'
        BY <1>b, <2>3, <3>2
      <3>5. \A s \in up', y \in Clis : Busy(y)' => ~Overlap(topo'[y], s)
        BY <2>1, <2>3, <3>3
      <3> QED
        BY <3>4, <3>5 DEF UpStands, Overlap
    <2> QED
      BY <1>a, <1>1, <2>2, <2>3, UpAfter
  <1>2. ASSUME NEW t \in Topos, Changes(c, t) PROVE UpStands'
    <2>1. /\ up' = {s \in up : ~Overlap(s, t)} /\ topo'[c] = t
      BY <1>2, <1>a DEF Changes, StartUp, StartDown, StartChanging, TypeOK
    <2>2. ASSUME NEW s \in up', NEW y \in Clis, Busy(y)' PROVE ~Overlap(topo'[y], s)
      <3>1. CASE y = c
        BY <1>a, <2>1, <2>2, <3>1, OverlapSymmetric
      <3>2. CASE y # c
        BY <1>a, <2>1, <2>2, <3>2, OthersStay DEF UpStands, Busy
      <3> QED
        BY <3>1, <3>2
    <2> QED
      BY <1>b, <2>1, <2>2 DEF UpStands, There, BridgesOf, TapsOf, Overlap, NodesOf
  <1> QED
    BY <1>1, <1>2

-----------------------------------------------------------------------------
(* The invariant. *)

LEMMA LabInvInit == LabInit => LabInv
  BY DownInit DEF LabInit, Init, LabInv, Owing, Building, UpStands, UpSteps

\* Steps of no cli leave the account and all commands as they are.
LEMMA QuietStep ==
    ASSUME LabInv, DownInv', UNCHANGED <<pc, pos, topo, calm, up>>,
           \A t \in Topos : KeepsThere(t), owed' = (owed \cup Started) \ Settled
    PROVE  LabInv' /\ owed' = owed
  <1>a. /\ DownInv /\ TypeInv /\ UpStands /\ up \subseteq Topos /\ owed \subseteq Topos
        /\ \A x \in Clis : topo[x] \in Topos /\ Owing(x) /\ Building(x)
    BY DEF LabInv, DownInv, TypeInv, TypeOK
  <1>1. Started = {} /\ Settled = {}
    BY DEF Started, Settled
  <1>2. \A x \in Clis : Owing(x)' /\ Building(x)'
    BY <1>a, <1>1, BuildingKept DEF Owing
  <1>3. \A s \in up : There(s)'
    BY <1>a, ThereKept DEF UpStands
  <1>4. \A s \in up, y \in Clis : Busy(y)' => ~Overlap(topo'[y], s)
    BY <1>a DEF UpStands, Busy
  <1>5. UpStands'
    BY <1>3, <1>4 DEF UpStands, Overlap
  <1> QED
    BY <1>a, <1>1, <1>2, <1>5 DEF LabInv

LEMMA HostQuiet ==
    ASSUME NEW p \in Pids, HostStep(p)
    PROVE  UNCHANGED <<pc, pos, topo, calm, up>>
  BY DEF HostStep, GuestReady, QemuExit, ForeignStart, ForeignExit

LEMMA LabInvCli ==
    ASSUME LabInv, NEW c \in Clis, CliAction(c), LabNext
    PROVE  LabInv'
  <1>a. /\ DownInv /\ DownInv' /\ TypeInv
        /\ \A x \in Clis : Alone(x) /\ Building(x) /\ topo[x] \in Topos
    BY DownStep DEF LabInv, LabNext, DownInv, TypeInv, TypeOK
  <1>1. owed' \subseteq Topos /\ \A x \in Clis : Owing(x)'
    BY OwingStep DEF LabNext
  <1>2. ASSUME NEW x \in Clis PROVE Building(x)'
    <2>1. CASE x = c
      BY <2>1, OwnBuilding
    <2>2. CASE x # c /\ calm[x] /\ ~Busy(x)
      <3>1. pc'[x] = pc[x]
        BY <1>a, <2>2, OthersStay
      <3> QED
        BY <2>2, <3>1 DEF Building, Busy, UpSteps
    <2>3. CASE x # c /\ calm[x] /\ Busy(x)
      <3>1. Busy(c) => ~Overlap(topo[c], topo[x])
        BY <1>a, <2>3 DEF Alone
      <3>2. KeepsThere(topo[x])
        BY <1>a, <3>1, StepKeepsThere DEF Busy, DownSteps
      <3>3. /\ pc'[x] = pc[x] /\ pos'[x] = pos[x] /\ topo'[x] = topo[x]
            /\ calm'[x] => calm[x]
        BY <1>a, <2>3, <3>1, OthersStay DEF Busy, DownSteps
      <3> QED
        BY <1>a, <3>2, <3>3, BuildingKept
    <2>4. CASE x # c /\ ~calm[x]
      BY <1>a, <2>4, OthersStay DEF Building
    <2> QED
      BY <2>1, <2>2, <2>3, <2>4
  <1> QED
    BY <1>a, <1>1, <1>2, StandsStep DEF LabInv

LEMMA LabInvStep == LabInv /\ [LabNext]_labVars => LabInv'
  <1> SUFFICES ASSUME LabInv, [LabNext]_labVars PROVE LabInv'
    OBVIOUS
  <1>1. CASE UNCHANGED labVars
    <2>1. DownInv'
      BY <1>1, DownStep DEF LabInv, labVars
    <2>2. \A t \in Topos : KeepsThere(t)
      BY <1>1 DEF labVars, vars, KeepsThere
    <2>3. owed' = (owed \cup Started) \ Settled
      BY <1>1 DEF labVars, vars, Started, Settled
    <2> QED
      BY <1>1, <2>1, <2>2, <2>3, QuietStep DEF labVars, vars
  <1>2. ASSUME NEW c \in Clis, CliAction(c), LabNext PROVE LabInv'
    BY <1>2, LabInvCli
  <1>3. ASSUME NEW p \in Pids, HostStep(p), LabNext PROVE LabInv'
    <2>1. DownInv' /\ owed' = (owed \cup Started) \ Settled
      BY <1>3, DownStep DEF LabInv, LabNext
    <2> QED
      BY <1>3, <2>1, HostQuiet, HostKeepsThere, QuietStep
  <1> QED
    BY <1>1, <1>2, <1>3 DEF LabNext, Next, CliAction

LEMMA LabInvariant == LabSpec => []LabInv
  BY LabInvInit, LabInvStep, PTL DEF LabSpec

-----------------------------------------------------------------------------
(* What a step does to the things of the service. *)

LEMMA OverlapIsCommon ==
    ASSUME NEW s \in Topos, NEW t \in Topos
    PROVE  Overlap(s, t) <=> OwnedBy(s) \cap OwnedBy(t) # {}
  <1>1. ASSUME Overlap(s, t) PROVE OwnedBy(s) \cap OwnedBy(t) # {}
    <2>1. CASE NodesOf(s) \cap NodesOf(t) # {}
      <3> PICK n : n \in NodesOf(s) /\ n \in NodesOf(t)
        BY <2>1
      <3>1. <<"qemu", n>> \in OwnedBy(s) /\ <<"qemu", n>> \in OwnedBy(t)
        BY DEF OwnedBy
      <3> QED
        BY <3>1
    <2>2. CASE TapsOf(s) \cap TapsOf(t) # {}
      <3> PICK x : x \in TapsOf(s) /\ x \in TapsOf(t)
        BY <2>2
      <3>1. <<"tap", x>> \in OwnedBy(s) /\ <<"tap", x>> \in OwnedBy(t)
        BY DEF OwnedBy, DevicesOf
      <3> QED
        BY <3>1
    <2>3. CASE BridgesOf(s) \cap BridgesOf(t) # {}
      <3> PICK br : br \in BridgesOf(s) /\ br \in BridgesOf(t)
        BY <2>3
      <3>1. <<"bridge", br>> \in OwnedBy(s) /\ <<"bridge", br>> \in OwnedBy(t)
        BY DEF OwnedBy, DevicesOf
      <3> QED
        BY <3>1
    <2> QED
      BY <1>1, <2>1, <2>2, <2>3 DEF Overlap
  <1>2. ASSUME NEW x \in OwnedBy(s), x \in OwnedBy(t) PROVE Overlap(s, t)
    BY <1>2 DEF OwnedBy, DevicesOf, Overlap
  <1> QED
    BY <1>1, <1>2

LEMMA ThereIsDevices ==
    ASSUME NEW t \in Topos
    PROVE  There(t) <=> DevicesOf(t) \subseteq Things
  <1>1. BridgesOf(t) \subseteq Bridges /\ TapsOf(t) \subseteq Taps
    BY DevicesOfNames
  <1>2. ASSUME There(t) PROVE DevicesOf(t) \subseteq Things
    BY <1>1, <1>2 DEF There, DevicesOf, Things
  <1>3. ASSUME DevicesOf(t) \subseteq Things PROVE There(t)
    <2>1. ASSUME NEW br \in BridgesOf(t) PROVE br \in bridges
      <3>1. <<"bridge", br>> \in Things
        BY <1>3 DEF DevicesOf
      <3> QED
        BY <3>1 DEF Things
    <2>2. ASSUME NEW x \in TapsOf(t) PROVE tap[x] # Absent
      <3>1. <<"tap", x>> \in Things
        BY <1>3 DEF DevicesOf
      <3> QED
        BY <3>1 DEF Things
    <2> QED
      BY <2>1, <2>2 DEF There
  <1> QED
    BY <1>2, <1>3

LEMMA SameThings ==
    ASSUME UNCHANGED <<bridges, tap>>,
           \A n \in Nodes : ProcessesOf(n)' = {} <=> ProcessesOf(n) = {}
    PROVE  Things' = Things
  BY DEF Things

LEMMA FewerThings ==
    ASSUME bridges' \subseteq bridges,
           \A x \in Taps : tap[x] = Absent => tap'[x] = Absent,
           \A n \in Nodes : ProcessesOf(n) = {} => ProcessesOf(n)' = {}
    PROVE  Things' \subseteq Things
  BY DEF Things

LEMMA CleanIsNone ==
    ASSUME NEW t \in Topos, Clean(t)
    PROVE  Things \cap OwnedBy(t) = {}
  BY DEF Clean, Things, OwnedBy, DevicesOf

LEMMA KillLoses ==
    ASSUME TypeOK, NEW S, proc' = Kill(S), NEW n \in Nodes, ProcessesOf(n) = {}
    PROVE  ProcessesOf(n)' = {}
  BY KillWho, NamesAssumption DEF ProcessesOf

-----------------------------------------------------------------------------
(* The steps of the service. *)

ServiceStep == Service!Next \/ UNCHANGED Service!vars

\* The devices of what is up are there after every step.
LEMMA StillThere ==
    ASSUME LabInv', up' = up PROVE Service!Keeps
  <1>1. up' \subseteq Topos
    BY DEF LabInv, DownInv, TypeInv, TypeOK
  <1>2. ASSUME NEW s \in up PROVE [t \in Topos |-> DevicesOf(t)][s] \subseteq Things'
    <2>1. s \in Topos /\ There(s)'
      BY <1>1, <1>2 DEF LabInv, UpStands
    <2>2. DevicesOf(s) \subseteq Things'
      BY <2>1, DevicesOfNames DEF There, DevicesOf, Things, BridgesOf, TapsOf
    <2> QED
      BY <2>1, <2>2
  <1> QED
    BY <1>2 DEF Service!Keeps

LEMMA LoseStep ==
    ASSUME LabInv', UNCHANGED <<owed, up>>, Things' \subseteq Things
    PROVE  ServiceStep
  BY StillThere DEF ServiceStep, Service!Next, Service!Lose

LEMMA MakeStep ==
    ASSUME NEW t \in Topos, t \in owed, UNCHANGED <<owed, up>>,
           NEW x \in OwnedBy(t), Things' = Things \cup {x}
    PROVE  ServiceStep
  BY DEF ServiceStep, Service!Next, Service!Make
\* A step of a cli that begins, makes and takes away nothing.
LEMMA StillStep ==
    ASSUME UNCHANGED <<bridges, tap, owed, up>>,
           \A n \in Nodes : ProcessesOf(n)' = {} <=> ProcessesOf(n) = {}
    PROVE  ServiceStep
  BY SameThings DEF ServiceStep, Service!vars

\* What is left of up after a command begins on t, as the service says it.
LEMMA BeginStep ==
    ASSUME NEW t \in Topos, up \subseteq Topos, up' = {s \in up : ~Overlap(s, t)},
           owed' \in {owed, owed \cup {t}}, Things' = Things
    PROVE  ServiceStep
  <1>1. up' = {s \in up : [r \in Topos |-> OwnedBy(r)][s]
                             \cap [r \in Topos |-> OwnedBy(r)][t] = {}}
    BY OverlapIsCommon
  <1> QED
    BY <1>1 DEF ServiceStep, Service!Next, Service!Begin

LEMMA AccountAfter ==
    ASSUME DownInv, NEW c \in Clis, CliAction(c), owed \subseteq Topos,
           owed' = (owed \cup Started) \ Settled
    PROVE  /\ \A t \in Topos : StartUp(c, t) => owed' = owed \cup {t}
           /\ (~\E t \in Topos : StartUp(c, t)) /\ ~DeleteLinks(c) => owed' = owed
           /\ DeleteLinks(c) => owed' = IF calm[c] THEN owed \ {topo[c]} ELSE owed
  <1>1. ASSUME NEW t \in Topos, StartUp(c, t) PROVE ~DeleteLinks(c)
    BY <1>1 DEF StartUp, StartChanging, DeleteLinks
  <1>2. ASSUME DeleteLinks(c) PROVE ~\E t \in Topos : StartUp(c, t)
    BY <1>2 DEF StartUp, StartChanging, DeleteLinks
  <1> QED
    BY <1>1, <1>2, StartedBy, SettledBy

\* The steps that leave every process where it is, or kill some.
LEMMA CliImplements ==
    ASSUME LabInv, LabInv', NEW c \in Clis, CliAction(c),
           owed' = (owed \cup Started) \ Settled
    PROVE  ServiceStep
  <1>a. /\ DownInv /\ TypeInv /\ TypeOK /\ up \subseteq Topos /\ owed \subseteq Topos
        /\ topo[c] \in Topos /\ Owing(c) /\ Building(c) /\ pos[c] \in Nat \ {0}
    BY DEF LabInv, DownInv, TypeInv, TypeOK
  <1> DEFINE Same == \A n \in Nodes : ProcessesOf(n)' = {} <=> ProcessesOf(n) = {}
  <1>b. proc' = proc => Same
    BY DEF ProcessesOf
  <1>c. /\ ~\E t \in Topos : StartUp(c, t)
        /\ DeleteLinks(c) => ~calm[c]
        => owed' = owed
    BY <1>a, AccountAfter
  <1>d. pc[c] # "idle" => ~\E t \in Topos : StartUp(c, t)
    BY DEF StartUp, StartChanging
  <1>1. CASE Start(c)
    <2>1. UNCHANGED <<bridges, tap, proc>>
      BY <1>1 DEF Start, StartUp, StartDown, StartChanging, StartStatus, host
    <2>2. Things' = Things
      BY <1>b, <2>1, SameThings
    <2>3. ASSUME NEW t \in Topos, StartUp(c, t) PROVE ServiceStep
      BY <1>a, <2>2, <2>3, AccountAfter, BeginStep DEF StartUp, StartChanging
    <2>4. ASSUME ~\E t \in Topos : StartUp(c, t) PROVE ServiceStep
      <3>1. owed' = owed
        BY <1>1, <1>c, <2>4 DEF Start, StartDown, StartChanging, StartStatus, DeleteLinks
      <3>2. ASSUME NEW t \in Topos, StartDown(c, t) PROVE ServiceStep
        BY <1>a, <2>2, <3>1, <3>2, BeginStep DEF StartDown, StartChanging
      <3>3. ASSUME NEW t \in Topos, StartStatus(c, t) PROVE ServiceStep
        BY <1>b, <2>1, <3>1, <3>3, StillStep DEF StartStatus
      <3> QED
        BY <1>1, <2>4, <3>2, <3>3 DEF Start
    <2> QED
      BY <2>3, <2>4
  <1>2. CASE Return(c) \/ Crash(c)
    <2>1. UNCHANGED <<bridges, tap, proc, up>> /\ pc[c] # "idle" /\ pc'[c] = "idle"
      BY <1>2, <1>a DEF Return, Crash, Reset, Final, host, Goto, TypeOK
    <2>2. ~DeleteLinks(c)
      BY <1>a, <2>1 DEF DeleteLinks, Goto, TypeOK
    <2> QED
      BY <1>b, <1>c, <1>d, <2>1, <2>2, StillStep
  <1>3. CASE Mishap(c)
    <2>1. /\ UNCHANGED <<bridges, tap, proc, up>> /\ pc[c] # "idle"
          /\ calm'[c] = FALSE \/ pc[c] = "status"
      BY <1>3, <1>a DEF Mishap, LoseInUp, FailInUp, MishapInDown, MishapInStatus,
                        Disturb, host, TypeOK
    <2>2. DeleteLinks(c) => ~calm[c]
      BY <2>1 DEF DeleteLinks
    <2> QED
      BY <1>b, <1>c, <1>d, <2>1, <2>2, StillStep
  <1>4. CASE \/ RefuseNode(c) \/ SeeReady(c) \/ BootTimeout(c) \/ SkipIP(c) \/ FailIP(c)
             \/ CheckPid(c) \/ Ping(c)
    <2>1. /\ UNCHANGED <<bridges, tap, proc, up>> /\ pc[c] \notin {"idle", "links"}
      BY <1>4 DEF RefuseNode, SeeReady, BootTimeout, SkipIP, FailIP, CheckPid, Ping, host
    <2> QED
      BY <1>b, <1>c, <1>d, <2>1, StillStep DEF DeleteLinks
  <1>5. CASE LoopDone(c)
    <2>1. UNCHANGED <<bridges, tap, proc>> /\ pc[c] \notin {"idle", "links"}
      BY <1>5 DEF LoopDone, AfterLoop, host
    <2>2. owed' = owed /\ Things' = Things
      BY <1>b, <1>c, <1>d, <2>1, SameThings DEF DeleteLinks
    <2>3. CASE pc[c] = "ip" /\ calm[c]
      <3>1. topo[c] \in owed /\ There(topo[c]) /\ up' = up \cup {topo[c]}
        BY <1>5, <1>a, <2>3 DEF Owing, Building, LoopDone, UpSteps
      <3>2. DevicesOf(topo[c]) \subseteq Things
        BY <1>a, <3>1, ThereIsDevices
      <3> QED
        BY <1>a, <2>2, <3>1, <3>2 DEF ServiceStep, Service!Next, Service!UpDone
    <2>4. CASE ~(pc[c] = "ip" /\ calm[c])
      BY <1>5, <2>2, <2>4 DEF LoopDone, ServiceStep, Service!vars
    <2> QED
      BY <2>3, <2>4
  <1>6. CASE PrepNode(c) \/ AssignIP(c)
    <2>1. UNCHANGED <<bridges, tap, up>> /\ pc[c] \notin {"idle", "links"}
      BY <1>6 DEF PrepNode, AssignIP
    <2>2. \A p \in Pids : proc'[p].who = proc[p].who
      <3>1. CASE PrepNode(c)
        BY <3>1, <1>a, UpdateWho DEF PrepNode, FreshDir
      <3>2. CASE AssignIP(c)
        <4> PICK p \in Pids : proc' = [proc EXCEPT ![p].addrs = @ \cup {Item(c).name}]
          BY <3>2 DEF AssignIP, ProcessesOf
        <4> QED
          BY <1>a, UpdateWho DEF TypeOK
      <3> QED
        BY <1>6, <3>1, <3>2
    <2>3. Same
      BY <2>2, SameWhoKeeps
    <2> QED
      BY <1>c, <1>d, <2>1, <2>3, StillStep DEF DeleteLinks
  <1>7. CASE StopNode(c) \/ StopForce(c) \/ PkillNode(c) \/ ReapBoot(c)
    <2>1. UNCHANGED <<bridges, tap, up>> /\ pc[c] \notin {"idle", "links"}
      BY <1>7 DEF StopNode, StopForce, PkillNode, ReapBoot
    <2>2. proc' = proc \/ \E S : proc' = Kill(S)
      BY <1>7 DEF StopNode, StopForce, PkillNode, ReapBoot
    <2>3. \A n \in Nodes : ProcessesOf(n) = {} => ProcessesOf(n)' = {}
      BY <1>a, <1>b, <2>2, KillLoses
    <2>4. Things' \subseteq Things
      BY <2>1, <2>3, FewerThings
    <2> QED
      BY <1>c, <1>d, <2>1, <2>4, LoseStep DEF DeleteLinks
  <1>8. CASE CreateBridge(c)
    <2>1. /\ bridges' = bridges \cup {Item(c)} /\ Item(c) \in BridgesOf(topo[c])
          /\ UNCHANGED <<proc, up>> /\ pc[c] = "bridge"
          /\ \A x \in Taps : tap'[x] = Absent <=> tap[x] = Absent
      BY <1>8, <1>a, BridgeItem, NamesAssumption DEF CreateBridge
    <2>2. Things' = Things \cup {<<"bridge", Item(c)>>}
      BY <1>b, <2>1 DEF Things
    <2>3. <<"bridge", Item(c)>> \in OwnedBy(topo[c])
      BY <2>1 DEF OwnedBy, DevicesOf
    <2>4. owed' = owed /\ topo[c] \in owed
      BY <1>a, <1>c, <1>d, <2>1 DEF DeleteLinks, Owing, UpSteps
    <2> QED
      BY <1>a, <2>1, <2>2, <2>3, <2>4, MakeStep
  <1>9. CASE CreateTap(c)
    <2>1. /\ Item(c) \in TapPlan /\ Item(c).name \in TapsOf(topo[c]) /\ Item(c).name \in Taps
          /\ UNCHANGED <<bridges, proc, up>> /\ pc[c] = "tap"
      BY <1>9, <1>a, TapItem DEF CreateTap, TapPlan
    <2>2. \A x \in Taps : tap'[x] = Absent <=> tap[x] = Absent /\ x # Item(c).name
      BY <1>9, <1>a, <2>1, NamesAssumption DEF CreateTap, TapPlan, TypeOK
    <2>3. Things' = Things \cup {<<"tap", Item(c).name>>}
      BY <1>b, <2>1, <2>2 DEF Things
    <2>4. <<"tap", Item(c).name>> \in OwnedBy(topo[c])
      BY <2>1 DEF OwnedBy, DevicesOf
    <2>5. owed' = owed /\ topo[c] \in owed
      BY <1>a, <1>c, <1>d, <2>1 DEF DeleteLinks, Owing, UpSteps
    <2> QED
      BY <1>a, <2>1, <2>3, <2>4, <2>5, MakeStep
  <1>10. CASE Launch(c)
    <2>1. /\ Item(c) \in Nodes /\ Item(c) \in NodesOf(topo[c])
          /\ UNCHANGED <<bridges, tap, up>> /\ pc[c] = "launch"
      <3>1. pc[c] = "launch"
        BY <1>10 DEF Launch
      <3>2. pos[c] <= Len(Plans[topo[c]].nodes)
        BY <1>a, <3>1, NodeLoopMore DEF InNodeLoop
      <3> QED
        BY <1>10, <1>a, <3>1, <3>2, NodeItem DEF Launch, NodeLoops, InNodeLoop
    <2>2. owed' = owed /\ topo[c] \in owed
      BY <1>a, <1>c, <1>d, <2>1 DEF DeleteLinks, Owing, UpSteps
    <2>3. CASE proc' = proc
      BY <1>b, <2>1, <2>2, <2>3, StillStep
    <2>4. CASE \E p \in Pids : /\ proc[p].who = Free /\ proc'[p].who = Item(c)
                               /\ \A q \in Pids \ {p} : proc'[q] = proc[q]
      <3> PICK n \in Nodes : n = Item(c)
        BY <2>1
      <3>1. /\ \A m \in Nodes \ {n} : ProcessesOf(m)' = {} <=> ProcessesOf(m) = {}
            /\ ProcessesOf(n)' # {}
        BY <2>4, NamesAssumption DEF ProcessesOf
      <3>2. Things' = Things \cup {<<"qemu", n>>}
        BY <2>1, <3>1 DEF Things
      <3>3. <<"qemu", n>> \in OwnedBy(topo[c])
        BY <2>1 DEF OwnedBy
      <3> QED
        BY <1>a, <2>1, <2>2, <3>2, <3>3, MakeStep
    <2> QED
      BY ZenonT(60), <1>10, <1>a, <2>3, <2>4 DEF Launch, TypeOK, NoProcess
  <1>11. CASE DeleteLinks(c)
    <2> PICK t \in Topos : t = topo[c]
      BY <1>a
    <2>1. /\ pc[c] = "links" /\ pc'[c] = "downOk" /\ topo'[c] = t /\ calm'[c] = calm[c]
          /\ UNCHANGED up /\ bridges' \subseteq bridges
          /\ \A x \in Taps : tap[x] = Absent => tap'[x] = Absent
      BY <1>11, <1>a, NamesAssumption DEF DeleteLinks, Goto, TypeOK
    <2>2. \A p \in Pids : proc'[p].who = proc[p].who
      BY <1>11, <1>a, UpdateWho DEF DeleteLinks, TypeOK
    <2>3. Things' \subseteq Things
      BY <2>1, <2>2, SameWhoKeeps, FewerThings
    <2>4. CASE calm[c]
      <3>1. owed' = owed \ {t}
        BY <1>11, <1>a, <2>4, AccountAfter
      <3>2. Clean(t)'
        BY <2>1, <2>4 DEF LabInv, DownInv, Progress, Clean
      <3>3. Things' \cap OwnedBy(t) = {}
        BY <3>2, <2>1 DEF Clean, Things, OwnedBy, DevicesOf
      <3> QED
        BY <2>1, <2>3, <3>1, <3>3, StillThere DEF ServiceStep, Service!Next, Service!DownDone
    <2>5. CASE ~calm[c]
      <3>1. owed' = owed
        BY <1>c, <1>d, <2>1, <2>5
      <3> QED
        BY <2>1, <2>3, <3>1, LoseStep
    <2> QED
      BY <2>4, <2>5
  <1> QED
    BY <1>1, <1>2, <1>3, <1>4, <1>5, <1>6, <1>7, <1>8, <1>9, <1>10, <1>11
       DEF CliAction, CliStep

LEMMA HostImplements ==
    ASSUME LabInv, LabInv', NEW p \in Pids, HostStep(p),
           owed' = (owed \cup Started) \ Settled
    PROVE  ServiceStep
  <1>a. TypeOK
    BY DEF LabInv, DownInv, TypeInv
  <1>1. UNCHANGED <<bridges, tap, pc, up>>
    BY DEF HostStep, GuestReady, QemuExit, ForeignStart, ForeignExit
  <1>2. owed' = owed
    BY <1>1 DEF Started, Settled
  <1>3. ASSUME NEW n \in Nodes, ProcessesOf(n) = {} PROVE ProcessesOf(n)' = {}
    <2>1. CASE GuestReady(p)
      <3>1. \A q \in Pids : proc'[q].who = proc[q].who
        BY <1>a, <2>1, UpdateWho DEF GuestReady, TypeOK
      <3> QED
        BY <1>3, <3>1, SameWhoKeeps
    <2>2. CASE QemuExit(p) \/ ForeignExit(p)
      BY <1>a, <1>3, <2>2, KillLoses DEF QemuExit, ForeignExit
    <2>3. CASE ForeignStart(p)
      <3>1. proc'[p].who = Foreign /\ \A q \in Pids \ {p} : proc'[q] = proc[q]
        BY <1>a, <2>3 DEF ForeignStart, TypeOK, Process
      <3> QED
        BY <1>3, <3>1, NamesAssumption DEF ProcessesOf
    <2> QED
      BY <2>1, <2>2, <2>3 DEF HostStep
  <1>4. Things' \subseteq Things
    BY <1>1, <1>3, FewerThings
  <1> QED
    BY <1>1, <1>2, <1>4, LoseStep

LEMMA LabStepImplements == LabInv /\ LabInv' /\ [LabNext]_labVars => [Service!Next]_(Service!vars)
  <1> SUFFICES ASSUME LabInv, LabInv', [LabNext]_labVars PROVE ServiceStep
    BY DEF ServiceStep
  <1>1. CASE UNCHANGED labVars
    <2>1. \A n \in Nodes : ProcessesOf(n)' = ProcessesOf(n)
      BY <1>1 DEF labVars, vars, ProcessesOf
    <2> QED
      BY <1>1, <2>1, StillStep DEF labVars, vars
  <1>2. ASSUME NEW c \in Clis, CliAction(c), LabNext PROVE ServiceStep
    BY <1>2, CliImplements DEF LabNext
  <1>3. ASSUME NEW p \in Pids, HostStep(p), LabNext PROVE ServiceStep
    BY <1>3, HostImplements DEF LabNext
  <1> QED
    BY <1>1, <1>2, <1>3 DEF LabNext, Next, CliAction

LEMMA LabInitImplements == LabInit => Service!Init
  BY NamesAssumption DEF LabInit, Init, Service!Init, Things, ProcessesOf, NoProcess

\* Up, Down, Status, their crashes and mishaps, and all that happens on the host
\* meanwhile are steps of the service, see ImplementsService.
THEOREM LabImplementsService == LabSpec => ImplementsService
  <1>1. LabInit => Service!Init
    BY LabInitImplements
  <1>2. LabInv /\ LabInv' /\ [LabNext]_labVars => [Service!Next]_(Service!vars)
    BY LabStepImplements
  <1> QED
    BY <1>1, <1>2, LabInvariant, PTL DEF LabSpec, Service!Spec, ImplementsService

-----------------------------------------------------------------------------
(* What the service alone implies. *)

LEMMA ServiceAccounts ==
    Accounted /\ owed \subseteq Topos /\ [Service!Next]_(Service!vars) => Accounted'
  <1> SUFFICES ASSUME Accounted, owed \subseteq Topos, ServiceStep
               PROVE  \A x \in Things' : \E t \in owed' : x \in OwnedBy(t)
    BY DEF ServiceStep, Accounted, OwnedBy, DevicesOf, NodesOf, TapsOf, BridgesOf
  <1>a. \A x \in Things : \E t \in owed : x \in OwnedBy(t)
    BY DEF Accounted
  <1>1. CASE UNCHANGED Service!vars
    BY <1>1, <1>a DEF Service!vars
  <1>2. CASE Service!Lose
    BY <1>2, <1>a DEF Service!Lose
  <1>3. ASSUME NEW t \in Topos, Service!Begin(t) \/ Service!UpDone(t)
        PROVE  \A x \in Things' : \E s \in owed' : x \in OwnedBy(s)
    BY <1>3, <1>a DEF Service!Begin, Service!UpDone
  <1>4. ASSUME NEW t \in Topos, Service!Make(t)
        PROVE  \A x \in Things' : \E s \in owed' : x \in OwnedBy(s)
    BY <1>4, <1>a DEF Service!Make
  <1>5. ASSUME NEW t \in Topos, Service!DownDone(t)
        PROVE  \A x \in Things' : \E s \in owed' : x \in OwnedBy(s)
    BY <1>5, <1>a DEF Service!DownDone
  <1> QED
    BY <1>1, <1>2, <1>3, <1>4, <1>5 DEF ServiceStep, Service!Next

\* Nothing is on the host that no topology owes, see Accounted: it follows from
\* the service, whatever implements it.
THEOREM LabAccounted == LabSpec => []Accounted
  <1>1. LabInit => Accounted
    BY NamesAssumption DEF LabInit, Init, Accounted, Things, ProcessesOf, NoProcess
  <1>2. LabInv => owed \subseteq Topos
    BY DEF LabInv
  <1>3. Accounted /\ owed \subseteq Topos /\ [Service!Next]_(Service!vars) => Accounted'
    BY ServiceAccounts
  <1> QED
    BY <1>1, <1>2, <1>3, LabInvariant, LabStepImplements, PTL DEF LabSpec

-----------------------------------------------------------------------------
(***************************************************************************)
(* Part 4.                                                                 *)
(* StaysUp, for every value of the constants: the promise of an Up that    *)
(* returned success holds then, and no crash, no failure and no command    *)
(* on another topology undoes it.                                          *)
(*                                                                         *)
(* What a calm Up has established so far (Networked, Working) is kept by   *)
(* every step that is not on an overlapping topology (Frame), since the    *)
(* step does not touch its devices, its run directories and the qemus that *)
(* serve those; and what is up is kept by the same argument, as no command *)
(* at all works on an overlapping topology (UpStands, of part 3).          *)
(***************************************************************************)

\* A live qemu of n is the recorded one, on the interfaces of n in t, and ready
\* if the run directory says so; the second adds that it does.
Booting(t, n) ==
    /\ dir[n].exists
    /\ \A p \in ProcessesOf(n) : proc[p].live =>
          /\ p = dir[n].pid /\ proc[p].nics = NicsOf(t, n)
          /\ dir[n].ready => proc[p].ready
Booted(t, n) == Booting(t, n) /\ dir[n].ready
Prepared(n) ==
    /\ dir[n].exists /\ ~dir[n].ready
    /\ \A p \in ProcessesOf(n) : ~proc[p].live

Addressed(t, k) == Plans[t].taps[k].ip /\ Plans[t].taps[k].node \in NodesOf(t) =>
    \A p \in ProcessesOf(Plans[t].taps[k].node) :
       proc[p].live => Plans[t].taps[k].name \in proc[p].addrs
WiredAt(t, k) == tap[Plans[t].taps[k].name] = Plans[t].taps[k].bridge

\* How far a calm Up has come with its taps, and with its nodes.
Networked(c) == calm[c] => \A t \in Topos : t = topo[c] =>
    /\ pc[c] = "tap" => \A k \in DOMAIN Plans[t].taps : k < pos[c] => WiredAt(t, k)
    /\ pc[c] \in {"prep", "launch", "wait", "reap", "ip"} =>
          \A k \in DOMAIN Plans[t].taps : WiredAt(t, k)
Working(c) == calm[c] => \A t \in Topos : t = topo[c] =>
    /\ pc[c] = "prep" =>
          \A k \in DOMAIN Plans[t].nodes : k < pos[c] => Booted(t, Plans[t].nodes[k])
    /\ pc[c] \in {"launch", "wait"} =>
          \A m \in Nodes : m = Plans[t].nodes[pos[c]] =>
             /\ \A k \in DOMAIN Plans[t].nodes :
                   k < pos[c] /\ Plans[t].nodes[k] # m => Booted(t, Plans[t].nodes[k])
             /\ pc[c] = "launch" => Prepared(m)
             /\ pc[c] = "wait" => Booting(t, m)
    /\ pc[c] = "ip" =>
          /\ \A n \in NodesOf(t) : Booted(t, n)
          /\ \A k \in DOMAIN Plans[t].taps : k < pos[c] => Addressed(t, k)

UpInv == LabInv /\ StaysUp /\ \A c \in Clis : Networked(c) /\ Working(c)

-----------------------------------------------------------------------------
(* What a step that is not on an overlapping topology leaves alone. *)

FrameWires(t) ==
    /\ \A br \in BridgesOf(t) : br \in bridges => br \in bridges'
    /\ \A x \in TapsOf(t) : tap[x] \in BridgesOf(t) => tap'[x] = tap[x]
FrameDir(n) ==
    /\ dir'[n].exists = dir[n].exists /\ dir'[n].pid = dir[n].pid
    /\ dir[n].ready => dir'[n].ready
    /\ dir'[n].ready => \/ dir[n].ready
                        \/ \E q \in ProcessesOf(n) : proc[q].live /\ proc'[q].ready
FrameQemu(t, n) ==
    \A p \in Pids : proc'[p].who = n /\ proc'[p].live =>
        /\ proc[p].who = n /\ proc[p].live
        /\ proc[p].nics \subseteq TapsOf(t) => proc'[p].nics = proc[p].nics
        /\ proc[p].addrs \subseteq proc'[p].addrs
        /\ proc[p].ready => proc'[p].ready
FrameNode(t, n) == FrameDir(n) /\ FrameQemu(t, n)
Frame(t) == FrameWires(t) /\ \A n \in NodesOf(t) : FrameNode(t, n)

LEMMA NicsOwned == ASSUME NEW t, NEW n PROVE NicsOf(t, n) \subseteq TapsOf(t)
  BY DEF NicsOf, TapsOf

LEMMA BootingKept ==
    ASSUME NEW t, NEW n, Booting(t, n), FrameNode(t, n)
    PROVE  Booting(t, n)'
  <1>1. ASSUME NEW p \in Pids, proc'[p].who = n, proc'[p].live
        PROVE  /\ p = dir'[n].pid /\ proc'[p].nics = NicsOf(t, n)
               /\ dir'[n].ready => proc'[p].ready
    <2>1. /\ p \in ProcessesOf(n) /\ proc[p].live
          /\ proc[p].nics \subseteq TapsOf(t) => proc'[p].nics = proc[p].nics
          /\ proc[p].ready => proc'[p].ready
      BY <1>1 DEF FrameNode, FrameQemu, ProcessesOf
    <2>2. /\ p = dir[n].pid /\ proc[p].nics = NicsOf(t, n)
          /\ \A q \in ProcessesOf(n) : proc[q].live => q = p
      BY <2>1 DEF Booting
    <2>3. dir'[n].ready => proc'[p].ready
      BY <2>1, <2>2 DEF FrameNode, FrameDir, Booting
    <2> QED
      BY <2>1, <2>2, <2>3, NicsOwned DEF FrameNode, FrameDir
  <1>2. dir'[n].exists
    BY DEF FrameNode, FrameDir, Booting
  <1> QED
    BY <1>1, <1>2 DEF Booting, ProcessesOf, NicsOf

LEMMA BootedKept ==
    ASSUME NEW t, NEW n, Booted(t, n), FrameNode(t, n)
    PROVE  Booted(t, n)'
  BY BootingKept DEF Booted, FrameNode, FrameDir

LEMMA PreparedKept ==
    ASSUME NEW t, NEW n, Prepared(n), FrameNode(t, n)
    PROVE  Prepared(n)'
  BY DEF Prepared, FrameNode, FrameDir, FrameQemu, ProcessesOf

LEMMA AddressedKept ==
    ASSUME NEW t, NEW k, Addressed(t, k), Frame(t)
    PROVE  Addressed(t, k)'
  BY DEF Addressed, Frame, FrameNode, FrameQemu, ProcessesOf, NodesOf

LEMMA TapDevices ==
    ASSUME NEW t \in Topos, NEW k \in DOMAIN Plans[t].taps
    PROVE  Plans[t].taps[k].name \in TapsOf(t) /\ Plans[t].taps[k].bridge \in BridgesOf(t)
  BY PlansAssumption DEF TapsOf, BridgesOf

LEMMA WiredAtKept ==
    ASSUME NEW t \in Topos, NEW k \in DOMAIN Plans[t].taps, WiredAt(t, k), FrameWires(t)
    PROVE  WiredAt(t, k)'
  BY TapDevices DEF WiredAt, FrameWires

LEMMA StandsKept ==
    ASSUME NEW t \in Topos, Wired(t), \A n \in NodesOf(t) : Served(t, n), Frame(t)
    PROVE  Wired(t)' /\ \A n \in NodesOf(t) : Served(t, n)'
  <1>1. Wired(t)'
    <2>1. \A k \in DOMAIN Plans[t].taps : WiredAt(t, k)'
      BY WiredAtKept DEF Wired, WiredAt, Frame
    <2> QED
      BY <2>1 DEF Wired, WiredAt, Frame, FrameWires, BridgesOf
  <1>2. ASSUME NEW n \in NodesOf(t) PROVE Served(t, n)'
    <2>1. FrameDir(n) /\ FrameQemu(t, n) /\ Served(t, n)
      BY DEF Frame, FrameNode
    <2>2. ASSUME NEW p \in Pids, proc'[p].who = n, proc'[p].live
          PROVE  /\ p = dir'[n].pid /\ proc'[p].ready /\ proc'[p].nics = NicsOf(t, n)
                 /\ AddrsOf(t, n) \subseteq proc'[p].addrs
      <3>1. /\ p \in ProcessesOf(n) /\ proc[p].live
            /\ proc[p].nics \subseteq TapsOf(t) => proc'[p].nics = proc[p].nics
            /\ proc[p].addrs \subseteq proc'[p].addrs
            /\ proc[p].ready => proc'[p].ready
        BY <2>1, <2>2 DEF FrameQemu, ProcessesOf
      <3>2. /\ p = dir[n].pid /\ proc[p].ready /\ proc[p].nics = NicsOf(t, n)
            /\ AddrsOf(t, n) \subseteq proc[p].addrs
        BY <2>1, <3>1 DEF Served
      <3> QED
        BY <2>1, <3>1, <3>2, NicsOwned DEF FrameDir
    <2>3. dir'[n].exists /\ dir'[n].ready
      BY <2>1 DEF FrameDir, Served
    <2> QED
      BY <2>2, <2>3 DEF Served, ProcessesOf, NicsOf, AddrsOf
  <1> QED
    BY <1>1, <1>2

-----------------------------------------------------------------------------
(* Which steps those are. *)

LEMMA FrameQuiet == ASSUME UNCHANGED <<bridges, tap, proc, dir>>, NEW t PROVE Frame(t)
  BY DEF Frame, FrameWires, FrameNode, FrameDir, FrameQemu

\* Each update the actions make to a process changes one field.
LEMMA UpdateFields ==
    ASSUME NEW q \in Process
    PROVE  /\ \A f : LET r == [q EXCEPT !.live = f]
                     IN  /\ r.who = q.who /\ r.nics = q.nics /\ r.live = f
                         /\ r.ready = q.ready /\ r.addrs = q.addrs
           /\ \A f : LET r == [q EXCEPT !.ready = f]
                     IN  /\ r.who = q.who /\ r.nics = q.nics /\ r.live = q.live
                         /\ r.ready = f /\ r.addrs = q.addrs
           /\ \A f : LET r == [q EXCEPT !.nics = f]
                     IN  /\ r.who = q.who /\ r.nics = f /\ r.live = q.live
                         /\ r.ready = q.ready /\ r.addrs = q.addrs
           /\ \A f : LET r == [q EXCEPT !.addrs = f]
                     IN  /\ r.who = q.who /\ r.nics = q.nics /\ r.live = q.live
                         /\ r.ready = q.ready /\ r.addrs = f
  BY DEF Process

\* Killing leaves what it spares alone.
LEMMA FrameKill ==
    ASSUME TypeOK, NEW S, proc' = Kill(S), UNCHANGED dir, NEW t \in Topos
    PROVE  \A n \in NodesOf(t) : FrameNode(t, n)
  <1>1. \A n \in NodesOf(t) : n # Free
    BY NamesOf, NamesAssumption
  <1>2. \A p \in Pids : proc'[p] = proc[p] \/ proc'[p].who = Free
    BY DEF Kill, NoProcess
  <1> QED
    BY <1>1, <1>2 DEF FrameNode, FrameDir, FrameQemu

\* An Up that works on a node leaves the others alone.
LEMMA FrameOtherNode ==
    ASSUME TypeInv, NEW c \in Clis, PrepNode(c) \/ Launch(c), NEW t,
           NEW n \in Nodes, n # Item(c)
    PROVE  FrameNode(t, n)
  <1>a. TypeOK /\ topo[c] \in Topos /\ \A p \in Pids : proc[p] \in Process
    BY DEF TypeInv, TypeOK
  <1>b. Item(c) \in Nodes
    BY <1>a, NodeItem, NodeLoopMore DEF PrepNode, Launch, NodeLoops, InNodeLoop
  <1>1. CASE PrepNode(c)
    <2>1. ASSUME NEW p \in Pids
          PROVE  /\ proc'[p].who = proc[p].who /\ proc'[p].nics = proc[p].nics
                 /\ proc'[p].ready = proc[p].ready /\ proc'[p].addrs = proc[p].addrs
                 /\ proc'[p].live => proc[p].live
      <3> DEFINE f == proc[p].live /\ proc[p].who # Item(c)
      <3>1. proc'[p] = [proc[p] EXCEPT !.live = f]
        BY <1>1 DEF PrepNode, FreshDir
      <3>2. f => proc[p].live
        OBVIOUS
      <3> HIDE DEF f
      <3> QED
        BY <1>a, <3>1, <3>2, UpdateFields
    <2>2. dir'[n] = dir[n]
      BY <1>1, <1>a, <1>b DEF PrepNode, FreshDir, TypeOK
    <2> QED
      BY <2>1, <2>2 DEF FrameNode, FrameDir, FrameQemu
  <1>2. CASE Launch(c)
    <2>1. dir'[n] = dir[n]
      <3>1. dir' = dir \/ \E p \in Pids : dir' = Recorded(Item(c), p)
        BY <1>2 DEF Launch
      <3> QED
        BY <1>a, <1>b, <3>1 DEF Recorded, TypeOK
    <2>2. \A p \in Pids : proc'[p] = proc[p] \/ proc'[p].who = Item(c)
      BY <1>2, <1>a DEF Launch, TypeOK, NoProcess
    <2> QED
      BY <2>1, <2>2 DEF FrameNode, FrameDir, FrameQemu
  <1> QED
    BY <1>1, <1>2

LEMMA FrameAssign ==
    ASSUME TypeInv, NEW c \in Clis, AssignIP(c), NEW t
    PROVE  Frame(t)
  <1>a. TypeOK /\ \A p \in Pids : proc[p] \in Process
    BY DEF TypeInv, TypeOK
  <1>1. \A p \in Pids : /\ proc'[p].who = proc[p].who /\ proc'[p].nics = proc[p].nics
                        /\ proc'[p].ready = proc[p].ready /\ proc'[p].live = proc[p].live
                        /\ proc[p].addrs \subseteq proc'[p].addrs
    <2> PICK q \in Pids : proc' = [proc EXCEPT ![q].addrs = @ \cup {Item(c).name}]
      BY DEF AssignIP, ProcessesOf
    <2> QED
      BY <1>a, UpdateFields DEF TypeOK
  <1> QED
    BY <1>1 DEF AssignIP, Frame, FrameWires, FrameNode, FrameDir, FrameQemu

LEMMA FrameCli ==
    ASSUME TypeInv, NEW c \in Clis, CliAction(c), NEW t \in Topos,
           Busy(c) => ~Overlap(topo[c], t)
    PROVE  Frame(t)
  <1>a. /\ TypeOK /\ topo[c] \in Topos /\ \A p \in Pids : proc[p] \in Process
        /\ pos[c] \in Nat \ {0}
    BY DEF TypeInv, TypeOK
  <1>b. /\ TapsOf(t) \subseteq Taps /\ BridgesOf(t) \subseteq Bridges
        /\ NodesOf(t) \subseteq Nodes
    BY NamesOf, DevicesOfNames
  <1>1. CASE UNCHANGED host
    BY <1>1, FrameQuiet DEF host
  <1>2. CASE CreateBridge(c)
    <2>1. /\ Item(c) \in BridgesOf(topo[c]) /\ Item(c) \notin BridgesOf(t)
      BY <1>2, <1>a, BridgeItem DEF CreateBridge, Busy, UpSteps, Overlap
    <2> QED
      BY <1>2, <1>b, <2>1
         DEF CreateBridge, Frame, FrameWires, FrameNode, FrameDir, FrameQemu
  <1>3. CASE CreateTap(c)
    <2>1. /\ Item(c).name \in TapsOf(topo[c]) /\ Item(c).name \notin TapsOf(t)
      BY <1>3, <1>a, TapItem DEF CreateTap, Busy, UpSteps, Overlap
    <2> QED
      BY <1>3, <1>a, <1>b, <2>1
         DEF CreateTap, TypeOK, Frame, FrameWires, FrameNode, FrameDir, FrameQemu
  <1>4. CASE PrepNode(c) \/ Launch(c)
    <2>1. /\ Item(c) \in NodesOf(topo[c]) /\ Item(c) \notin NodesOf(t)
          /\ UNCHANGED <<bridges, tap>>
      BY <1>4, <1>a, NodeItem, NodeLoopMore
         DEF PrepNode, Launch, NodeLoops, InNodeLoop, Busy, UpSteps, Overlap
    <2>2. \A n \in NodesOf(t) : n \in Nodes /\ n # Item(c)
      BY <1>b, <2>1
    <2> QED
      BY <1>4, <2>1, <2>2, FrameOtherNode DEF Frame, FrameWires
  <1>6. CASE AssignIP(c)
    BY <1>6, FrameAssign
  <1>7. CASE StopNode(c) \/ StopForce(c) \/ PkillNode(c) \/ ReapBoot(c)
    <2>1. UNCHANGED <<bridges, tap, dir>> /\ (proc' = proc \/ \E S : proc' = Kill(S))
      BY <1>7 DEF StopNode, StopForce, PkillNode, ReapBoot
    <2>2. CASE proc' = proc
      BY <2>1, <2>2, FrameQuiet
    <2>3. CASE \E S : proc' = Kill(S)
      BY <1>a, <2>1, <2>3, FrameKill DEF Frame, FrameWires
    <2> QED
      BY <2>1, <2>2, <2>3
  <1>8. CASE DeleteLinks(c)
    <2>1. Unlinked(topo[c]) \cap (TapsOf(t) \cup BridgesOf(t)) = {}
      <3>1. TapsOf(topo[c]) \cap TapsOf(t) = {} /\ BridgesOf(topo[c]) \cap BridgesOf(t) = {}
        BY <1>8 DEF DeleteLinks, Busy, DownSteps, Overlap
      <3> QED
        BY <1>a, <3>1, DevicesOfNames, NamesAssumption DEF Unlinked
    <2>2. ASSUME NEW p \in Pids
          PROVE  /\ proc'[p].who = proc[p].who
                 /\ proc'[p].nics = proc[p].nics \ Unlinked(topo[c])
                 /\ proc'[p].ready = proc[p].ready /\ proc'[p].live = proc[p].live
                 /\ proc'[p].addrs = proc[p].addrs
      <3> DEFINE f == proc[p].nics \ Unlinked(topo[c])
      <3>1. proc'[p] = [proc[p] EXCEPT !.nics = f]
        BY <1>8 DEF DeleteLinks
      <3> HIDE DEF f
      <3>2. proc'[p].nics = f
        BY <1>a, <3>1, UpdateFields
      <3> QED
        BY <1>a, <3>1, <3>2, UpdateFields DEF f
    <2>3. \A p \in Pids : proc[p].nics \subseteq TapsOf(t) => proc'[p].nics = proc[p].nics
      BY <2>1, <2>2
    <2>4. FrameWires(t)
      BY <1>8, <1>b, <2>1 DEF DeleteLinks, FrameWires
    <2> QED
      BY <1>8, <2>2, <2>3, <2>4 DEF DeleteLinks, Frame, FrameNode, FrameDir, FrameQemu
  <1> QED
    BY <1>1, <1>2, <1>3, <1>4, <1>6, <1>7, <1>8
       DEF CliAction, CliStep, Start, StartUp, StartDown, StartChanging, StartStatus,
           Return, Crash, Reset, LoopDone, RefuseNode, SeeReady, BootTimeout, SkipIP,
           FailIP, CheckPid, Ping, Mishap, LoseInUp, FailInUp, MishapInDown,
           MishapInStatus, Disturb

LEMMA FrameHost ==
    ASSUME TypeInv, NEW q \in Pids, HostStep(q), NEW t \in Topos
    PROVE  Frame(t)
  <1>a. TypeOK /\ (\A p \in Pids : proc[p] \in Process) /\ UNCHANGED <<bridges, tap>>
    BY DEF TypeInv, TypeOK, HostStep, GuestReady, QemuExit, ForeignStart, ForeignExit
  <1>b. \A n \in NodesOf(t) : n \in Nodes /\ n # Foreign
    BY NamesOf, NamesAssumption
  <1>1. CASE GuestReady(q)
    <2>1. \A p \in Pids : /\ proc'[p].who = proc[p].who /\ proc'[p].nics = proc[p].nics
                          /\ proc'[p].live = proc[p].live /\ proc'[p].addrs = proc[p].addrs
                          /\ proc[p].ready => proc'[p].ready
      BY <1>1, <1>a, UpdateFields DEF GuestReady, TypeOK
    <2>2. proc'[q].ready /\ proc[q].live
      BY <1>1, <1>a, UpdateFields DEF GuestReady, TypeOK
    <2>3. ASSUME NEW n \in NodesOf(t) PROVE FrameDir(n)
      <3>1. CASE n = proc[q].who
        <4>1. dir'[n].exists = dir[n].exists /\ dir'[n].pid = dir[n].pid /\ dir'[n].ready
          BY <1>1, <1>a, <1>b, <3>1 DEF GuestReady, TypeOK, RunDir
        <4> QED
          BY <2>2, <3>1, <4>1 DEF FrameDir, ProcessesOf
      <3>2. CASE n # proc[q].who
        BY <1>1, <1>a, <1>b, <3>2 DEF GuestReady, TypeOK, FrameDir
      <3> QED
        BY <3>1, <3>2
    <2> QED
      BY <1>a, <2>1, <2>3 DEF Frame, FrameWires, FrameNode, FrameQemu
  <1>2. CASE QemuExit(q) \/ ForeignExit(q)
    <2>1. proc' = Kill({q}) /\ UNCHANGED dir
      BY <1>2 DEF QemuExit, ForeignExit
    <2> QED
      BY <1>a, <2>1, FrameKill DEF Frame, FrameWires
  <1>3. CASE ForeignStart(q)
    <2>1. \A p \in Pids : proc'[p] = proc[p] \/ proc'[p].who = Foreign
      BY <1>3, <1>a DEF ForeignStart, TypeOK, Process
    <2> QED
      BY <1>3, <1>a, <1>b, <2>1
         DEF ForeignStart, Frame, FrameWires, FrameNode, FrameDir, FrameQemu
  <1> QED
    BY <1>1, <1>2, <1>3 DEF HostStep

-----------------------------------------------------------------------------
(* How far an Up has come. *)

LEMMA OwnNetworked ==
    ASSUME UpInv, NEW c \in Clis, CliAction(c)
    PROVE  Networked(c)'
  <1>a. /\ TypeInv /\ TypeOK /\ Building(c) /\ Networked(c) /\ topo[c] \in Topos
        /\ pos[c] \in Nat \ {0}
    BY DEF UpInv, LabInv, DownInv, TypeInv, TypeOK
  <1>b. /\ ~calm'[c] => Networked(c)'
        /\ pc'[c] \notin {"tap", "prep", "launch", "wait", "reap", "ip"} => Networked(c)'
    BY DEF Networked
  <1> PICK t \in Topos : t = topo[c]
    BY <1>a
  <1>c. Plans[t].taps \in Seq(TapPlan)
    BY PlanTypes
  <1>1. CASE Start(c)
    <2>1. pc'[c] \in {"bridge", "stop", "status"}
      BY <1>1, <1>a DEF Start, StartUp, StartDown, StartChanging, StartStatus, Goto, TypeOK
    <2> QED
      BY <1>b, <2>1
  <1>2. CASE Return(c) \/ Crash(c)
    <2>1. ~calm'[c]
      BY <1>2, <1>a DEF Return, Crash, Reset, TypeOK
    <2> QED
      BY <1>b, <2>1
  <1>3. CASE LoopDone(c)
    <2>1. /\ pc'[c] = AfterLoop[pc[c]] /\ pos'[c] = 1 /\ pc[c] \in DOMAIN AfterLoop
          /\ topo'[c] = t /\ calm'[c] = calm[c] /\ UNCHANGED tap
      BY <1>3, <1>a DEF LoopDone, Goto, TypeOK, AfterLoop, host
    <2>a. \A k \in DOMAIN Plans[t].taps : WiredAt(t, k) => WiredAt(t, k)'
      BY <2>1 DEF WiredAt
    <2>2. CASE pc[c] = "bridge"
      <3>1. pc'[c] = "tap"
        BY <2>1, <2>2 DEF AfterLoop
      <3> QED
        BY <1>c, <2>1, <3>1 DEF Networked
    <2>3. CASE pc[c] = "tap"
      <3>1. \A k \in DOMAIN Plans[t].taps : k < pos[c]
        BY <1>3, <1>a, <1>c, <2>3 DEF LoopDone, More, Items
      <3>2. pc'[c] = "prep"
        BY <2>1, <2>3 DEF AfterLoop
      <3>3. CASE calm[c]
        <4>1. \A k \in DOMAIN Plans[t].taps : WiredAt(t, k)'
          BY <1>a, <2>a, <2>3, <3>1, <3>3 DEF Networked
        <4> QED
          BY <2>1, <3>2, <4>1 DEF Networked
      <3> QED
        BY <1>b, <2>1, <3>3
    <2>4. CASE pc[c] = "prep"
      <3>1. pc'[c] = "ip"
        BY <2>1, <2>4 DEF AfterLoop
      <3>2. CASE calm[c]
        <4>1. \A k \in DOMAIN Plans[t].taps : WiredAt(t, k)'
          BY <1>a, <2>a, <2>4, <3>2 DEF Networked
        <4> QED
          BY <2>1, <3>1, <4>1 DEF Networked
      <3> QED
        BY <1>b, <2>1, <3>2
    <2>5. CASE pc[c] \notin {"bridge", "tap", "prep"}
      <3>1. pc'[c] \in {"upOk", "links", "statusOk"}
        BY <2>1, <2>5 DEF AfterLoop
      <3> QED
        BY <1>b, <3>1
    <2> QED
      BY <2>2, <2>3, <2>4, <2>5
  <1>4. CASE CreateBridge(c)
    <2>1. pc'[c] = "bridge"
      BY <1>4, <1>a DEF CreateBridge, Goto, TypeOK
    <2> QED
      BY <1>b, <2>1
  <1>5. CASE CreateTap(c) /\ calm[c]
    <2>1. /\ pc[c] = "tap" /\ pc'[c] = "tap" /\ pos'[c] = pos[c] + 1 /\ topo'[c] = t
      BY <1>5, <1>a DEF CreateTap, Goto, TypeOK
    <2>2. /\ Item(c) = Plans[t].taps[pos[c]] /\ Item(c) \in TapPlan
          /\ pos[c] \in DOMAIN Plans[t].taps
      <3>1. Items(c) = Plans[t].taps
        BY <2>1 DEF Items
      <3> QED
        BY <1>5, <1>a, <1>c, <3>1 DEF CreateTap, Item, More
    <2>3. Item(c).bridge \in bridges
      <3>1. Item(c).bridge \in BridgesOf(t)
        BY <2>1, <2>2, TapDevices
      <3> QED
        BY <1>5, <1>a, <2>1, <2>2, <3>1 DEF Building
    <2>4. tap' = [tap EXCEPT ![Item(c).name] = Item(c).bridge]
      BY <1>5, <2>3 DEF CreateTap
    <2>5. ASSUME NEW k \in DOMAIN Plans[t].taps, k < pos[c] + 1
          PROVE  tap'[Plans[t].taps[k].name] = Plans[t].taps[k].bridge
      <3>1. Plans[t].taps[k] \in TapPlan
        BY <1>c
      <3>2. CASE k = pos[c]
        BY <1>a, <2>1, <2>2, <2>4, <3>1, <3>2 DEF TypeOK, TapPlan
      <3>3. CASE k < pos[c]
        <4>1. tap[Plans[t].taps[k].name] = Plans[t].taps[k].bridge
          BY <1>5, <1>a, <2>1, <2>2, <3>3 DEF Networked, WiredAt
        <4>2. Plans[t].taps[k].name # Item(c).name
          BY <1>a, <2>1, <2>2, <3>3, PlansAssumption
        <4> QED
          BY <1>a, <2>4, <3>1, <4>1, <4>2 DEF TypeOK, TapPlan
      <3> QED
        BY <1>a, <1>c, <2>5, <3>2, <3>3
    <2> QED
      BY <2>1, <2>2, <2>5 DEF Networked, WiredAt
  <1>6. CASE \/ PrepNode(c) \/ RefuseNode(c) \/ Launch(c) \/ SeeReady(c) \/ BootTimeout(c)
             \/ ReapBoot(c) \/ SkipIP(c) \/ AssignIP(c) \/ FailIP(c)
    <2>1. /\ pc[c] \in {"prep", "launch", "wait", "reap", "ip"}
          /\ pc'[c] # "tap"
          /\ topo'[c] = t /\ calm'[c] = calm[c] /\ UNCHANGED tap
      BY <1>6, <1>a DEF PrepNode, RefuseNode, Launch, SeeReady, BootTimeout, ReapBoot,
                        SkipIP, AssignIP, FailIP, Fail, Goto, TypeOK, host
    <2> QED
      BY <1>a, <2>1 DEF Networked, WiredAt
  <1>7. CASE \/ StopNode(c) \/ StopForce(c) \/ PkillNode(c) \/ DeleteLinks(c)
             \/ CheckPid(c) \/ Ping(c) \/ MishapInStatus(c)
    <2>1. pc'[c] \notin UpSteps
      BY <1>7, <1>a DEF StopNode, StopForce, PkillNode, DeleteLinks, CheckPid, Ping,
                        MishapInStatus, Goto, TypeOK, UpSteps, Stopping
    <2> QED
      BY <1>b, <2>1 DEF UpSteps
  <1>8. CASE LoseInUp(c) \/ FailInUp(c) \/ MishapInDown(c)
    <2>1. ~calm'[c]
      BY <1>8, <1>a DEF LoseInUp, FailInUp, MishapInDown, Disturb, TypeOK
    <2> QED
      BY <1>b, <2>1
  <1>9. CASE CreateTap(c) /\ ~calm[c]
    BY <1>9, <1>b DEF CreateTap
  <1> QED
    BY <1>1, <1>2, <1>3, <1>4, <1>5, <1>6, <1>7, <1>8, <1>9 DEF CliAction, CliStep, Mishap

LEMMA OwnWorking ==
    ASSUME UpInv, NEW c \in Clis, CliAction(c)
    PROVE  Working(c)'
  <1>a. /\ TypeInv /\ TypeOK /\ Working(c) /\ topo[c] \in Topos /\ pos[c] \in Nat \ {0}
        /\ \A p \in Pids : proc[p] \in Process
    BY DEF UpInv, LabInv, DownInv, TypeInv, TypeOK
  <1>b. ~calm'[c] \/ pc'[c] \notin {"prep", "launch", "wait", "ip"} => Working(c)'
    BY DEF Working
  <1> PICK t \in Topos : t = topo[c]
    BY <1>a
  <1> DEFINE nodes == Plans[t].nodes
  <1>c. nodes \in Seq(Nodes) /\ Plans[t].taps \in Seq(TapPlan)
    BY PlanTypes
  <1>d. \A k \in DOMAIN nodes : nodes[k] \in NodesOf(t)
    BY DEF NodesOf
  <1>1. CASE \/ Start(c) \/ Return(c) \/ Crash(c) \/ CreateBridge(c) \/ CreateTap(c)
             \/ RefuseNode(c) \/ BootTimeout(c) \/ ReapBoot(c) \/ FailIP(c)
    <2>1. pc'[c] \in {"idle", "bridge", "tap", "upErr", "reap", "stop", "status"}
      BY <1>1, <1>a
         DEF Start, StartUp, StartDown, StartChanging, StartStatus, Return, Crash, Reset,
             CreateBridge, CreateTap, RefuseNode, BootTimeout, ReapBoot, FailIP, Fail,
             Goto, TypeOK
    <2> QED
      BY <1>b, <2>1
  <1>2. CASE \/ StopNode(c) \/ StopForce(c) \/ PkillNode(c) \/ DeleteLinks(c)
             \/ CheckPid(c) \/ Ping(c) \/ MishapInStatus(c)
    <2>1. pc'[c] \notin UpSteps
      BY <1>2, <1>a DEF StopNode, StopForce, PkillNode, DeleteLinks, CheckPid, Ping,
                        MishapInStatus, Goto, TypeOK, UpSteps, Stopping
    <2> QED
      BY <1>b, <2>1 DEF UpSteps
  <1>3. CASE LoseInUp(c) \/ FailInUp(c) \/ MishapInDown(c)
    <2>1. ~calm'[c]
      BY <1>3, <1>a DEF LoseInUp, FailInUp, MishapInDown, Disturb, TypeOK
    <2> QED
      BY <1>b, <2>1
  <1>4. CASE LoopDone(c)
    <2>1. /\ pc'[c] = AfterLoop[pc[c]] /\ pos'[c] = 1 /\ pc[c] \in DOMAIN AfterLoop
          /\ topo'[c] = t /\ calm'[c] = calm[c] /\ UNCHANGED host
      BY <1>4, <1>a DEF LoopDone, Goto, TypeOK, AfterLoop
    <2>2. CASE pc[c] = "tap"
      <3>1. pc'[c] = "prep"
        BY <2>1, <2>2 DEF AfterLoop
      <3> QED
        BY <1>c, <2>1, <3>1 DEF Working
    <2>3. CASE pc[c] = "prep" /\ calm[c]
      <3>1. \A k \in DOMAIN nodes : k < pos[c]
        BY <1>4, <1>a, <1>c, <2>3 DEF LoopDone, More, Items
      <3>2. \A n \in NodesOf(t) : Booted(t, n)
        BY <1>a, <2>3, <3>1 DEF Working, NodesOf
      <3>3. \A n \in NodesOf(t) : Booted(t, n)'
        BY <2>1, <3>2, FrameQuiet, BootedKept DEF host, Frame
      <3>4. pc'[c] = "ip"
        BY <2>1, <2>3 DEF AfterLoop
      <3>5. \A k \in DOMAIN Plans[t].taps : ~(k < 1)
        BY <1>c
      <3> QED
        BY <2>1, <3>3, <3>4, <3>5 DEF Working, NodesOf
    <2>4. CASE pc[c] = "prep" /\ ~calm[c]
      BY <1>b, <2>1, <2>4
    <2>5. CASE pc[c] \notin {"tap", "prep"}
      <3>1. pc'[c] \in {"tap", "upOk", "links", "statusOk"}
        BY <2>1, <2>5 DEF AfterLoop
      <3> QED
        BY <1>b, <3>1
    <2> QED
      BY <2>2, <2>3, <2>4, <2>5
  <1>5. CASE PrepNode(c) /\ calm[c] /\ pc'[c] = "launch"
    <2> PICK m \in Nodes : m = Item(c) /\ m = nodes[pos[c]]
      BY <1>5, <1>a, NodeItem, NodeLoopMore DEF PrepNode, NodeLoops
    <2>1. /\ pc[c] = "prep" /\ pos'[c] = pos[c] /\ topo'[c] = t /\ FreshDir(m)
      BY <1>5, <1>a DEF PrepNode, Fail, Goto, TypeOK
    <2>2. ASSUME NEW k \in DOMAIN nodes, k < pos[c], nodes[k] # m PROVE Booted(t, nodes[k])'
      <3>1. Booted(t, nodes[k])
        BY <1>5, <1>a, <2>1, <2>2 DEF Working
      <3>2. FrameNode(t, nodes[k])
        <4>1. nodes[k] \in Nodes
          BY <1>c
        <4> QED
          BY <1>5, <1>a, <2>2, <4>1, FrameOtherNode
      <3> QED
        BY <3>1, <3>2, BootedKept
    <2>3. Prepared(m)'
      <3>1. dir'[m] = [exists |-> TRUE, pid |-> NoPid, ready |-> FALSE]
        BY <1>a, <2>1 DEF FreshDir, TypeOK, NoDir
      <3>2. ASSUME NEW p \in Pids, proc'[p].who = m PROVE ~proc'[p].live
        <4> DEFINE f == proc[p].live /\ proc[p].who # m
        <4>1. proc'[p] = [proc[p] EXCEPT !.live = f]
          BY <2>1 DEF FreshDir
        <4>2. proc'[p].who = proc[p].who /\ proc'[p].live = f
          <5> HIDE DEF f
          <5> QED
            BY <1>a, <4>1, UpdateFields
        <4> QED
          BY <3>2, <4>2
      <3> QED
        BY <3>1, <3>2 DEF Prepared, ProcessesOf
    <2> QED
      BY <1>5, <2>1, <2>2, <2>3 DEF Working
  <1>6. CASE PrepNode(c) /\ ~(calm[c] /\ pc'[c] = "launch")
    <2>1. ~calm'[c] \/ pc'[c] = "upErr"
      BY <1>6, <1>a DEF PrepNode, Fail, Goto, TypeOK
    <2> QED
      BY <1>b, <2>1
  <1>7. CASE Launch(c) /\ calm[c]
    <2> PICK m \in Nodes : m = Item(c) /\ m = nodes[pos[c]]
      BY <1>7, <1>a, NodeItem, NodeLoopMore DEF Launch, NodeLoops, InNodeLoop
    <2>1. /\ pc[c] = "launch" /\ pc'[c] = "wait" /\ pos'[c] = pos[c] /\ topo'[c] = t
      BY <1>7, <1>a DEF Launch, Goto, TypeOK
    <2>2. ASSUME NEW k \in DOMAIN nodes, k < pos[c], nodes[k] # m PROVE Booted(t, nodes[k])'
      <3>1. Booted(t, nodes[k])
        BY <1>7, <1>a, <2>1, <2>2 DEF Working
      <3>2. FrameNode(t, nodes[k])
        <4>1. nodes[k] \in Nodes
          BY <1>c
        <4> QED
          BY <1>7, <1>a, <2>2, <4>1, FrameOtherNode
      <3> QED
        BY <3>1, <3>2, BootedKept
    <2>3. Prepared(m)
      BY <1>7, <1>a, <2>1 DEF Working
    <2>4. Booting(t, m)'
      <3>1. CASE UNCHANGED <<proc, dir>>
        BY <2>3, <3>1 DEF Prepared, Booting, ProcessesOf
      <3>2. CASE ~UNCHANGED <<proc, dir>>
        <4> DEFINE qemu == [NoProcess EXCEPT !.who = m, !.nics = NicsOf(t, m), !.live = TRUE]
        <4>1. qemu.nics = NicsOf(t, m)
          BY DEF NoProcess
        <4> HIDE DEF qemu
        <4> PICK q \in Pids : /\ dir' = Recorded(m, q)
                              /\ proc' = [proc EXCEPT ![q] = qemu] \/ proc' = proc
          BY <1>7, <3>2 DEF Launch, qemu
        <4>2. dir'[m].exists /\ dir'[m].pid = q /\ ~dir'[m].ready
          BY <1>a, <2>3 DEF Recorded, Prepared, TypeOK, RunDir
        <4>3. ASSUME NEW p \in Pids, proc'[p].who = m, proc'[p].live
              PROVE  p = q /\ proc'[p].nics = NicsOf(t, m)
          BY <1>a, <2>3, <4>1, <4>3 DEF Prepared, ProcessesOf, TypeOK
        <4> QED
          BY <4>2, <4>3 DEF Booting, ProcessesOf, NicsOf
      <3> QED
        BY <3>1, <3>2
    <2> QED
      BY <2>1, <2>2, <2>4 DEF Working
  <1>8. CASE Launch(c) /\ ~calm[c]
    BY <1>8, <1>b DEF Launch
  <1>9. CASE SeeReady(c) /\ calm[c]
    <2> PICK m \in Nodes : m = Item(c) /\ m = nodes[pos[c]]
      BY <1>9, <1>a, NodeItem, NodeLoopMore DEF SeeReady, NodeLoops, InNodeLoop
    <2>1. /\ pc[c] = "wait" /\ pc'[c] = "prep" /\ pos'[c] = pos[c] + 1 /\ topo'[c] = t
          /\ dir[m].ready /\ UNCHANGED host
      BY <1>9, <1>a DEF SeeReady, Goto, TypeOK
    <2>2. Booted(t, m)
      BY <1>9, <1>a, <2>1 DEF Working, Booted
    <2>3. ASSUME NEW k \in DOMAIN nodes, k < pos[c] + 1 PROVE Booted(t, nodes[k])
      <3>1. k < pos[c] \/ k = pos[c]
        BY <1>a, <1>c, <2>3
      <3> QED
        BY <1>9, <1>a, <2>1, <2>2, <3>1 DEF Working
    <2>4. \A k \in DOMAIN nodes : k < pos[c] + 1 => Booted(t, nodes[k])'
      BY <1>d, <2>1, <2>3, FrameQuiet, BootedKept DEF host, Frame
    <2> QED
      BY <2>1, <2>4 DEF Working
  <1>10. CASE SeeReady(c) /\ ~calm[c]
    BY <1>10, <1>b DEF SeeReady
  <1>11. CASE (SkipIP(c) \/ AssignIP(c)) /\ calm[c]
    <2> PICK j \in Nat : j = pos[c]
      BY <1>a
    <2> DEFINE tp == Plans[t].taps[j]
    <2>1. /\ pc[c] = "ip" /\ pc'[c] = "ip" /\ pos'[c] = j + 1 /\ topo'[c] = t
          /\ Item(c) = tp /\ More(c)
      BY <1>11, <1>a DEF SkipIP, AssignIP, Goto, TypeOK, Item, Items
    <2>2. Frame(t)
      BY <1>11, <1>a, FrameQuiet, FrameAssign DEF SkipIP, host
    <2>3. \A n \in NodesOf(t) : Booted(t, n)
      BY <1>11, <1>a, <2>1 DEF Working
    <2>4. \A n \in NodesOf(t) : Booted(t, n)'
      BY <2>2, <2>3, BootedKept DEF Frame
    <2>5. Addressed(t, j)'
      <3>1. CASE ~(tp.ip /\ tp.node \in NodesOf(t))
        BY <3>1 DEF Addressed, NodesOf
      <3>2. CASE tp.ip /\ tp.node \in NodesOf(t)
        <4>1. \E p \in ProcessesOf(tp.node) :
                 proc[p].live /\ proc' = [proc EXCEPT ![p].addrs = @ \cup {tp.name}]
          BY <1>11, <2>1, <3>2 DEF SkipIP, AssignIP
        <4> PICK p \in ProcessesOf(tp.node) :
                 proc[p].live /\ proc' = [proc EXCEPT ![p].addrs = @ \cup {tp.name}]
          BY <4>1
        <4>2. tp.name \in proc'[p].addrs
          BY <1>a, UpdateFields DEF TypeOK, ProcessesOf
        <4>3. \A q \in Pids : proc'[q].who = proc[q].who /\ proc'[q].live = proc[q].live
          BY <1>a, UpdateFields DEF TypeOK, ProcessesOf
        <4>4. \A q \in ProcessesOf(tp.node) : proc[q].live => q = p
          BY <2>3, <3>2 DEF Booted, Booting
        <4>5. \A q \in Pids : proc'[q].who = tp.node /\ proc'[q].live => q = p
          BY <4>3, <4>4 DEF ProcessesOf
        <4> QED
          BY <4>2, <4>5 DEF Addressed, ProcessesOf
      <3> QED
        BY <3>1, <3>2
    <2>6. ASSUME NEW k \in DOMAIN Plans[t].taps, k < j + 1 PROVE Addressed(t, k)'
      <3>1. CASE k = j
        BY <2>5, <3>1
      <3>2. CASE k < j
        <4>1. Addressed(t, k)
          BY <1>11, <1>a, <2>1, <3>2 DEF Working
        <4> QED
          BY <2>2, <4>1, AddressedKept
      <3> QED
        BY <1>a, <1>c, <2>6, <3>1, <3>2
    <2> QED
      BY <2>1, <2>4, <2>6 DEF Working, NodesOf
  <1>12. CASE (SkipIP(c) \/ AssignIP(c)) /\ ~calm[c]
    BY <1>12, <1>b DEF SkipIP, AssignIP
  <1> QED
    BY <1>1, <1>2, <1>3, <1>4, <1>5, <1>6, <1>7, <1>8, <1>9, <1>10, <1>11, <1>12
       DEF CliAction, CliStep, Mishap

\* The same for a command that does not step, as the others keep to themselves.
LEMMA ProgressInUpKept ==
    ASSUME TypeInv, NEW x \in Clis, Networked(x), Working(x), Frame(topo[x]),
           pc'[x] = pc[x], pos'[x] = pos[x], topo'[x] = topo[x], calm'[x] => calm[x]
    PROVE  Networked(x)' /\ Working(x)'
  <1> PICK t \in Topos : t = topo[x]
    BY DEF TypeInv, TypeOK
  <1>a. Frame(t)
    OBVIOUS
  <1>1. Networked(x)'
    <2>1. \A k \in DOMAIN Plans[t].taps : WiredAt(t, k) => WiredAt(t, k)'
      BY <1>a, WiredAtKept DEF Frame
    <2> QED
      BY <2>1 DEF Networked, WiredAt
  <1>2. ASSUME calm[x] PROVE Working(x)'
    <2>1. \A n \in NodesOf(t) : /\ Booted(t, n) => Booted(t, n)'
                                /\ Booting(t, n) => Booting(t, n)'
                                /\ Prepared(n) => Prepared(n)'
      BY <1>a, BootedKept, BootingKept, PreparedKept DEF Frame
    <2>2. \A k \in DOMAIN Plans[t].taps : Addressed(t, k) => Addressed(t, k)'
      BY <1>a, AddressedKept
    <2>3. \A k \in DOMAIN Plans[t].nodes : Plans[t].nodes[k] \in NodesOf(t)
      BY DEF NodesOf
    <2>4. CASE pc[x] = "prep"
      <3>1. \A k \in DOMAIN Plans[t].nodes : k < pos[x] => Booted(t, Plans[t].nodes[k])'
        BY <1>2, <2>1, <2>3, <2>4 DEF Working
      <3> QED
        BY <2>4, <3>1 DEF Working
    <2>5. CASE pc[x] \in {"launch", "wait"}
      <3> PICK m \in NodesOf(t) : m \in Nodes /\ m = Plans[t].nodes[pos[x]]
        BY <2>5, NodeItem, NodeLoopMore DEF TypeInv, NodeLoops, InNodeLoop
      <3>1. \A k \in DOMAIN Plans[t].nodes :
                k < pos[x] /\ Plans[t].nodes[k] # m => Booted(t, Plans[t].nodes[k])'
        BY <1>2, <2>1, <2>3, <2>5 DEF Working
      <3>2. /\ pc[x] = "launch" => Prepared(m)'
            /\ pc[x] = "wait" => Booting(t, m)'
        BY <1>2, <2>1, <2>5 DEF Working
      <3> QED
        BY <2>5, <3>1, <3>2 DEF Working
    <2>6. CASE pc[x] = "ip"
      <3>1. \A n \in NodesOf(t) : Booted(t, n)'
        BY <1>2, <2>1, <2>6 DEF Working
      <3>2. \A k \in DOMAIN Plans[t].taps : k < pos[x] => Addressed(t, k)'
        BY <1>2, <2>2, <2>6 DEF Working
      <3> QED
        BY <2>6, <3>1, <3>2 DEF Working, NodesOf
    <2>7. CASE pc[x] \notin {"prep", "launch", "wait", "ip"}
      BY <2>7 DEF Working
    <2> QED
      BY <2>4, <2>5, <2>6, <2>7
  <1> QED
    BY <1>1, <1>2 DEF Working

-----------------------------------------------------------------------------
(* What is up stays up. *)

LEMMA WhatWasUpStays ==
    ASSUME UpInv, NEW c \in Clis, CliAction(c), NEW s \in up
    PROVE  Wired(s)' /\ \A n \in NodesOf(s) : Served(s, n)'
  <1>1. s \in Topos /\ TypeInv /\ (Busy(c) => ~Overlap(topo[c], s))
    BY DEF UpInv, LabInv, UpStands, DownInv, TypeInv, TypeOK
  <1>2. Wired(s) /\ \A n \in NodesOf(s) : Served(s, n)
    BY DEF UpInv, StaysUp
  <1> QED
    BY <1>1, <1>2, FrameCli, StandsKept

LEMMA WhatGetsUpStands ==
    ASSUME UpInv, NEW c \in Clis, LoopDone(c), pc[c] = "ip", calm[c],
           NEW t \in Topos, t = topo[c]
    PROVE  Wired(t)' /\ \A n \in NodesOf(t) : Served(t, n)'
  <1>1. /\ Building(c) /\ Networked(c) /\ Working(c) /\ pos[c] \in Nat \ {0}
        /\ Plans[t].taps \in Seq(TapPlan)
    BY PlanTypes DEF UpInv, LabInv, DownInv, TypeInv, TypeOK
  <1>2. Wired(t)
    BY <1>1 DEF Building, There, Networked, WiredAt, Wired
  <1>3. \A k \in DOMAIN Plans[t].taps : k < pos[c]
    BY <1>1 DEF LoopDone, More, Items
  <1>4. ASSUME NEW n \in NodesOf(t) PROVE Served(t, n)
    <2>1. Booted(t, n)
      BY <1>1 DEF Working
    <2>2. ASSUME NEW p \in ProcessesOf(n), proc[p].live, NEW k \in DOMAIN Plans[t].taps,
                 Plans[t].taps[k].node = n, Plans[t].taps[k].ip
          PROVE  Plans[t].taps[k].name \in proc[p].addrs
      BY <1>1, <1>3, <2>2 DEF Working, Addressed
    <2>3. \A p \in ProcessesOf(n) : proc[p].live => AddrsOf(t, n) \subseteq proc[p].addrs
      BY <2>2 DEF AddrsOf
    <2> QED
      BY <2>1, <2>3 DEF Served, Booted, Booting
  <1>5. UNCHANGED <<bridges, tap, proc, dir>>
    BY DEF LoopDone, host
  <1> QED
    BY <1>2, <1>4, <1>5, FrameQuiet, StandsKept

LEMMA StaysUpStep ==
    ASSUME UpInv, NEW c \in Clis, CliAction(c)
    PROVE  StaysUp'
  <1>a. TypeInv /\ topo[c] \in Topos
    BY DEF UpInv, LabInv, DownInv, TypeInv, TypeOK
  <1>1. ASSUME NEW s \in up' PROVE Wired(s)' /\ \A n \in NodesOf(s) : Served(s, n)'
    <2>1. CASE s \in up
      BY <2>1, WhatWasUpStays
    <2>2. CASE s \notin up
      <3>1. LoopDone(c) /\ pc[c] = "ip" /\ calm[c] /\ s = topo[c]
        BY <1>a, <1>1, <2>2, UpAfter
      <3> QED
        BY <1>a, <3>1, WhatGetsUpStands
    <2> QED
      BY <2>1, <2>2
  <1> QED
    BY <1>1 DEF StaysUp, NodesOf

LEMMA UpInvCli ==
    ASSUME UpInv, NEW c \in Clis, CliAction(c), LabInv'
    PROVE  UpInv'
  <1>a. /\ TypeInv /\ \A x \in Clis : /\ Alone(x) /\ Networked(x) /\ Working(x)
                                      /\ topo[x] \in Topos
    BY DEF UpInv, LabInv, DownInv, TypeInv, TypeOK
  <1>1. ASSUME NEW x \in Clis PROVE Networked(x)' /\ Working(x)'
    <2>1. CASE x = c
      BY <2>1, OwnNetworked, OwnWorking
    <2>2. CASE x # c /\ calm[x] /\ Busy(x)
      <3>1. Busy(c) => ~Overlap(topo[c], topo[x])
        BY <1>a, <2>2 DEF Alone
      <3>2. Frame(topo[x])
        BY <1>a, <3>1, FrameCli
      <3>3. /\ pc'[x] = pc[x] /\ pos'[x] = pos[x] /\ topo'[x] = topo[x]
            /\ calm'[x] => calm[x]
        BY <1>a, <2>2, <3>1, OthersStay DEF Busy, DownSteps
      <3> QED
        BY <1>a, <3>2, <3>3, ProgressInUpKept
    <2>3. CASE x # c /\ calm[x] /\ ~Busy(x)
      <3>1. pc'[x] = pc[x]
        BY <1>a, <2>3, OthersStay
      <3> QED
        BY <2>3, <3>1 DEF Networked, Working, Busy, UpSteps
    <2>4. CASE x # c /\ ~calm[x]
      BY <1>a, <2>4, OthersStay DEF Networked, Working
    <2> QED
      BY <2>1, <2>2, <2>3, <2>4
  <1> QED
    BY <1>1, StaysUpStep DEF UpInv

\* Steps of no cli.
LEMMA UpInvQuiet ==
    ASSUME UpInv, LabInv', UNCHANGED <<pc, pos, topo, calm, up>>,
           \A t \in Topos : Frame(t)
    PROVE  UpInv'
  <1>a. /\ TypeInv /\ up \subseteq Topos
        /\ \A x \in Clis : Networked(x) /\ Working(x) /\ topo[x] \in Topos
    BY DEF UpInv, LabInv, DownInv, TypeInv, TypeOK
  <1>1. \A x \in Clis : Networked(x)' /\ Working(x)'
    BY <1>a, ProgressInUpKept
  <1>2. \A s \in up : Wired(s)' /\ \A n \in NodesOf(s) : Served(s, n)'
    BY <1>a, StandsKept DEF UpInv, StaysUp
  <1>3. StaysUp'
    BY <1>2 DEF StaysUp, NodesOf
  <1> QED
    BY <1>1, <1>3 DEF UpInv

LEMMA UpInvStep == UpInv /\ LabInv' /\ [LabNext]_labVars => UpInv'
  <1> SUFFICES ASSUME UpInv, LabInv', [LabNext]_labVars PROVE UpInv'
    OBVIOUS
  <1>1. CASE UNCHANGED labVars
    BY <1>1, FrameQuiet, UpInvQuiet DEF labVars, vars
  <1>2. ASSUME NEW c \in Clis, CliAction(c) PROVE UpInv'
    BY <1>2, UpInvCli
  <1>3. ASSUME NEW q \in Pids, HostStep(q) PROVE UpInv'
    <2>1. TypeInv
      BY DEF UpInv, LabInv, DownInv
    <2> QED
      BY <1>3, <2>1, HostQuiet, FrameHost, UpInvQuiet
  <1> QED
    BY <1>1, <1>2, <1>3 DEF LabNext, Next, CliAction

\* What an undisturbed Up that returned success promises holds from then on, see
\* StaysUp: the network is as planned, and each node is served by the qemu that
\* was recorded, booted and addressed, if by any.
THEOREM LabStaysUp == LabSpec => []StaysUp
  <1>1. LabInit => UpInv
    BY LabInvInit DEF LabInit, Init, UpInv, StaysUp, Networked, Working
  <1>2. UpInv /\ LabInv' /\ [LabNext]_labVars => UpInv'
    BY UpInvStep
  <1>3. UpInv => StaysUp
    BY DEF UpInv
  <1> QED
    BY <1>1, <1>2, <1>3, LabInvariant, PTL DEF LabSpec

\* So Status cannot take a node that is up and runs for down, see
\* StatusSeesRunning: the process it asks for is the one that serves the node.
LEMMA StatusStep == StaysUp /\ TypeInv /\ [LabNext]_labVars =>
    [\A c \in Clis : CheckPid(c) /\ topo[c] \in up =>
        \A p \in ProcessesOf(Item(c)) :
           proc[p].live => report'[c][Item(c)] = "running"]_vars
  <1> SUFFICES ASSUME StaysUp, TypeInv, NEW c \in Clis, CheckPid(c), topo[c] \in up,
                      NEW p \in ProcessesOf(Item(c)), proc[p].live
               PROVE  report'[c][Item(c)] = "running"
    OBVIOUS
  <1>1. TypeOK /\ Item(c) \in Nodes /\ Item(c) \in NodesOf(topo[c])
    BY NodeItem, NodeLoopMore DEF TypeInv, CheckPid, NodeLoops
  <1>2. p = dir[Item(c)].pid
    BY <1>1 DEF StaysUp, Served
  <1>3. PidAlive(Item(c))
    BY <1>1, <1>2, NamesAssumption DEF PidAlive, ProcessesOf
  <1> QED
    BY <1>1, <1>3 DEF CheckPid, TypeOK

THEOREM LabStatusSeesRunning == LabSpec => StatusSeesRunning
  <1>1. LabInv => TypeInv
    BY DEF LabInv, DownInv
  <1> QED
    BY <1>1, LabStaysUp, LabInvariant, StatusStep, PTL DEF LabSpec, StatusSeesRunning
=============================================================================
