------------------------------ MODULE Cluster ------------------------------
(***************************************************************************)
(* klab's up, down and status commands (internal/runner/cluster.go) with   *)
(* the Boot and Stop of the qemu driver (internal/driver/qemu/live.go),    *)
(* acting on one Linux host: its bridges and taps, its processes, and the  *)
(* run directory of every node.                                            *)
(*                                                                         *)
(* Nothing is remembered between two commands but the host itself, so the  *)
(* host is the state.  A command is one operating-system process (a cli)   *)
(* that performs one Runner.Run after another; each Run is one step here,  *)
(* except that Stop's script, which sleeps in the middle, is three.        *)
(* Several cli may run at once, any of them may be killed between two      *)
(* steps, and processes that have nothing to do with klab take and release *)
(* process ids.                                                            *)
(***************************************************************************)
EXTENDS Naturals, Sequences, FiniteSets

CONSTANTS
    Clis,       \* klab processes that may run at the same time
    Topos,      \* topology files
    Nodes,      \* instance names (a run directory is named by them alone)
    Bridges,    \* bridge device names
    Taps,       \* tap device names
    Plans,      \* topology |-> its NetPlan and its instances, see PlanType
    Refusal,    \* topology |-> node |-> why Up refuses it, see Refusals
    Pids,       \* process ids of the host
    MaxForeign, \* bound: processes unrelated to klab alive at one time
    Commands,   \* which commands are explored, of "up", "down" and "status"
    Mishaps,    \* which failures of a Run are explored, see Mishap
    Free, Foreign,  \* occupant of an unused pid, of one klab knows nothing of
    NoPid,          \* an empty or missing pid file
    Absent, Loose   \* a tap that does not exist, that is on no bridge

(***************************************************************************)
(* A plan lists what plan.go computes (module NetPlan) in its order.  "ip" *)
(* is whether the link has a subnet, hence whether the tap gets an address.*)
(***************************************************************************)
TapPlan == [name : Taps, bridge : Bridges, node : Nodes, ip : BOOLEAN]
PlanType == [bridges : Seq(Bridges), taps : Seq(TapPlan), nodes : Seq(Nodes)]

(***************************************************************************)
(* "image": no built kernel; "caps": CheckCaps fails; "mem": parseMem      *)
(* fails.  The first two are found before the run directory is prepared,   *)
(* the last one after.                                                     *)
(***************************************************************************)
Refusals == {"none", "image", "caps", "mem"}

ASSUME PlansAssumption ==
    /\ Topos # {}
    /\ Plans \in [Topos -> PlanType]
    /\ \A t \in Topos : /\ Plans[t].nodes # <<>>
                        /\ \A k \in DOMAIN Plans[t].taps :
                              \E j \in DOMAIN Plans[t].bridges :
                                 Plans[t].bridges[j] = Plans[t].taps[k].bridge
                        /\ \A j, k \in DOMAIN Plans[t].taps :
                              Plans[t].taps[j].name = Plans[t].taps[k].name => j = k
    /\ Refusal \in [Topos -> [Nodes -> Refusals]]
\* The two kinds of device have prefixes of their own, klbr- and klabtap.
ASSUME NamesAssumption ==
    /\ Taps \cap Bridges = {}
    /\ Free \notin Nodes /\ Foreign \notin Nodes /\ Free # Foreign
    /\ NoPid \notin Pids
    /\ Absent \notin Bridges /\ Loose \notin Bridges /\ Absent # Loose
ASSUME BoundsAssumption ==
    /\ MaxForeign \in Nat
    /\ Mishaps \subseteq {"lost", "error"}
    /\ Commands \subseteq {"up", "down", "status"}

VARIABLES
    bridges,    \* the bridges that exist
    tap,        \* tap |-> Absent, Loose or the bridge it is on
    proc,       \* pid |-> the process that has it, see Process
    dir,        \* node |-> its run directory, see RunDir
    pc,         \* cli |-> the step it is about to take
    topo,       \* cli |-> the topology its command was given
    pos,        \* cli |-> 1-based index of its loop
    victim,     \* cli |-> the pid Stop read from the pid file
    report,     \* cli |-> node |-> what its status command found
    calm,       \* history: cli |-> nothing disturbed its command so far
    up          \* history: topologies brought up calmly and not touched since

vars == <<bridges, tap, proc, dir, pc, topo, pos, victim, report, calm, up>>
host == <<bridges, tap, proc, dir>>

(***************************************************************************)
(* A process: who runs in it (a node's qemu, Free or Foreign), the taps it *)
(* holds open, whether the run directory it serves over 9p is still the    *)
(* node's (9p holds the inode, so one removed and made again is not),      *)
(* whether its guest signalled readiness, and the interfaces that have     *)
(* their address.                                                          *)
(***************************************************************************)
Process == [who : Nodes \cup {Free, Foreign}, nics : SUBSET Taps,
            live : BOOLEAN, ready : BOOLEAN, addrs : SUBSET Taps]
RunDir == [exists : BOOLEAN, pid : Pids \cup {NoPid}, ready : BOOLEAN]
Verdicts == {"unseen", "down", "running", "ready"}

UpSteps == {"bridge", "tap", "prep", "launch", "wait", "reap", "ip"}
DownSteps == {"stop", "force", "pkill", "links"}
StatusSteps == {"status", "ping"}
Final == {"upOk", "upErr", "downOk", "statusOk"}
Labels == {"idle"} \cup UpSteps \cup DownSteps \cup StatusSteps \cup Final

TypeOK ==
    /\ bridges \subseteq Bridges
    /\ tap \in [Taps -> Bridges \cup {Absent, Loose}]
    /\ proc \in [Pids -> Process]
    /\ dir \in [Nodes -> RunDir]
    /\ pc \in [Clis -> Labels]
    /\ topo \in [Clis -> Topos]
    /\ pos \in [Clis -> Nat \ {0}]
    /\ victim \in [Clis -> Pids \cup {NoPid}]
    /\ report \in [Clis -> [Nodes -> Verdicts]]
    /\ calm \in [Clis -> BOOLEAN]
    /\ up \subseteq Topos

-----------------------------------------------------------------------------
(* What a topology owns. *)

NodesOf(t) == {Plans[t].nodes[k] : k \in DOMAIN Plans[t].nodes}
TapsOf(t) == {Plans[t].taps[k].name : k \in DOMAIN Plans[t].taps}
BridgesOf(t) == {Plans[t].bridges[k] : k \in DOMAIN Plans[t].bridges}

\* The interfaces Up passes to a node's qemu.
NicsOf(t, n) == {Plans[t].taps[k].name :
                    k \in {j \in DOMAIN Plans[t].taps : Plans[t].taps[j].node = n}}

\* Device names and run directories carry no topology name: two topologies
\* overlap as soon as they share one.
Overlap(s, t) ==
    \/ NodesOf(s) \cap NodesOf(t) # {}
    \/ TapsOf(s) \cap TapsOf(t) # {}
    \/ BridgesOf(s) \cap BridgesOf(t) # {}

\* What the loop a cli is in ranges over.
Items(c) ==
    IF pc[c] = "bridge" THEN Plans[topo[c]].bridges
    ELSE IF pc[c] \in {"tap", "ip"} THEN Plans[topo[c]].taps
    ELSE Plans[topo[c]].nodes
More(c) == pos[c] <= Len(Items(c))
Item(c) == Items(c)[pos[c]]

NoProcess == [who |-> Free, nics |-> {}, live |-> FALSE, ready |-> FALSE, addrs |-> {}]
NoDir == [exists |-> FALSE, pid |-> NoPid, ready |-> FALSE]

\* The host after the processes in S are killed.
Kill_Forgets(S) == [p \in Pids \ S |-> proc[p]]
Kill(S) == [p \in Pids |-> IF p \in S THEN NoProcess ELSE proc[p]]
ProcessesOf(n) == {p \in Pids : proc[p].who = n}
Held == UNION {proc[p].nics : p \in Pids}

\* What an idle cli's topology is; no step depends on it.
AnyTopo == CHOOSE t \in Topos : TRUE

Goto(c, label, k) ==
    /\ pc' = [pc EXCEPT ![c] = label]
    /\ pos' = [pos EXCEPT ![c] = k]
Fail(c) == Goto(c, "upErr", 1)

-----------------------------------------------------------------------------
Init ==
    /\ bridges = {}
    /\ tap = [x \in Taps |-> Absent]
    /\ proc = [p \in Pids |-> NoProcess]
    /\ dir = [n \in Nodes |-> NoDir]
    /\ pc = [c \in Clis |-> "idle"]
    /\ topo = [c \in Clis |-> AnyTopo]
    /\ pos = [c \in Clis |-> 1]
    /\ victim = [c \in Clis |-> NoPid]
    /\ report = [c \in Clis |-> [n \in Nodes |-> "unseen"]]
    /\ calm = [c \in Clis |-> FALSE]
    /\ up = {}

-----------------------------------------------------------------------------
(* Commands begin and end. *)

\* A command that changes the host disturbs every command on an overlapping
\* topology, and is disturbed by those.
Busy(c) == pc[c] \in UpSteps \cup DownSteps
StartChanging(c, t, label) ==
    /\ pc[c] = "idle"
    /\ Goto(c, label, 1)
    /\ topo' = [topo EXCEPT ![c] = t]
    /\ calm' = [x \in Clis |->
                  IF x = c
                  THEN \A y \in Clis \ {c} : Busy(y) => ~Overlap(topo[y], t)
                  ELSE calm[x] /\ ~Overlap(topo[x], t)]
    /\ up' = {s \in up : ~Overlap(s, t)}
    /\ UNCHANGED <<host, victim, report>>

StartUp(c, t) == "up" \in Commands /\ StartChanging(c, t, "bridge")
StartDown(c, t) == "down" \in Commands /\ StartChanging(c, t, "stop")
StartStatus(c, t) ==
    /\ "status" \in Commands
    /\ pc[c] = "idle"
    /\ Goto(c, "status", 1)
    /\ topo' = [topo EXCEPT ![c] = t]
    /\ UNCHANGED <<host, victim, report, calm, up>>

Reset(c) ==
    /\ Goto(c, "idle", 1)
    /\ topo' = [topo EXCEPT ![c] = AnyTopo]
    /\ victim' = [victim EXCEPT ![c] = NoPid]
    /\ report' = [report EXCEPT ![c] = [n \in Nodes |-> "unseen"]]
    /\ calm' = [calm EXCEPT ![c] = FALSE]
    /\ UNCHANGED <<host, up>>

Return(c) == pc[c] \in Final /\ Reset(c)

\* The klab process is killed between two Runs; the host keeps what it has.
Crash(c) == pc[c] \notin {"idle"} \cup Final /\ Reset(c)

\* A loop that has no item left hands over to the next one.
AfterLoop == [bridge |-> "tap", tap |-> "prep", prep |-> "ip", ip |-> "upOk",
              stop |-> "links", status |-> "statusOk"]
LoopDone(c) ==
    /\ pc[c] \in DOMAIN AfterLoop
    /\ ~More(c)
    /\ Goto(c, AfterLoop[pc[c]], 1)
    /\ up' = IF pc[c] = "ip" /\ calm[c] THEN up \cup {topo[c]} ELSE up
    /\ UNCHANGED <<host, topo, victim, report, calm>>

-----------------------------------------------------------------------------
(* Up. *)

\* createBridge deletes a bridge of that name first, which frees its taps.
CreateBridge(c) ==
    /\ pc[c] = "bridge" /\ More(c)
    /\ bridges' = bridges \cup {Item(c)}
    /\ tap' = [x \in Taps |-> IF tap[x] = Item(c) THEN Loose ELSE tap[x]]
    /\ Goto(c, "bridge", pos[c] + 1)
    /\ UNCHANGED <<proc, dir, topo, victim, report, calm, up>>

\* createTap adds the tap unless it is there, and puts it on its bridge, from
\* whatever bridge it was on; without the bridge it stays where it was.
CreateTap(c) ==
    /\ pc[c] = "tap" /\ More(c)
    /\ LET x == Item(c).name
           b == Item(c).bridge
           was == IF tap[x] = Absent THEN Loose ELSE tap[x]
       IN  tap' = [tap EXCEPT ![x] = IF b \in bridges THEN b ELSE was]
    /\ Goto(c, "tap", pos[c] + 1)
    /\ UNCHANGED <<bridges, proc, dir, topo, victim, report, calm, up>>

\* prepRootfs makes the run directory anew: a qemu that served the old one is
\* cut off from it.
FreshDir_Reused(n) ==
    /\ dir' = [dir EXCEPT ![n].exists = TRUE]
    /\ UNCHANGED proc
FreshDir(n) ==
    /\ dir' = [dir EXCEPT ![n] = [NoDir EXCEPT !.exists = TRUE]]
    /\ proc' = [p \in Pids |-> [proc[p] EXCEPT !.live = @ /\ proc[p].who # n]]
PrepNode(c) ==
    /\ pc[c] = "prep" /\ More(c)
    /\ Refusal[topo[c]][Item(c)] \in {"none", "mem"}
    /\ FreshDir(Item(c))
    /\ IF Refusal[topo[c]][Item(c)] = "none" THEN Goto(c, "launch", pos[c]) ELSE Fail(c)
    /\ UNCHANGED <<bridges, tap, topo, victim, report, calm, up>>

\* The image or the capabilities of the node fail: Up returns where it is.
RefuseNode(c) ==
    /\ pc[c] = "prep" /\ More(c)
    /\ Refusal[topo[c]][Item(c)] \in {"image", "caps"}
    /\ Fail(c)
    /\ UNCHANGED <<host, topo, victim, report, calm, up>>

\* qemu is started in the background and its pid recorded.  It exits at once
\* when another process holds one of its taps or the run directory is missing;
\* the pid file then names a pid that is free again.  With no pid left the fork
\* fails and no pid is recorded.
Recorded_Not(n, p) == dir
Recorded(n, p) == IF dir[n].exists THEN [dir EXCEPT ![n].pid = p] ELSE dir
CanRun(n, nics) == dir[n].exists /\ nics \cap Held = {}
Launch(c) ==
    /\ pc[c] = "launch"
    /\ LET n == Item(c)
           nics == NicsOf(topo[c], n)
           qemu == [NoProcess EXCEPT !.who = n, !.nics = nics, !.live = TRUE]
           unused == {p \in Pids : proc[p].who = Free}
       IN  IF unused = {}
           THEN UNCHANGED <<proc, dir>>
           ELSE \E p \in unused :
                  /\ dir' = Recorded(n, p)
                  /\ proc' = IF CanRun(n, nics) THEN [proc EXCEPT ![p] = qemu] ELSE proc
    /\ Goto(c, "wait", pos[c])
    /\ UNCHANGED <<bridges, tap, topo, victim, report, calm, up>>

\* Boot sees the guest's ready file, or gives up after bootTimeout.
SeeReady(c) ==
    /\ pc[c] = "wait"
    /\ dir[Item(c)].ready
    /\ Goto(c, "prep", pos[c] + 1)
    /\ UNCHANGED <<host, topo, victim, report, calm, up>>
BootTimeout_Never(c) == FALSE
BootTimeout(c) ==
    /\ pc[c] = "wait"
    /\ Goto(c, "reap", pos[c])
    /\ UNCHANGED <<host, topo, victim, report, calm, up>>

\* Boot then sends SIGTERM to whatever has the recorded pid, which may take its
\* time to die, and Up returns its error.
ReapBoot_Succeeds(c) ==
    /\ pc[c] = "reap"
    /\ Goto(c, "prep", pos[c] + 1)
    /\ UNCHANGED <<host, topo, victim, report, calm, up>>
ReapBoot(c) ==
    /\ pc[c] = "reap"
    /\ proc' \in {proc, Kill({dir[Item(c)].pid})}
    /\ Fail(c)
    /\ UNCHANGED <<bridges, tap, dir, topo, victim, report, calm, up>>

\* One ipConfigCmd over the exec channel.  It succeeds only in a guest that
\* serves the node's run directory and has the interface without its address;
\* it may fail in any state (the exec times out).
SkipIP(c) ==
    /\ pc[c] = "ip" /\ More(c) /\ ~Item(c).ip
    /\ Goto(c, "ip", pos[c] + 1)
    /\ UNCHANGED <<host, topo, victim, report, calm, up>>
AssignIP(c) ==
    /\ pc[c] = "ip" /\ More(c) /\ Item(c).ip
    /\ \E p \in ProcessesOf(Item(c).node) :
          /\ proc[p].live /\ proc[p].ready
          /\ Item(c).name \in proc[p].nics \ proc[p].addrs
          /\ proc' = [proc EXCEPT ![p].addrs = @ \cup {Item(c).name}]
    /\ Goto(c, "ip", pos[c] + 1)
    /\ UNCHANGED <<bridges, tap, dir, topo, victim, report, calm, up>>
FailIP(c) ==
    /\ pc[c] = "ip" /\ More(c) /\ Item(c).ip
    /\ Fail(c)
    /\ UNCHANGED <<host, topo, victim, report, calm, up>>

-----------------------------------------------------------------------------
(* Down. *)

\* Stop's script reads the pid file and sends SIGTERM to what has that pid,
\* which may take its time to die; without a pid it goes on to the pkill.
StopNode(c) ==
    /\ pc[c] = "stop" /\ More(c)
    /\ LET pid == dir[Item(c)].pid
       IN  /\ victim' = [victim EXCEPT ![c] = pid]
           /\ IF pid = NoPid
              THEN /\ Goto(c, "pkill", pos[c])
                   /\ UNCHANGED proc
              ELSE /\ Goto(c, "force", pos[c])
                   /\ proc' \in {proc, Kill({pid})}
    /\ UNCHANGED <<bridges, tap, dir, topo, report, calm, up>>

\* After at most five seconds it sends SIGKILL to the same pid.
StopForce(c) ==
    /\ pc[c] = "force"
    /\ proc' = Kill({victim[c]})
    /\ Goto(c, "pkill", pos[c])
    /\ UNCHANGED <<bridges, tap, dir, topo, victim, report, calm, up>>

\* pkill -9 -f '<run>/rootfs' kills every qemu with that path on its command
\* line, whichever Up started it.  The shells that run Stop's script for the node
\* have the path on their command line too and die with them, this one included:
\* the "rm -rf" on the script's last line is never reached, and the run directory
\* and the pid file stay.  The Runner reports a killed command as an exit code,
\* which Stop does not look at, so every such Stop succeeds and its Down goes on.
Pkilled_Recorded(n) == {dir[n].pid}
Pkilled(n) == ProcessesOf(n)
Stopping(n) == {x \in Clis : pc[x] \in {"force", "pkill"} /\ Item(x) = n}
PkillNode(c) ==
    /\ pc[c] = "pkill"
    /\ proc' = Kill(Pkilled(Item(c)))
    /\ LET shells == Stopping(Item(c))
       IN  /\ pc' = [x \in Clis |-> IF x \in shells THEN "stop" ELSE pc[x]]
           /\ pos' = [x \in Clis |-> IF x \in shells THEN pos[x] + 1 ELSE pos[x]]
           /\ victim' = [x \in Clis |-> IF x \in shells THEN NoPid ELSE victim[x]]
    /\ UNCHANGED <<bridges, tap, dir, topo, report, calm, up>>

\* One script deletes the taps and then the bridges; a bridge's other taps stay
\* and a process that has a deleted tap open loses it.  A plan with no links
\* runs no script, which changes as little.
Unlinked_TapsOnly(t) == TapsOf(t)
Unlinked_Everyones(t) == Taps \cup Bridges
Unlinked(t) == TapsOf(t) \cup BridgesOf(t)
DeleteLinks(c) ==
    /\ pc[c] = "links"
    /\ bridges' = bridges \ Unlinked(topo[c])
    /\ tap' = [x \in Taps |-> IF x \in Unlinked(topo[c]) THEN Absent
                              ELSE IF tap[x] \in Unlinked(topo[c]) \cap Bridges THEN Loose
                              ELSE tap[x]]
    /\ proc' = [p \in Pids |-> [proc[p] EXCEPT !.nics = @ \ Unlinked(topo[c])]]
    /\ Goto(c, "downOk", 1)
    /\ UNCHANGED <<dir, topo, victim, report, calm, up>>

-----------------------------------------------------------------------------
(***************************************************************************)
(* A Run that goes wrong without doing anything on the host.  "lost": the  *)
(* command could not be started in the VM (or its script failed), which    *)
(* the Runner reports as an exit code, and only Status, the readiness poll *)
(* and AssignIP look at one.  "error": the Runner itself fails; Up returns *)
(* it, Down drops it.                                                      *)
(***************************************************************************)
MoreToRun(c) == pc[c] \in DOMAIN AfterLoop => More(c)
Disturb(c) ==
    /\ calm' = [calm EXCEPT ![c] = FALSE]
    /\ UNCHANGED <<host, topo, victim, report, up>>

LoseInUp(c) ==
    /\ "lost" \in Mishaps
    /\ MoreToRun(c)
    /\ \/ pc[c] \in {"bridge", "tap"} /\ Goto(c, pc[c], pos[c] + 1)
       \/ /\ pc[c] = "prep" /\ Refusal[topo[c]][Item(c)] \in {"none", "mem"}
          /\ IF Refusal[topo[c]][Item(c)] = "none" THEN Goto(c, "launch", pos[c]) ELSE Fail(c)
       \/ pc[c] = "launch" /\ Goto(c, "wait", pos[c])
       \/ pc[c] = "reap" /\ Fail(c)
    /\ Disturb(c)
FailInUp(c) ==
    /\ "error" \in Mishaps
    /\ MoreToRun(c)
    /\ \/ pc[c] \in {"bridge", "tap", "launch", "reap"}
       \/ pc[c] = "prep" /\ Refusal[topo[c]][Item(c)] \in {"none", "mem"}
    /\ Fail(c)
    /\ Disturb(c)
MishapInDown(c) ==
    /\ Mishaps # {}
    /\ MoreToRun(c)
    /\ \/ pc[c] = "stop" /\ Goto(c, "stop", pos[c] + 1)
       \/ pc[c] = "links" /\ Goto(c, "downOk", 1)
    /\ Disturb(c)

-----------------------------------------------------------------------------
(* Status: is the recorded pid alive, and if so does the node answer. *)

PidAlive(n) == dir[n].pid # NoPid /\ proc[dir[n].pid].who # Free
CheckPid(c) ==
    /\ pc[c] = "status" /\ More(c)
    /\ IF PidAlive(Item(c))
       THEN /\ report' = [report EXCEPT ![c][Item(c)] = "running"]
            /\ Goto(c, "ping", pos[c])
       ELSE /\ report' = [report EXCEPT ![c][Item(c)] = "down"]
            /\ Goto(c, "status", pos[c] + 1)
    /\ UNCHANGED <<host, topo, victim, calm, up>>

\* The ping is an Exec of "true" with three seconds to answer.
Ping(c) ==
    /\ pc[c] = "ping"
    /\ \/ /\ \E p \in ProcessesOf(Item(c)) : proc[p].live /\ proc[p].ready
          /\ report' = [report EXCEPT ![c][Item(c)] = "ready"]
       \/ UNCHANGED report
    /\ Goto(c, "status", pos[c] + 1)
    /\ UNCHANGED <<host, topo, victim, calm, up>>

\* A mishap of either kind reads as a pid that is not alive; one of the ping is
\* a ping without an answer.
MishapInStatus(c) ==
    /\ Mishaps # {}
    /\ pc[c] = "status" /\ More(c)
    /\ report' = [report EXCEPT ![c][Item(c)] = "down"]
    /\ Goto(c, "status", pos[c] + 1)
    /\ UNCHANGED <<host, topo, victim, calm, up>>

-----------------------------------------------------------------------------
(* The host. *)

\* A guest that finished booting marks it in the run directory it serves.
GuestReady(p) ==
    /\ proc[p].who \in Nodes /\ proc[p].live /\ ~proc[p].ready
    /\ proc' = [proc EXCEPT ![p].ready = TRUE]
    /\ dir' = [dir EXCEPT ![proc[p].who].ready = TRUE]
    /\ UNCHANGED <<bridges, tap, pc, topo, pos, victim, report, calm, up>>

\* A guest may power off or panic, and qemu may be killed, at any time.
QemuExit(p) ==
    /\ proc[p].who \in Nodes
    /\ proc' = Kill({p})
    /\ UNCHANGED <<bridges, tap, dir, pc, topo, pos, victim, report, calm, up>>

ForeignStart(p) ==
    /\ proc[p].who = Free
    /\ Cardinality(ProcessesOf(Foreign)) < MaxForeign
    /\ proc' = [proc EXCEPT ![p].who = Foreign]
    /\ UNCHANGED <<bridges, tap, dir, pc, topo, pos, victim, report, calm, up>>
ForeignExit(p) ==
    /\ proc[p].who = Foreign
    /\ proc' = Kill({p})
    /\ UNCHANGED <<bridges, tap, dir, pc, topo, pos, victim, report, calm, up>>

-----------------------------------------------------------------------------
CliStep(c) ==
    \/ Return(c) \/ LoopDone(c)
    \/ CreateBridge(c) \/ CreateTap(c)
    \/ PrepNode(c) \/ RefuseNode(c) \/ Launch(c)
    \/ SeeReady(c) \/ BootTimeout(c) \/ ReapBoot(c)
    \/ SkipIP(c) \/ AssignIP(c) \/ FailIP(c)
    \/ StopNode(c) \/ StopForce(c) \/ PkillNode(c) \/ DeleteLinks(c)
    \/ CheckPid(c) \/ Ping(c)

Start(c) == \E t \in Topos : StartUp(c, t) \/ StartDown(c, t) \/ StartStatus(c, t)
Mishap(c) == LoseInUp(c) \/ FailInUp(c) \/ MishapInDown(c) \/ MishapInStatus(c)
HostStep(p) == GuestReady(p) \/ QemuExit(p) \/ ForeignStart(p) \/ ForeignExit(p)

Next ==
    \/ \E c \in Clis : Start(c) \/ CliStep(c) \/ Mishap(c) \/ Crash(c)
    \/ \E p \in Pids : HostStep(p)

Spec == Init /\ [][Next]_vars

\* Every loop over time in the code has a deadline, so a command always has a
\* next step; the operating system keeps running its process.
FairSpec == Spec /\ \A c \in Clis : WF_vars(CliStep(c))

-----------------------------------------------------------------------------
(* Properties. *)

\* Nothing of a topology is left on the host.
Clean(t) ==
    /\ \A n \in NodesOf(t) : ProcessesOf(n) = {}
    /\ \A x \in TapsOf(t) : tap[x] = Absent
    /\ BridgesOf(t) \cap bridges = {}

\* "nothing leaks" (Down, cluster.go:88): when a Down that nothing disturbed
\* ends, no qemu, tap or bridge of its topology is left, whatever crashed,
\* repeated or failed Ups were there before, and whatever commands on other
\* topologies run at the same time.
NoLeakAfterDown ==
    \A c \in Clis : pc[c] = "downOk" /\ calm[c] => Clean(topo[c])

\* The network of a topology is as planned; each of its nodes has a run
\* directory that is marked ready, and the one qemu that serves it, unless it
\* exited, is the recorded one, has booted, and has its interfaces with their
\* addresses.
Wired(t) ==
    /\ BridgesOf(t) \subseteq bridges
    /\ \A k \in DOMAIN Plans[t].taps :
          tap[Plans[t].taps[k].name] = Plans[t].taps[k].bridge
AddrsOf(t, n) == {Plans[t].taps[k].name : k \in
                    {j \in DOMAIN Plans[t].taps : /\ Plans[t].taps[j].node = n
                                                  /\ Plans[t].taps[j].ip}}
Served(t, n) ==
    /\ dir[n].exists /\ dir[n].ready
    /\ \A p \in ProcessesOf(n) : proc[p].live =>
          /\ p = dir[n].pid
          /\ proc[p].ready
          /\ proc[p].nics = NicsOf(t, n)
          /\ AddrsOf(t, n) \subseteq proc[p].addrs

\* "realizes the NetPlan, boots every instance, and assigns per-NIC IPs"
\* (Cluster, cluster.go:15): what an undisturbed Up that returned success
\* promises holds then, and keeps holding until a command starts on a topology
\* that shares a name with this one.
StaysUp == \A t \in up : Wired(t) /\ \A n \in NodesOf(t) : Served(t, n)

\* Status of a topology that is up never calls a node down whose qemu runs, as
\* long as the check itself reaches the host.
StatusSeesRunning ==
    [][\A c \in Clis : CheckPid(c) /\ topo[c] \in up =>
          \A p \in ProcessesOf(Item(c)) :
             proc[p].live => report'[c][Item(c)] = "running"]_vars

\* Every command ends: an Up, a Down or a Status that started returns.
EveryCommandReturns ==
    \A c \in Clis : pc[c] # "idle" ~> pc[c] = "idle"
=============================================================================
