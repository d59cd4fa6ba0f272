# A verification of klab

klab brings a *topology* of small virtual machines up on one Linux host, runs commands
in them and takes them down again. This directory models the parts of it in which
something can go wrong that a test would hardly reach, checks the models with TLC, and
proves the most important properties with TLAPS.

Paths are relative to the repository's root. `PROJECT.json` maps every definition to the
lines it stands for, and lists the hazards and the runs.

## The system

Nothing of klab keeps running between two commands. A command (`klab up`, `down`,
`status`, `exec`, ...) is an operating-system process that computes a plan from the
topology file and then performs one `Runner.Run` after another: each starts a `bash -c`
script, as root, on the Linux host (a Lima VM on a Mac). All that two commands have in
common is the topology file and what is on that host: bridges, taps, processes, and a
run directory per node.

| Component | Its state | Operations | Talks to |
|---|---|---|---|
| Cluster runner (`internal/runner/cluster.go`) | none in memory; the host's bridges, taps, run directories | `Up`, `Down`, `Status` | the plan (calls), the qemu driver (calls), the host (scripts) |
| qemu driver, lifecycle (`driver/qemu/live.go`, `qemu.go`) | `<run>/qemu.pid`, the qemu process, `ctl/ready` | `Boot` (launch, poll for `ready`, reap), `Stop` | host, guest (9p) |
| qemu driver, exec (`live.go`, `framing.go`) and the guest's loop (`scripts/guest/init.sh`) | `ctl/<nano>.req`, `.req.tmp`, `.res`, `.res.tmp` | `Exec`; list, read, run, write, publish, remove | each other, through files on 9p |
| Topology and plan (`internal/topology`, `runner/plan.go`) | none: pure | `Load`/`Validate`, `Expand`, `Plan` | called by every command |
| Guest's boot (`init.sh` 1-34) | `ctl/ready` | mount, mark ready | Boot (polls) |
| Lima runner (`internal/exec/runner.go`) | none | `Run`, which turns a command that fails or cannot start into an exit code, and few things into errors | everything |
| Command line (`cmd/klab/main.go`) | none | dispatch | everything |
| Kernel store and builder (`internal/kernel/store.go`, `builder.go`) | cache entries with `artifact.json`; source trees and tarballs | `Get`, `Build` | host, VM |
| Kernel configuration (`kernel.go`, `main.go` 84-210) | fragment files, the VM's compiler; in memory only what a command has read | `resolveConfig`, `MergeConfig`, `toolchainID`, `CacheKey` | store; `klab kernel build` and `klab up` (call) |
| Host readiness (`internal/host`, `scripts/doctor.sh`) | none: a decision over facts that were gathered | `Evaluate`, `Gather` | command line |
| Driver interface, conformance suite, experiment | none | type declarations, test helpers | - |
| Setup (`scripts/setup.sh`) | installed tools, the Lima instance | install, create or start, verify | `doctor.sh` (calls), brew, limactl |
| Rootfs (`scripts/guest/mkrootfs.sh`) | the base filesystem, an object file in /tmp | build | `klab up` (looks for it and copies it) |

What is hard about each, and what makes it correct:

* **Cluster and driver.** Commands crash between two steps, are repeated, fail half way,
  run at the same time; guests die; process ids are reused. Since only names tie things
  together (a bridge is named by its link, a tap by its position in the plan, a run
  directory by its node, a process by a number in a file), correct means: a Down leaves
  nothing of its topology whatever came before; an Up that succeeded means what it says
  and keeps meaning it; commands on topologies without a common name do not touch each
  other; every command ends.
* **Exec.** Requests and answers are files that two machines list, write, rename and
  remove without locks, with a deadline on one side and death on the other. Correct
  means: a command runs at most once, an answer is the answer to the call that gets it,
  no answer is lost, every caller returns.
* **Plan.** `Up` and `Down` are different processes that each compute it, over Go maps
  whose order is random. Correct means: both compute the same; what was accepted can be
  planned; MACs and addresses are distinct.
* **Kernel store.** A cache on disk that may be killed while it writes, shared by
  concurrent builds which also share source trees. Correct means: a hit is the complete
  artifact that was asked for, and a failure does not poison later builds.
* **Kernel configuration.** Two commands, minutes or months apart, each go from a name
  to a cache entry by reading files that are edited meanwhile and asking a VM that may
  not answer. Correct means: what they get was configured as the files said that they
  read, the same meaning is the same key and another one another key, and what was built
  is found.
* **Readiness.** Two implementations of one set of rules. Correct means: they agree.
* **Setup.** A script whose steps fail half way and which is run again. Correct means:
  when it says that it is done all is there, and running it again does nothing.
* **Rootfs.** One file, `klab-init`, stands for the whole base, and the script can fail
  before and after it writes it. Correct means: whoever finds the file finds something
  to boot from.

## Modules

| Module | Models |
|---|---|
| `Cluster`, `MCCluster` | up, down, status with the driver's Boot and Stop, the host, mishaps and crashes; instances |
| `ClusterClaims` | statements of comments the code does not keep |
| `LabService` | what Up and Down promise, without scripts, pids or files |
| `Lab`, `MCLab` | Cluster over the life of a host on which topology files are edited; it implements LabService; an instance whose plans Topology computes |
| `LabProofs` | of Cluster and Lab, in four parts: type correctness; NoLeakAfterDown; the refinement and Accounted; StaysUp and StatusSeesRunning |
| `ExecService` | what an Exec promises, without files |
| `ExecChannel`, `MCExecChannel` | Exec and the guest's loop on the files; it implements ExecService |
| `ExecClaims` | a statement of a comment about Exec the code does not keep |
| `ExecChannelProofs` | all invariants of ExecChannel; its steps are those of ExecService |
| `Sorting` | `sort.Strings`, for the two modules that follow |
| `SequenceLemmas` | what sorting and flattening yield, for sequences of any length |
| `Topology` | Validate, Expand, Plan, and why Up refuses a node: operators only |
| `NetPlan`, `MCNetPlan` | a file is loaded, Up computes, Down computes again; the files explored |
| `NetPlanProofs` | all properties of NetPlan |
| `KernelConfig`, `MCKernelConfig` | from a kernel's name to a cache entry, in `kernel build` and in `up` |
| `KernelConfigProofs` | all properties of KernelConfig |
| `KernelStore`, `MCKernelStore` | Get and the build script on the files they share; instances |
| `KernelStoreProofs` | all properties of KernelStore |
| `Readiness` | `klab doctor` and `scripts/doctor.sh` |
| `Setup`, `MCReadiness` | `scripts/setup.sh`, on a machine that Readiness judges; the machines explored |
| `ReadinessProofs` | all properties of Readiness and Setup |
| `Rootfs`, `MCRootfs` | `mkrootfs.sh`, `klab up`'s check and its copy |
| `RootfsProofs` | all properties of Rootfs |

`Lab` puts `Cluster` and `Topology` together, `Setup` puts `setup.sh` and the two
doctors together, and `Rootfs` the script and `klab up`. `Cluster` and `ExecChannel`
meet in `Ping` and `AssignIP`, which in `Cluster` are one Exec that is answered if a
live qemu serves the directory; `KernelConfig` and `KernelStore` meet in the cache,
which is one step in the former and whose key is a value in the latter.

### Cluster

The host is the state: `bridges`; `tap` (absent, on no bridge, or on which); `proc`,
which process has which pid and, for a qemu, the taps it holds open, whether it still
serves the node's run directory, whether its guest is ready and which interfaces have an
address; `dir`, the run directory of a node with its pid file and its ready file. A cli
(one klab process) has a program counter, the position in the loop it is in, and the few
values it remembers.

One Run is one step, because nothing looks into a script that runs (a script may be
partly executed when it fails; see below). Stop's script is three steps, as it sleeps up
to five seconds between SIGTERM and SIGKILL, in which a pid may change hands. The steps
of Up are `CreateBridge`, `CreateTap`, `PrepNode` or `RefuseNode`, `Launch`, `SeeReady`
or `BootTimeout` and `ReapBoot`, then `AssignIP`, `SkipIP` or `FailIP` for each tap; of
Down, `StopNode`, `StopForce`, `PkillNode` for each node, then `DeleteLinks`; of Status,
`CheckPid` and `Ping` for each node. `Crash` kills a cli between any two steps.
`GuestReady`, `QemuExit`, `ForeignStart` and `ForeignExit` are the rest of the host.

Three properties of the host that decide much:

* qemu holds the inode of the directory it serves over 9p. `prepRootfs`, which removes
  the directory and makes it anew, cuts an older qemu off: its guest neither marks the
  new directory ready nor answers an Exec (`live`).
* A tap can be held by one process. A second qemu with the same tap exits at once and
  leaves its pid in the pid file.
* `pkill -f` matches the command lines of shells as well. Stop's script is a `bash -c`
  argument and contains the path it is matching, so the script dies in its own pkill:
  what follows in it is never done (`PkillNode`). `test/integration/run.sh:22` warns of
  the same effect for pgrep.

`calm` and `up` are history variables that the properties refer to: a command is calm
while no other command changed a topology with a common name and no Run of its own was
lost; a topology is in `up` when a calm Up succeeded, until a command that changes
something with a common name starts.

Properties:

* `NoLeakAfterDown` (proved): when a calm Down ends, no qemu, tap or bridge of its
  topology is left.
* `StaysUp`: the promise of a calm Up that succeeded (devices as planned, every node's
  run directory ready, the qemu that serves it is the recorded one, is booted, with its
  interfaces and addresses) holds and is not undone by commands on other topologies. A
  guest may of course die; what is excluded is a wrong one.
* `StatusSeesRunning`: Status never calls a node of such a topology down while its qemu
  runs.
* `EveryCommandReturns` (liveness).

### ExecChannel and ExecService

Each call of Exec takes a clock reading, which may be another call's too, and goes
through the steps of its shell commands, in which opening, filling and renaming the
request are separate: another machine may look in between. Request files are modelled
with their inodes since calls that read the same clock value write through one name. The
guest's loop has one action for every line of `init.sh` 36-50. Both may stop between any
two steps; a call may time out in any poll, and any Run of it may fail in the ways the
Runner has.

An answer is read by `cat`, whose exit code Exec does not look at (`FailRead`): a cat
that fails may have printed nothing, which is then an error for want of an "rc=" line,
or the beginning of the answer, which is taken for the whole. `cut` remembers the calls
that got such a beginning.

* `OwnAnswer` (proved): what a call returns was printed by its own command, which ran
  once, unless another call has its clock reading. It need not be all of the output.
* `AtMostOnce` (proved): no command runs twice, whoever shares a reading.
* `NoTornCommand` (proved): only calls that share one can have a request run that is not
  written out.
* `NoAnswerLost` (proved): while a caller waits for a command that ran, its request or
  its answer is there.
* `Served` (liveness): a request is served unless the guest dies or is held.
* `ImplementsExecService`: see below.

`ExecService` is what a caller may rely on: a call's command runs at most once, before
or after the call failed, and before the call is answered, unless the call is `mixed`
with another that read the same clock value; each call returns. `ImplementsExecService`
checks, with fairness, that the channel implements it. It is stronger than the
invariants in one point: it relates the order of running and answering over time.

### Lab and LabService

`Lab` is Cluster with one more history variable: `owed`, the topologies that an Up was
started of and no calm Down has ended for since. A file that is edited is two
topologies, one before and one after, for nothing of klab remembers the first: a Down
stops the nodes and deletes the devices that the file names by then. In `MCLab` the edit
gives a node a count, hence another name, moves it to another link, and adds a node
whose memory size cannot be read; the assumption `ComputedFromFiles` makes TLC check
that the plans written there are the ones `Topology` computes.

`LabService` knows *things* (a bridge, a tap, a node's qemu), which topologies *own* by
their names. Something can be made only for a topology that is owed a Down; a Down that
is done has left nothing its topology owns, and only then the debt is gone; the devices
of a topology that is up are taken away by nobody.

* `ImplementsService` (proved): every step of the host is a step of the service or none.
* `Accounted` (proved): each thing on the host is owned by a topology that is owed a
  Down. So whatever crashed, failed or was edited, calm Downs of the versions that were
  brought up clean the host; a Down of the edited version alone does not.

### Topology and NetPlan

The operators of `Topology` are the functions: `ValidNodes`, `ValidLinks`, `Copies`,
`Expand`, `Plan`, `CheckCaps`, and `RefusalOf`, the order in which Up looks for a reason
not to boot a node. A node's name is a sequence of words, so that "agent" expands to
"agent-0"; a link's name is split at the character at which a device name is cut; an
address is a number. The state machine of `NetPlan` only loads a file, computes what Up
makes and, with another order of the map of nodes, what Down deletes.

What the operators reproduce although no property is stated of it, for a reader who
compares: bridge names are cut at ten characters, so that links whose names agree that
far share a bridge; addresses run out of a subnet that is too small; an IPv6 subnet
gives all its members one address; a count of 1 renames the node to "<name>-0"; an
expanded name may be another node's.

### KernelConfig

A process is `klab kernel build` (`Builders`) or `klab up`. Its steps are the reads:
`ResolveConfig` reads and merges the fragments, `ToolchainID` asks the VM, which may not
tell (`Silent`: the key is then made with the word "clang"), `LookUp` looks for the
entry, and a builder builds. Between any two steps the user may edit or remove a
fragment (`Edit`) or upgrade the VM (`Upgrade`). A fragment is a sequence of lines that
set a symbol, say that it is not set, or are something else; `MergeConfig` applies them
in order and writes one line per symbol, sorted. An entry remembers what was really
built: the config, and the compiler of the moment the build ran.

`Said` is the reference that the merge is checked against: the value of a symbol is that
of the last line that names it. It is a history variable, taken when the files are read.

* `GetsWhatItRead`: the kernel behind the key is one of the ref, architecture and
  configuration that the process was asked for and read.
* `SameKeySameMeaning`: two requests have one config exactly if their fragments say the
  same.
* `NeverOlderCompiler`: a process that was told the compiler never gets the kernel of an
  older one. (It may get a newer one's, if the upgrade came between the question and the
  build. A process that was not told may get any.)
* `BuiltIsFound`: what was built or hit once is found by whoever resolves the same.

### KernelStore

A *job* is a klab process that asks for one kernel: `klab kernel build`, or the look-up
of `klab up`, which builds nothing (`Finders`). Get's steps are `Begin`, `Found` or
`NotFound`, `MarkBegin` and `MarkEnd`; between the last two artifact.json is truncated
and not yet written. The script of `MakeBuilder.Build` has one action per command, and
two for each that takes time and shows something partial meanwhile (curl, tar, the copy
of the results). Files hold what they were made from: a `.config` has a base target and
a set of fragments, and so has the kernel that was made with it.

Jobs share the tarball and the temporary directory of a version, the source tree of a
version and architecture, and the cache entry of a key. When two of them are at it at
once, a curl that truncates a file which another is writing, or an `rm` or `mv` of a
directory that another extracts to, leaves the other's work incomplete: the other is
`spoiled`, and its result stays partial.

`FailScript` ends a script anywhere, `Kill` ends a klab process anywhere, and the script
may then go on in the VM without it (`orphans`).

`crowded` is a history variable: the versions on which two jobs were ever building at
the same time. No lock prevents it, and with two builders at work no promise about
contents can hold: one replaces the `.config` the other is about to make. The properties
are therefore of versions that are not crowded, except `HitWasBuilt`, which holds always
and says little more than it can: a hit is on an entry that some Get completed, and if
what is there is torn, another build of the same entry is writing it or was cut short.
That such a hit exists, and that a second build may put another config's kernel under a
whole artifact.json, is against `store.go:29-30`, by which artifact.json tells a
complete entry from a partial one.

Left out are the toolchain, which is in `KernelConfig`, and the entry's config file,
which Get writes and the script overwrites.

### Readiness

A machine is a record of what the commands that ask for it would print, including that
there is nothing to read. `Facts` and `Evaluate` follow `internal/host`, `DoctorScript`
follows the shell script; each yields a report, a function from the checks that were
made to their outcomes. kvm-ok needs root: the Go code runs `sudo -n`, and the script
`sudo`, which may get a password or not.

* `InSync`, `SameVerdict`: the two make the same checks and give the same verdict.
* `ReadyMeansNeeded`: both say ready of exactly the machines that have what `Needed`
  lists, which is less than what it takes to run a guest: with a Lima instance that is
  stopped or was never made nobody asks for /dev/kvm, and what the disk or the chip is,
  or that it cannot be read, only warns.

### Setup

`setup.sh` goes through `Ensure` for brew, limactl and go, `StartHost`, and `Verify`,
which is doctor.sh's verdict. A tool that is missing is installed, or the script dies (a
refusal, `--no-install`, a failure), or the installation says that it succeeded and the
command is not found all the same: the script looks again for brew only. `StartHost`
starts or creates the instance; if that fails, or runs out of time, the instance is left
in any state. The user may stop or delete the instance between two runs, and either
doctor may be asked at any time; a report is forgotten when the machine changes.

`SetupVerifies` is not what Verify tests: doctor.sh warns of an instance that does not
run and still says ready, so that it holds only together with what the steps before
left. `SafeToRerun` is of every step from any machine that has everything.

### Rootfs

Every command of `mkrootfs.sh` that writes the base is an action, debootstrap two, as it
shows a part of the distribution meanwhile. The base has a state of the distribution,
the two files of klab's, and under the name of each XDP program the program of which the
object is. `Fail` ends a run anywhere, `Again` starts one again or another up; `crowded`
is a history variable: two runs were at work together, which nothing prevents. `UpCheck`
is `klab up`'s look for klab-init and `PrepRootfs` its copy of the base for a node.

* `CloneBoots`: what `klab up` copies can boot.
* `ObjectIsItself`: an object is of the program it is named for, though all are compiled
  to one file in /tmp.
* `DoneIsComplete`: a run that went to its end leaves the base complete, and no other
  takes anything away again.

## Runs

| Run | Question | States |
|---|---|---|
| `cluster_two_clis` | two klab processes, two disjoint topologies (one with a link, one without), lost Runs, two pids | 4.1 million |
| `cluster_pair` | one klab process, two nodes on one link and a node on its own without a built kernel, failing Runs, two pids, an unrelated process, all commands; safety, and that every command returns | 0.3 million |
| `lab` | one klab process, a file and an edit of it, lost and failed Runs, two pids, all commands: the refinement and the account | 1.2 million |
| `exec` | two calls, whose clock readings may be equal, one of them with a command that may never end: safety, liveness, refinement | 70 thousand |
| `netplan` | some 6500 files, legal and illegal | 21 thousand |
| `kernel_config` | a builder and an up, kernels of one and two fragments, four texts, two symbols, two compilers | 1.1 million |
| `kernel_store` | two builders and a look-up, kernels of two architectures and two configs | 0.6 million |
| `rootfs` | two runs of the script and an up, two programs | 5 thousand |
| `readiness` | some 21000 machines (20736 Macs, 128 others), with setup.sh at work on them | 0.4 million |
| `claim_*` | the statement of a comment each, violated | |

Why the bounds are enough: two clis suffice for a conflict between commands, as every
step of a cli touches the host and no other cli's variables (except the shells that a
pkill takes along). One topology has two nodes, which is where loops over nodes can stop
half way; two pids and an unrelated process are what it takes for a pid to be freed and
taken by another process. Two topologies share a name or do not. Two calls meet on a
name or do not; of any number of calls the theorems speak, all but the liveness. For
NetPlan, two nodes with counts from 0 to 2 of which one has the name of the other's
first copy, one to two links whose names differ before or after the cut, and subnets
that have room, are full, end with the address space, or are IPv6; an address has 5 bits
instead of 32 and a MAC's number 3 instead of 24, so that both overflow. For
KernelStore, two builders are what it takes to disturb each other, and a look-up at any
time sees what they leave; builds that follow each other on one tree or entry come from
the same two, after a return, a failure or a kill; of any number of jobs the theorems
below speak. The kernels `kernel_store` asks for are those of `main.go`'s `builtinSpecs`
and one after an edit of the fragment: two share a tree, two only the tarball, and
either may be asked for twice. All have one version, because jobs on different versions
share nothing. For KernelConfig, two symbols that are not in their order, a symbol
disabled in both ways, fragments that conflict and that do not, and a missing one are
what a merge can tell apart; one builder and one up are two readers of everything, and
one entry (`MaxEntries`) is what they meet at: an entry under another key is never
looked at. For Lab, one process, for what two do at once is in the runs of Cluster; its
topologies share their only tap and neither bridges nor nodes. For Rootfs, two runs are
what it takes to meet, two programs to confuse objects. For Readiness, every number is
taken on both sides of each threshold, and as unreadable.

TLC looks for deadlocks in all runs but `exec`, `claim_answer`, `netplan` and
`kernel_store`, which say `CHECK_DEADLOCK FALSE`: when all calls have returned and the
guest is dead, Down has been computed, or all jobs have returned, there is nothing left
to do.

**Fairness.** `WF_vars(CliStep(c))`: every loop over time in the code has a deadline
(`bootTimeout`, five seconds of Stop, the timeout of an Exec), so a command always has a
next step, and the operating system runs its process. `SeeReady` and `GuestReady` have
none: a guest may never boot. `WF_vars(CallStep(c))` for the same reason, and
`WF_vars(GuestStep /\ ~Held)` since the guest's loop polls as long as it lives; while it
waits for a command that may never end (`Held`), it need not go on.

### What the claims show

Each of these runs ends with a counterexample against a comment of the code;
`PROJECT.json` quotes the comment under "findings".

* `claim_rundir`: Stop never removes a run directory, because its script dies in its own
  pkill.
* `claim_spares`: Stop kills whatever process has the recorded number.
* `claim_answer`: Exec returns the beginning of an output as the output, with success,
  when the cat that reads it fails half way.

The models also show, with no run that states it: links whose names agree in the first
ten characters share one bridge (`Segment`, and the last conjunct of
`PlansWhatItAccepts`), although `plan.go:11` says that there is one bridge per link; a
node with a count of 1 is numbered (`Copies`), although `topology.go:101-102` says that
it keeps its own name; where two builds work on one entry, a hit may be on a torn
artifact or on another config's (`HitWasBuilt`), although `store.go:29-30` says that
artifact.json tells a complete entry from a partial one; a node is refused after the
nodes before it were booted (`RefuseNode`), although `runner.go:56` and `driver.go:5-7`
say that a mismatch is rejected before anything boots; the cache key leaves out the base
config, although `kernel.go:87-88` says that it covers all that the build depends on
(today's specs all say `defconfig`); a VM that does not tell its compiler hides a kernel
from `klab up`, and makes a hit of one that an older compiler built (`ToolchainID`); a
run of `mkrootfs.sh` that is killed after it wrote klab-init leaves a base without all
XDP objects that every later run calls present (`CheckBase`), although the script's
header promises one; whatever driver a node names, qemu boots it (`QemuCaps`), although
`driver.go:5` says that a driver is selected per node; `createBridge` drops the exit
code of its script, so an Up can succeed without a bridge (`LoseInUp`); Status takes any
process with the recorded number for the node's (`PidAlive`), even as
`StatusSeesRunning` holds; a torn `artifact.json` makes every later Get of the key fail
(`Corrupt`), and a partial tarball every later build of the version (`TarBegin`), until
somebody removes the file.

## Proofs

The theorems hold for every value of the constants that satisfies the modules'
assumptions: any number of klab processes, topologies, nodes, pids, calls. The
assumptions say that plans are what `plan.go` computes (a tap's bridge is one of the
plan's, a plan's taps have different names), and that names do not meet the values that
stand for "none". Those of NetPlan and KernelConfig say what a file is: finitely many
nodes with integer counts, sequences of links and members, subnets whose address and
prefix fit the width of an address; a kernel's fragments are files of config lines.

* `LabProofs`, part 1: `TypeCorrect`, `SpecTypeOK`. The invariant `TypeInv` adds to
  TypeOK where in a loop a command is: the position is within the loop's list at the
  steps that use an item of it without looking.
* `LabProofs`, part 2: `DownLeavesNothing == Spec => []NoLeakAfterDown`. The inductive
  invariant is `DownInv == TypeInv /\ \A c : Alone(c) /\ Progress(c)`. *Alone*: no
  command that changes the host is on a topology that shares a name with that of a calm
  one. *Progress*: a calm Down has left no process for the nodes before its position,
  none for any node once it deletes links, and no device when it is done. The proof of
  `Progress` goes action by action: the actions of the same cli extend it
  (`OwnProgress`), and those of others keep it (`StepKeepsGone`, `HostKeepsGone`), for
  an Up that could add a process or a device is on a topology without a common name, by
  `Alone`.
* `ExecChannelProofs`: `ExecTypeCorrect`, `ExecAtMostOnce`, `ExecOwnAnswer`,
  `ExecNoTornCommand`, `ExecNoAnswerLost`, `ExecImplements`. The invariant `ExecInv`
  says of inodes: one has only names made of its call's clock reading, and one of the
  two at most (`OneName`); it exists while its call writes to it, and a call's command
  is in no other (`OneInode`); and (`Ran`) the inode of a command that ran is under no
  name, or under that of the request the guest is busy with, so that the guest cannot
  come across it again. `OwnInv` adds what a call has that is alone with its clock
  reading, while other calls may share theirs: whatever bears a reading was made by or
  for a call that read it (`Traced`), so the files of this one hold its command and its
  answer only, one of them from the run of the command until the call has the answer
  (`Private`). The steps of other calls leave those files alone (`PrivateOther`).
  `ExecImplements` is about calls with any readings, those of equal ones being mixed in
  the service (`BeginMixes`), and leaves the service's fairness to the run.
* `LabProofs`, part 3: `LabImplementsService` and `LabAccounted`. The refinement needs
  an invariant on top of `DownInv`. `Owing`: an Up at work is on a topology that is owed
  a Down, so that what it makes is made for one. `Building`: a calm Up has left every
  device that its loops have passed, so that its end is the service's `UpDone`.
  `UpStands`: no command is at work on a topology that shares a name with one that is
  up, so that what is deleted is none of the latter's. That a calm Down's end is
  `DownDone` is `NoLeakAfterDown`. `LabAccounted` then needs nothing of klab: it is an
  invariant of the service, in five lines, carried over by the refinement.
* `LabProofs`, part 4: `LabStaysUp` and `LabStatusSeesRunning`. `UpInv` says what a calm
  Up has established at each step, of taps (`Networked`) and of nodes (`Working`):
  before the launch the new run directory is not ready and no qemu serves it, at the
  wait only the recorded one does, after the loop all nodes are booted, and in the last
  loop those behind the position have their addresses. The frame lemmas say what a step
  on a topology without a common name, a step of the host or a mishap leaves alone, and
  the same frame keeps both the half-built topology and those that are up.
* `KernelStoreProofs`: `StoreTypeCorrect`, `StoreHits`, `StoreTrees`, `StoreReturns`,
  `StoreReuses`, one for each property the run checks. The last two assume
  `KeysTellBases`: kernels that share a key have the same base config, which the key
  does not see to. The inductive invariant has four parts. `Marked`: who marks an entry
  returns from Get. `Solo`: on a version that is not crowded one job builds, and nobody
  was spoiled. `Extracted`: what it is about to move into place is complete, and so is
  every tree. `Right`, the core: after each step of the script, the tree and the entry
  hold what that job made of them, and a builder's entry has no artifact.json until it
  writes it. What is torn some job is writing or was when it ended: that part of
  `Marked` needs no calm. A step of another job changes only its own tree and entry
  (`Own`); if those are the same, it is not building while this job is (`Solo`), or this
  job has returned, and then the other cannot be about to mark the entry, since it would
  have found it.
* `ReadinessProofs`: `ReadinessInSync`, `ReadinessVerdict`, `WhatReadyMeans`,
  `SetupVerified`, `SetupRerun`, for every machine. The invariant (`Reported`) only says
  whose reports the two are; the work is in the lemma that they are alike
  (`ReportsAlike`), by the parts they are joined from, and in the verdict on a report,
  part by part again (`ReadyIff`).

* `RootfsProofs`: `RootfsTypeOK`, `RootfsCloneBoots`, `RootfsObjects`, `RootfsComplete`.
  Unless two runs met, one is at work at a time (`Solo`) and where it is tells what is
  in the base (`Reached`); klab-init in the base tells as much (`Whole`), and no run
  starts over in a base that has it (`NoneEarly`), since the one that put it there was
  alone.

* `SequenceLemmas`: `SortedForgetsOrder`, `FlattenPlaces`. The library states induction
  for a predicate given as an operator, which no prover here can instantiate. It is
  stated here for a set of numbers instead (`Induction`), and follows from the library's
  fact that the finite subsets of a set are well-founded. With it `FlattenSeq`, a
  recursive function, is shown to obey its equation (`FlattenStep`), and to list each
  element of each sequence at one place (`FlattenPlaces`, with `Offset`, the length of
  what comes before). `Sorted` lists its elements in ascending order
  (`SortedIsAscending`), and there is one such list only (`AscendingUnique`), so it does
  not depend on the order the elements came in.
* `NetPlanProofs`: `DownSees`, `AcceptedIsPlanned`, `MacsAreDistinct`,
  `AddressesAreUsable`, `PlansFitCluster`. The inductive invariant (`IInv`) only says
  where in the run the two processes are, that what they have is what they computed from
  the file, each in some order of the map, and that a file that is planned is valid; the
  work is in what `Plan` computes. `Before` is a strict order of names, by the place of
  the first difference (`NamesAreOrdered`), so the sort of `Expand` forgets the order of
  the map. The three nested loops of `Plan` give each link, member and instance a place
  of its own among the taps (`TapPlaces`). The taps of one link are a block of
  consecutive places (`LinkTapsAre`) and every tap is in one of these (`TapsOfLinks`);
  in a block, those of an instance are counted by mapping them one to one to the members
  that list it; and what `Address` gives to consecutive places are different numbers of
  the subnet's block (`SubnetIsBlock`, from lemmas about powers of two and remainders).
  `PlansFitCluster` says that the plan of every file that is accepted is what Cluster
  assumes of one (`PlansAssumption`).
* `KernelConfigProofs`: `Typing`, `MergedMeansSaid`, `GetsWhatWasRead`,
  `NoOlderCompiler`, `BuildMakesUpFind`. The merge is a fold of `Apply` over all lines.
  By induction on the lines it has passed, the fold tells for each symbol the value of
  the last line that names it (`FoldTells`), which is what `Said` says; a written config
  says what it was written from (`SaidOfWritten`); so configs are equal when and only
  when they say the same. The invariant has four parts besides the types: a process has
  written down what it read (`Resolved`); it knows a name of the matrix and a compiler
  no newer than the VM's (`Asked`); an entry's key is that of what its kernel was made
  of, by that compiler or a later one (`Honest`); and who was told that its kernel is
  there finds it (`Kept`), since a build only replaces the entry of its own key.

Every invariant and every action property that the runs check is proved. Only
model-checked is what TLAPS cannot do: liveness (`EveryCommandReturns`, `Served`), and
that calls return in the refinement of ExecService. The operators of `Topology` that no
property of NetPlan is about, the reasons for which Up refuses a node, are checked by
TLC with `Lab`.

## What is abstracted, and what is not modelled

* A Run either happens completely or, as a mishap, not at all; a script that fails in
  its middle is not modelled, except that Stop's is. A `prepRootfs` that did half of its
  work reads as a guest that never gets ready.
* A klab process is killed between two Runs. Killing it within one leaves the script
  running in the VM, which then finishes its one step.
* A pkill of Stop can also hit a shell of another klab process that prepares or launches
  the same node. Such commands are not calm for each other; the effect is that of a lost
  Run.
* An `ip` command whose Exec timed out may still be carried out by the guest later.
* qemu creates a missing tap if it has the right to; the model lets it start with the
  name held.
* Up of the command line prints a Status after it succeeded, which is the action
  StartStatus of a cli that returned.
* Topologies are a constant of Cluster, with their plans; `Lab` relates them to files.
  Why a node is refused is given by its name, so of two nodes of one topology that
  expand to the same name both are refused or neither.
* Reading YAML, quoting shell arguments, base64, wording, colours and logging are left
  out.
* In KernelStore, a `make` that is interrupted leaves objects that the next one rebuilds
  as needed; dependencies in the kernel's own build are not modelled. Nor is a cache
  that somebody removes files from.
* In KernelConfig a build is one step, whose compiler is the one of that moment; the
  hash has no collisions; the value of a symbol is one of three, and a symbol's name a
  number.
* In Setup, what brew and limactl do is the outcomes their exit can leave; in Rootfs, a
  `cp` that is cut short is not modelled (its exit code is dropped, as `createBridge`'s
  is), nor is a command whose file is written half: `install` replaces a file.
* Not modelled: the driver interface and the conformance suite, but for the capabilities
  that `CheckCaps` reads, and the experiment package: they have no behaviour of their
  own. The provisioning of the VM (`scripts/lima/klab.yaml`) and the configuration of
  the CI are data for other programs.

## Plan

1. `Cluster`, `ExecChannel`, `NetPlan`, `KernelStore`, `Readiness`: done, with proofs.
2. `KernelConfig`, `Setup`, `Rootfs`; `Lab`, the composition with `Topology`, and its
   refinement of `LabService`; the proofs of `StaysUp`: done.
3. The proofs of NetPlan and KernelConfig, with the lemmas about sorting and flattening:
   done.
4. Left: the reasons for which Up refuses a node, as a theorem about `RefusalOf` and
   `Lab`.
