-------------------------- MODULE ReadinessProofs --------------------------
(***************************************************************************)
(* Proofs about Readiness and Setup: klab doctor and doctor.sh agree on    *)
(* every machine, whatever its chip, sizes and tools, and setup.sh says    *)
(* that it is done only on one that has what klab needs.                   *)
(*                                                                         *)
(* The reports are compared part by part, as both are put together: the    *)
(* checks of /dev/kvm, those of the Lima instance around them, and those   *)
(* of each kind of machine around these.                                   *)
(***************************************************************************)
EXTENDS Setup, TLAPS

\* Two reports that make the same checks and differ in kvm-ok's answer only.
Alike(d, s, m) ==
    /\ DOMAIN d = DOMAIN s
    /\ \A c \in DOMAIN d : d[c] # s[c] =>
          c = "accel" /\ m.password /\ d[c] = "warn" /\ s[c] = "pass"

LEMMA JoinedAlike ==
    ASSUME NEW d1, NEW d2, NEW s1, NEW s2, NEW m, Alike(d1, s1, m), Alike(d2, s2, m)
    PROVE  Alike(Joined(d1, d2), Joined(s1, s2), m)
  BY DEF Alike, Joined

LEMMA SameAlike == \A r, m : Alike(r, r, m)
  BY DEF Alike

\* Facts tells what the checks look at.
LEMMA FactsOf ==
    ASSUME NEW m \in Machine, NEW f, f = Facts(m)
    PROVE  /\ f.os = m.os /\ f.tools = m.tools
           /\ f.gen = Read(m.gen, 0) /\ f.macos = Read(m.macos, 0)
           /\ f.mem = Read(m.mem, 0) /\ f.disk = Read(m.disk, -1)
           /\ f.lima = (IF "limactl" \in m.tools THEN m.lima ELSE "")
           /\ f.kvm = (Reachable(m) /\ m.kvm)
           /\ f.accel = (Reachable(m) /\ m.kvm /\ m.accel /\ ~m.password)
  BY Zenon DEF Facts

LEMMA KVMAlike ==
    ASSUME NEW m \in Machine, NEW typed \in BOOLEAN, Reachable(m)
    PROVE  Alike(EvalKVM(Facts(m)), KVMChecks(m, typed), m)
  <1> DEFINE f == Facts(m)
  <1>1. f.kvm = m.kvm /\ f.accel = (m.kvm /\ m.accel /\ ~m.password)
    BY FactsOf DEF Machine
  <1> HIDE DEF f
  <1>2. CASE ~m.kvm
    BY <1>1, <1>2, SameAlike DEF EvalKVM, KVMChecks, Machine, f
  <1>3. CASE m.kvm
    <2> DEFINE d == IF f.accel THEN "pass" ELSE "warn"
               s == IF m.accel /\ (m.password => typed) THEN "pass" ELSE "warn"
    <2>1. EvalKVM(f) = [kvm |-> "pass", accel |-> d]
      BY <1>1, <1>3, Zenon DEF EvalKVM, Passes
    <2>2. KVMChecks(m, typed) = [kvm |-> "pass", accel |-> s]
      BY <1>3, Zenon DEF KVMChecks
    <2>3. d # s => m.password /\ d = "warn" /\ s = "pass"
      BY <1>1, <1>3 DEF Machine
    <2> HIDE DEF d, s
    <2>4. Alike([kvm |-> "pass", accel |-> d], [kvm |-> "pass", accel |-> s], m)
      BY <2>3 DEF Alike
    <2> QED
      BY <2>1, <2>2, <2>4 DEF f
  <1> QED
    BY <1>2, <1>3 DEF Machine

LEMMA LimaAlike ==
    ASSUME NEW m \in Machine, NEW typed \in BOOLEAN, "limactl" \in m.tools, m.os = "darwin"
    PROVE  Alike(EvalLimaInstance(Facts(m)), DoctorLimaInstance(m, typed), m)
  <1>1. Facts(m).lima = m.lima
    BY FactsOf
  <1>2. CASE m.lima = "Running"
    <2>1. Alike(EvalKVM(Facts(m)), KVMChecks(m, typed), m)
      BY <1>2, KVMAlike DEF Reachable
    <2>2. /\ EvalLimaInstance(Facts(m)) = Joined([lima |-> "pass"], EvalKVM(Facts(m)))
          /\ DoctorLimaInstance(m, typed) = Joined([lima |-> "pass"], KVMChecks(m, typed))
      BY <1>1, <1>2 DEF EvalLimaInstance, DoctorLimaInstance
    <2> QED
      BY <2>1, <2>2, JoinedAlike, SameAlike
  <1>3. CASE m.lima # "Running"
    BY <1>1, <1>3, SameAlike DEF EvalLimaInstance, DoctorLimaInstance
  <1> QED
    BY <1>2, <1>3

LEMMA DarwinAlike ==
    ASSUME NEW m \in Machine, NEW typed \in BOOLEAN, m.os = "darwin"
    PROVE  Alike(EvalDarwin(Facts(m)), DoctorMacOS(m, typed), m)
  <1> DEFINE f == Facts(m)
             d == [chip |-> Passes(f.gen >= 3, "warn"),
                   macos |-> Passes(f.macos >= 15, "fail"),
                   mem |-> Size(f.mem, 16, 8),
                   disk |-> Passes(f.disk >= 60, "warn"),
                   brew |-> Has(f, "brew"), limactl |-> Has(f, "limactl"), go |-> Has(f, "go")]
             s == [chip |-> IF m.gen = Unknown THEN "warn"
                            ELSE IF m.gen >= 3 THEN "pass" ELSE "warn",
                   macos |-> IF Read(m.macos, 0) >= 15 THEN "pass" ELSE "fail",
                   mem |-> LET mem == Read(m.mem, 0)
                           IN  CASE mem >= 16 -> "pass" [] mem >= 8 /\ mem < 16 -> "warn"
                                 [] OTHER -> "fail",
                   disk |-> IF m.disk = Unknown THEN "warn"
                            ELSE IF m.disk >= 60 THEN "pass" ELSE "warn",
                   brew |-> CheckTool(m, "brew"), limactl |-> CheckTool(m, "limactl"),
                   go |-> CheckTool(m, "go")]
             e == IF "limactl" \in f.tools THEN EvalLimaInstance(f) ELSE NoReport
             t == DoctorLimaInstance(m, typed)
  <1>1. d = s
    <2> DEFINE gen == m.gen mem == Read(m.mem, 0) disk == m.disk
    <2>0. /\ f.gen = Read(gen, 0) /\ f.mem = mem /\ f.disk = Read(disk, -1)
          /\ gen \in Nat \cup {Unknown} /\ mem \in Nat /\ disk \in Nat \cup {Unknown}
          /\ Unknown \notin Int
      BY FactsOf, MachinesAssumption DEF Machine, Read
    <2> HIDE DEF f, gen, mem, disk
    <2>1. d.chip = s.chip
      BY <2>0 DEF Passes, Read, gen
    <2>2. d.macos = s.macos
      BY FactsOf DEF Passes, f
    <2>3. d.mem = s.mem
      BY <2>0 DEF Size, mem
    <2>4. d.disk = s.disk
      BY <2>0 DEF Passes, Read, disk
    <2>5. d.brew = s.brew /\ d.limactl = s.limactl /\ d.go = s.go
      BY FactsOf DEF Has, CheckTool, Passes, f
    <2> QED
      BY <2>1, <2>2, <2>3, <2>4, <2>5
  <1>2. Alike(e, t, m)
    <2>1. CASE "limactl" \in m.tools
      BY <2>1, FactsOf, LimaAlike
    <2>2. CASE "limactl" \notin m.tools
      BY <2>2, FactsOf, SameAlike DEF DoctorLimaInstance
    <2> QED
      BY <2>1, <2>2
  <1>3. EvalDarwin(f) = Joined(d, e) /\ DoctorMacOS(m, typed) = Joined(s, t)
    BY Zenon DEF EvalDarwin, DoctorMacOS
  <1> HIDE DEF d, s, e, t
  <1> QED
    BY <1>1, <1>2, <1>3, JoinedAlike, SameAlike

LEMMA LinuxAlike ==
    ASSUME NEW m \in Machine, NEW typed \in BOOLEAN, m.os = "linux"
    PROVE  Alike(EvalLinux(Facts(m)), DoctorLinux(m, typed), m)
  <1> DEFINE d == [go |-> Has(Facts(m), "go"), qemu |-> Has(Facts(m), "qemu"),
                   clang |-> Has(Facts(m), "clang")]
             s == [go |-> CheckTool(m, "go"), qemu |-> CheckTool(m, "qemu"),
                   clang |-> CheckTool(m, "clang")]
             e == EvalKVM(Facts(m))
             t == KVMChecks(m, typed)
  <1>1. d = s
    BY FactsOf DEF Has, CheckTool, Passes
  <1>2. Alike(e, t, m)
    BY KVMAlike DEF Reachable
  <1>3. EvalLinux(Facts(m)) = Joined(d, e) /\ DoctorLinux(m, typed) = Joined(t, s)
    BY DEF EvalLinux, DoctorLinux
  <1>4. DOMAIN s \cap DOMAIN t = {}
    BY DEF KVMChecks
  <1> HIDE DEF d, s, e, t
  <1>5. Joined(t, s) = Joined(s, t)
    BY <1>4 DEF Joined
  <1> QED
    BY <1>1, <1>2, <1>3, <1>5, JoinedAlike, SameAlike

LEMMA ReportsAlike ==
    ASSUME NEW m \in Machine, NEW typed \in BOOLEAN
    PROVE  Alike(Evaluate(Facts(m)), DoctorScript(m, typed), m)
  <1>1. CASE m.os = "darwin"
    BY <1>1, FactsOf, DarwinAlike DEF Evaluate, DoctorScript
  <1>2. CASE m.os = "linux"
    BY <1>2, FactsOf, LinuxAlike DEF Evaluate, DoctorScript
  <1>3. CASE m.os \notin {"darwin", "linux"}
    BY <1>3, FactsOf, SameAlike DEF Evaluate, DoctorScript
  <1> QED
    BY <1>1, <1>2, <1>3

-----------------------------------------------------------------------------
Reported ==
    /\ machine \in Machine
    /\ doctor # NoReport => doctor = Evaluate(Facts(machine))
    /\ script # NoReport => \E typed \in BOOLEAN : script = DoctorScript(machine, typed)

\* Whatever setup.sh and the user do to the machine, the old reports go with it.
LEMMA BecomeReported ==
    ASSUME Reported, NEW m \in Machine, Become(m)
    PROVE  Reported'
  BY DEF Reported, Become

LEMMA StepReported == Reported /\ SetupNext => Reported'
  <1> SUFFICES ASSUME Reported, SetupNext PROVE Reported'
    OBVIOUS
  <1>1. CASE RunDoctor \/ RunScript
    BY <1>1 DEF Reported, RunDoctor, RunScript
  <1>2. CASE UNCHANGED vars
    BY <1>2 DEF Reported, vars
  <1>3. ASSUME NEW tool \in Tools, Become(With(tool)) PROVE Reported'
    <2>1. With(tool) \in Machine
      BY DEF Reported, With, Machine
    <2> QED
      BY <1>3, <2>1, BecomeReported
  <1>4. ASSUME NEW status \in {"", "Running", "Stopped"},
               Become([machine EXCEPT !.lima = status])
        PROVE  Reported'
    <2>1. [machine EXCEPT !.lima = status] \in Machine
      BY DEF Reported, Machine
    <2> QED
      BY <1>4, <2>1, BecomeReported
  <1>5. CASE StartSetup
    BY <1>2, <1>5 DEF StartSetup
  <1>6. ASSUME NEW tool \in DOMAIN AfterTool, Ensure(tool) PROVE Reported'
    BY <1>2, <1>3, <1>6 DEF Ensure, AfterTool, Tools
  <1>7. CASE StartHost
    <2>1. machine.lima \in {"", "Running", "Stopped"}
      BY DEF Reported, Machine
    <2> QED
      BY <1>2, <1>4, <1>7, <2>1 DEF StartHost
  <1>8. CASE Verify
    BY <1>8 DEF Verify, Reported
  <1>9. CASE HostGoes
    BY <1>4, <1>9 DEF HostGoes
  <1> QED
    BY <1>1, <1>5, <1>6, <1>7, <1>8, <1>9 DEF SetupNext, SetupStep

LEMMA ReportedInv == SetupSpec => []Reported
  <1>1. SetupInit => Reported
    BY MachinesAssumption DEF SetupInit, Init, Reported
  <1>2. Reported /\ UNCHANGED setupVars => Reported'
    BY DEF Reported, setupVars
  <1> QED
    BY <1>1, <1>2, StepReported, PTL DEF SetupSpec

LEMMA BothAlike == Reported /\ Both => Alike(doctor, script, machine)
  BY ReportsAlike DEF Reported, Both

\* On every machine the two implementations make the same checks, and differ in
\* kvm-ok's answer at most.
THEOREM ReadinessInSync == SetupSpec => []InSync
  <1>1. Reported => InSync
    BY BothAlike DEF InSync, Alike
  <1> QED
    BY <1>1, ReportedInv, PTL

\* On every machine they give one verdict.
THEOREM ReadinessVerdict == SetupSpec => []SameVerdict
  <1>1. Reported => SameVerdict
    BY BothAlike DEF SameVerdict, Ready, Alike
  <1> QED
    BY <1>1, ReportedInv, PTL

-----------------------------------------------------------------------------
(* What ready means. *)

LEMMA ReadyJoined ==
    ASSUME NEW d, NEW e, DOMAIN d \cap DOMAIN e = {}
    PROVE  Ready(Joined(d, e)) <=> Ready(d) /\ Ready(e)
  <1>1. /\ DOMAIN Joined(d, e) = DOMAIN d \cup DOMAIN e
        /\ \A c \in DOMAIN d : Joined(d, e)[c] = d[c]
        /\ \A c \in DOMAIN e : Joined(d, e)[c] = e[c]
    BY DEF Joined
  <1> QED
    BY <1>1 DEF Ready

LEMMA ReadyKVM == ASSUME NEW f, f.kvm \in BOOLEAN PROVE Ready(EvalKVM(f)) <=> f.kvm
  <1>1. CASE f.kvm
    <2> DEFINE a == Passes(f.accel, "warn")
    <2>1. EvalKVM(f) = [kvm |-> "pass", accel |-> a] /\ a # "fail"
      BY <1>1, Zenon DEF EvalKVM, Passes
    <2> HIDE DEF a
    <2> QED
      BY <1>1, <2>1 DEF Ready
  <1>2. CASE ~f.kvm
    BY <1>2 DEF EvalKVM, Ready
  <1> QED
    BY <1>1, <1>2

LEMMA ReadyHas == ASSUME NEW f, NEW tool PROVE Has(f, tool) # "fail" <=> tool \in f.tools
  BY DEF Has, Passes

LEMMA ReadyLima ==
    ASSUME NEW m \in Machine, m.os = "darwin", "limactl" \in m.tools
    PROVE  Ready(EvalLimaInstance(Facts(m))) <=> (m.lima = "Running" => m.kvm)
  <1> DEFINE f == Facts(m)
  <1>1. /\ f.lima = m.lima
        /\ m.lima = "Running" => f.kvm = m.kvm /\ m.kvm \in BOOLEAN
    BY FactsOf DEF Reachable, Machine
  <1> HIDE DEF f
  <1>2. CASE m.lima = "Running"
    <2> DEFINE one == [lima |-> "pass"]
    <2>1. EvalLimaInstance(f) = Joined(one, EvalKVM(f))
      BY <1>1, <1>2, Zenon DEF EvalLimaInstance
    <2>2. DOMAIN one \cap DOMAIN EvalKVM(f) = {} /\ Ready(one)
      BY DEF EvalKVM, Ready
    <2> HIDE DEF one
    <2>3. Ready(EvalKVM(f)) <=> f.kvm
      BY <1>1, <1>2, ReadyKVM
    <2> QED
      BY <1>1, <1>2, <2>1, <2>2, <2>3, ReadyJoined DEF f
  <1>3. CASE m.lima # "Running"
    BY <1>1, <1>3 DEF EvalLimaInstance, Ready, f
  <1> QED
    BY <1>2, <1>3

LEMMA ReadyDarwin ==
    ASSUME NEW m \in Machine, m.os = "darwin"
    PROVE  Ready(EvalDarwin(Facts(m))) <=> Needed(m)
  <1> DEFINE f == Facts(m)
             chip == Passes(f.gen >= 3, "warn")
             macos == Passes(f.macos >= 15, "fail")
             mem == Size(f.mem, 16, 8)
             disk == Passes(f.disk >= 60, "warn")
             brew == Has(f, "brew")
             limactl == Has(f, "limactl")
             go == Has(f, "go")
             d == [chip |-> chip, macos |-> macos, mem |-> mem, disk |-> disk,
                   brew |-> brew, limactl |-> limactl, go |-> go]
             e == IF "limactl" \in f.tools THEN EvalLimaInstance(f) ELSE NoReport
  <1>1. EvalDarwin(f) = Joined(d, e)
    BY Zenon DEF EvalDarwin
  <1>2. DOMAIN d \cap DOMAIN e = {}
    BY DEF EvalLimaInstance, EvalKVM, Joined, NoReport
  <1>3. chip # "fail" /\ disk # "fail"
    BY DEF Passes
  <1>4. macos # "fail" <=> m.macos \in Nat /\ m.macos >= 15
    <2>1. f.macos = Read(m.macos, 0) /\ m.macos \in Nat \cup {Unknown} /\ Unknown \notin Int
      BY FactsOf, MachinesAssumption DEF Machine
    <2> HIDE DEF f
    <2>2. f.macos >= 15 <=> m.macos \in Nat /\ m.macos >= 15
      BY <2>1 DEF Read
    <2> QED
      BY <2>2, Zenon DEF Passes, macos
  <1>5. mem # "fail" <=> m.mem \in Nat /\ m.mem >= 8
    <2>1. f.mem = Read(m.mem, 0) /\ m.mem \in Nat \cup {Unknown} /\ Unknown \notin Int
      BY FactsOf, MachinesAssumption DEF Machine
    <2> HIDE DEF f
    <2> QED
      BY <2>1 DEF Read, Size, mem
  <1>6. brew # "fail" /\ limactl # "fail" /\ go # "fail"
        <=> {"brew", "limactl", "go"} \subseteq m.tools
    <2>1. f.tools = m.tools
      BY FactsOf
    <2> HIDE DEF f
    <2> QED
      BY <2>1, ReadyHas
  <1> HIDE DEF chip, macos, mem, disk, brew, limactl, go
  <1>7. Ready(d) <=> /\ chip # "fail" /\ macos # "fail" /\ mem # "fail" /\ disk # "fail"
                     /\ brew # "fail" /\ limactl # "fail" /\ go # "fail"
    BY DEF Ready
  <1>8. "limactl" \in m.tools => (Ready(e) <=> (m.lima = "Running" => m.kvm))
    BY FactsOf, ReadyLima
  <1> HIDE DEF f, d, e
  <1>9. Ready(EvalDarwin(f)) <=> Ready(d) /\ Ready(e)
    BY <1>1, <1>2, ReadyJoined
  <1> QED
    BY <1>3, <1>4, <1>5, <1>6, <1>7, <1>8, <1>9 DEF Needed, f

LEMMA ReadyLinux ==
    ASSUME NEW m \in Machine, m.os = "linux"
    PROVE  Ready(EvalLinux(Facts(m))) <=> Needed(m)
  <1> DEFINE f == Facts(m)
             go == Has(f, "go")
             qemu == Has(f, "qemu")
             clang == Has(f, "clang")
             d == [go |-> go, qemu |-> qemu, clang |-> clang]
  <1>1. EvalLinux(f) = Joined(d, EvalKVM(f))
    BY DEF EvalLinux
  <1>2. DOMAIN d \cap DOMAIN EvalKVM(f) = {}
    BY DEF EvalKVM
  <1>3. go # "fail" /\ qemu # "fail" /\ clang # "fail"
        <=> {"go", "qemu", "clang"} \subseteq m.tools
    <2>1. f.tools = m.tools
      BY FactsOf
    <2> HIDE DEF f
    <2> QED
      BY <2>1, ReadyHas
  <1>4. f.kvm = m.kvm /\ m.kvm \in BOOLEAN
    BY FactsOf DEF Reachable, Machine
  <1> HIDE DEF f, go, qemu, clang
  <1>5. Ready(d) <=> go # "fail" /\ qemu # "fail" /\ clang # "fail"
    BY DEF Ready
  <1>6. Ready(EvalKVM(f)) <=> m.kvm
    BY <1>4, ReadyKVM
  <1> HIDE DEF d
  <1>7. Ready(EvalLinux(f)) <=> Ready(d) /\ Ready(EvalKVM(f))
    BY <1>1, <1>2, ReadyJoined
  <1> QED
    BY <1>3, <1>5, <1>6, <1>7 DEF Needed, f

LEMMA ReadyIff ==
    ASSUME NEW m \in Machine
    PROVE  Ready(Evaluate(Facts(m))) <=> Needed(m)
  <1>1. CASE m.os = "darwin"
    BY <1>1, FactsOf, ReadyDarwin DEF Evaluate
  <1>2. CASE m.os = "linux"
    BY <1>2, FactsOf, ReadyLinux DEF Evaluate
  <1>3. CASE m.os \notin {"darwin", "linux"}
    <2>1. Evaluate(Facts(m)) = [os |-> "fail"]
      BY <1>3, FactsOf DEF Evaluate
    <2>2. ~Ready([os |-> "fail"])
      BY DEF Ready
    <2> QED
      BY <1>3, <2>1, <2>2 DEF Needed
  <1> QED
    BY <1>1, <1>2, <1>3

\* Both call a machine ready if and only if it has what is needed, and that is
\* less than what it takes to run a guest under KVM.
THEOREM WhatReadyMeans == SetupSpec => []ReadyMeansNeeded
  <1>1. Reported /\ Both => (Ready(doctor) <=> Ready(script))
    BY BothAlike DEF Ready, Alike
  <1>2. Reported /\ Both => (Ready(doctor) <=> Needed(machine))
    BY ReadyIff DEF Reported, Both
  <1>3. Reported => ReadyMeansNeeded
    BY <1>1, <1>2 DEF ReadyMeansNeeded
  <1> QED
    BY <1>3, ReportedInv, PTL

-----------------------------------------------------------------------------
(* setup.sh. *)

\* The verdicts of the two judges on one machine.
LEMMA OneVerdict ==
    ASSUME NEW m \in Machine, NEW typed \in BOOLEAN
    PROVE  Ready(Evaluate(Facts(m))) <=> Ready(DoctorScript(m, typed))
  BY ReportsAlike DEF Alike, Ready

\* What the script has seen to when it gets to a step.
Underway ==
    /\ setup \in AtWork \ {"verify"} => machine.os = "darwin"
    /\ setup = "verify" /\ machine.os = "darwin" => machine.lima = "Running"
SetupInv == Reported /\ Underway /\ SetupVerifies

LEMMA StepUnderway == Reported /\ Underway /\ SetupNext => Underway'
  <1> SUFFICES ASSUME Reported, Underway, SetupNext PROVE Underway'
    OBVIOUS
  <1> USE DEF Underway
  <1>1. CASE StartSetup
    BY <1>1 DEF StartSetup, vars, AtWork, Ended
  <1>2. ASSUME NEW tool \in DOMAIN AfterTool, Ensure(tool) PROVE Underway'
    <2>1. /\ machine.os = "darwin"
          /\ setup' \in {"limactl", "go", "host", "died"}
          /\ machine' \in {machine, With(tool)}
      BY <1>2 DEF Ensure, AfterTool, AtWork, Become, vars
    <2>2. machine'.os = "darwin"
      BY <2>1 DEF With, Reported, Machine
    <2> QED
      BY <2>1, <2>2 DEF AtWork
  <1>3. CASE StartHost
    BY <1>3 DEF StartHost, Become, vars, AtWork, Reported, Machine
  <1>4. CASE Verify
    BY <1>4 DEF Verify, AtWork
  <1>5. CASE HostGoes
    BY <1>5 DEF HostGoes, AtWork
  <1>6. CASE (RunDoctor \/ RunScript) /\ UNCHANGED setup
    BY <1>6 DEF RunDoctor, RunScript
  <1> QED
    BY <1>1, <1>2, <1>3, <1>4, <1>5, <1>6 DEF SetupNext, SetupStep

\* Only Verify ends a run with "ok", and it looks at the machine as it is.
LEMMA StepVerifies == SetupInv /\ SetupNext => SetupVerifies'
  <1> SUFFICES ASSUME SetupInv, SetupNext, setup' = "ok"
               PROVE  Complete(machine)' /\ (machine.os = "darwin" => machine.kvm)'
    BY DEF SetupVerifies
  <1>1. CASE Verify
    <2> PICK typed \in BOOLEAN : script' = DoctorScript(machine, typed)
      BY <1>1 DEF Verify
    <2>1. machine' = machine /\ machine \in Machine /\ Ready(script') /\ setup = "verify"
      BY <1>1 DEF Verify, SetupInv, Reported
    <2>2. Ready(Evaluate(Facts(machine)))
      BY <2>1, OneVerdict
    <2>3. ASSUME machine.os = "darwin"
          PROVE  /\ {"brew", "limactl", "go"} \subseteq machine.tools
                 /\ machine.lima = "Running" /\ machine.kvm
      <3>1. machine.lima = "Running"
        BY <2>1, <2>3 DEF SetupInv, Underway
      <3> QED
        BY <2>1, <2>2, <2>3, <3>1, ReadyIff DEF Needed
    <2> QED
      BY <2>1, <2>2, <2>3 DEF Complete
  <1>2. CASE ~Verify
    <2>1. setup = "ok" /\ machine' = machine
      BY <1>2 DEF SetupNext, SetupStep, StartSetup, Ensure, StartHost, HostGoes, RunDoctor,
                  RunScript, AfterTool, Ended
    <2> QED
      BY <2>1 DEF SetupInv, SetupVerifies, Complete
  <1> QED
    BY <1>1, <1>2

LEMMA SetupInvariant == SetupSpec => []SetupInv
  <1>1. SetupInit => Underway /\ SetupVerifies
    BY DEF SetupInit, Underway, SetupVerifies, AtWork
  <1>2. Underway /\ SetupVerifies /\ UNCHANGED setupVars => Underway' /\ SetupVerifies'
    BY DEF Underway, SetupVerifies, Complete, setupVars
  <1>3. Reported /\ Underway /\ SetupVerifies /\ [SetupNext]_setupVars
        => Underway' /\ SetupVerifies'
    BY <1>2, StepUnderway, StepVerifies DEF SetupInv
  <1> QED
    BY <1>1, <1>3, ReportedInv, PTL DEF SetupSpec, SetupInv

\* A setup.sh that says that it is done leaves a machine on which everything is
\* there and klab doctor says ready.
THEOREM SetupVerified == SetupSpec => []SetupVerifies
  BY SetupInvariant, PTL DEF SetupInv

\* Run again on a machine that has everything, it changes nothing and succeeds.
THEOREM SetupRerun == SetupSpec => SafeToRerun
  <1> DEFINE Quiet == Complete(machine) /\ setup \in AtWork /\ setup' # setup =>
                         machine' = machine /\ setup' \in AtWork \cup {"ok"}
  <1>1. SetupInv /\ SetupNext => Quiet
    <2> SUFFICES ASSUME SetupInv, SetupNext, Complete(machine), setup \in AtWork, setup' # setup
                 PROVE  machine' = machine /\ setup' \in AtWork \cup {"ok"}
      OBVIOUS
    <2>1. ASSUME NEW tool \in DOMAIN AfterTool, Ensure(tool)
          PROVE  machine' = machine /\ setup' \in AtWork
      <3>1. machine.os = "darwin"
        BY <2>1 DEF SetupInv, Underway, Ensure, AfterTool, AtWork
      <3>2. tool \in machine.tools
        BY <3>1 DEF Complete, AfterTool
      <3> QED
        BY <2>1, <3>2 DEF Ensure, vars, AfterTool, AtWork
    <2>2. CASE StartHost
      <3>1. "limactl" \in machine.tools /\ machine.lima = "Running"
        BY <2>2 DEF SetupInv, Underway, StartHost, AtWork, Complete
      <3> QED
        BY <2>2, <3>1 DEF StartHost, vars, AtWork
    <2>3. CASE Verify
      <3> PICK typed \in BOOLEAN : script' = DoctorScript(machine, typed)
        BY <2>3 DEF Verify
      <3>1. Ready(script')
        BY OneVerdict DEF Complete, SetupInv, Reported
      <3> QED
        BY <2>3, <3>1 DEF Verify
    <2> QED
      BY <2>1, <2>2, <2>3 DEF SetupNext, SetupStep, StartSetup, HostGoes, Ended, AtWork
  <1>2. SetupInv /\ [SetupNext]_setupVars => [Quiet]_setupVars
    BY <1>1 DEF setupVars
  <1> QED
    BY <1>2, SetupInvariant, PTL DEF SetupSpec, SafeToRerun
=============================================================================
