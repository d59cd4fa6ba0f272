----------------------------- MODULE Readiness -----------------------------
(***************************************************************************)
(* Is this machine ready for klab?  The question is answered twice, by     *)
(* "klab doctor" (internal/host), which first gathers facts and then       *)
(* judges them, and before that program exists by scripts/doctor.sh, which *)
(* judges as it goes.  Comments on both sides ask to keep the two in sync. *)
(* A report says of every check what came out of it; a check that was not  *)
(* made is in no report's domain.                                          *)
(***************************************************************************)
EXTENDS Integers

CONSTANTS
    Machines,   \* the machines explored, records of the type Machine
    Unknown     \* a number that cannot be read

(***************************************************************************)
(* "gen" is the number after "Apple M" in the chip's name, "lima" what     *)
(* limactl prints of the instance, "kvm" whether /dev/kvm is there, inside *)
(* the instance on a Mac, and "accel" what kvm-ok says when it is run as   *)
(* root, which sudo may want a password for.                               *)
(***************************************************************************)
Tools == {"brew", "limactl", "go", "qemu", "clang"}
Machine ==
    [os : {"darwin", "linux", "other"}, gen : Nat \cup {Unknown}, macos : Nat \cup {Unknown},
     mem : Nat \cup {Unknown}, disk : Nat \cup {Unknown}, tools : SUBSET Tools,
     lima : {"", "Running", "Stopped"}, kvm : BOOLEAN, accel : BOOLEAN, password : BOOLEAN]
ASSUME MachinesAssumption == Unknown \notin Int /\ Machines \subseteq Machine

VARIABLES machine, doctor, script  \* the machine, and the reports on it
vars == <<machine, doctor, script>>

NoReport == [c \in {} |-> "pass"]
Ready(report) == \A c \in DOMAIN report : report[c] # "fail"

Passes(ok, otherwise) == IF ok THEN "pass" ELSE otherwise
Joined(f, g) == [c \in DOMAIN f \cup DOMAIN g |-> IF c \in DOMAIN f THEN f[c] ELSE g[c]]

-----------------------------------------------------------------------------
(* klab doctor: Probe. *)

\* out and Atoi make 0 of what cannot be read, freeDiskGiB makes -1 of it.
Read(n, default) == IF n = Unknown THEN default ELSE n

\* What needs limactl, a running instance or /dev/kvm to be asked stays zero.
Reachable(m) == m.os = "linux" \/ ("limactl" \in m.tools /\ m.lima = "Running")
Facts(m) ==
    [os |-> m.os, gen |-> Read(m.gen, 0), macos |-> Read(m.macos, 0),
     mem |-> Read(m.mem, 0), disk |-> Read(m.disk, -1), tools |-> m.tools,
     lima |-> IF "limactl" \in m.tools THEN m.lima ELSE "",
     kvm |-> Reachable(m) /\ m.kvm,
     accel |-> Reachable(m) /\ m.kvm /\ m.accel /\ ~m.password]

-----------------------------------------------------------------------------
(* klab doctor: Evaluate. *)

Size_Above(n, enough, least) ==
    IF n > enough THEN "pass" ELSE IF n > least THEN "warn" ELSE "fail"
Size(n, enough, least) ==
    IF n >= enough THEN "pass" ELSE IF n >= least THEN "warn" ELSE "fail"
Has(f, tool) == Passes(tool \in f.tools, "fail")

EvalKVM_Warns(f) ==
    IF f.kvm THEN [kvm |-> "pass", accel |-> Passes(f.accel, "warn")]
    ELSE [kvm |-> "warn"]
EvalKVM(f) ==
    IF f.kvm THEN [kvm |-> "pass", accel |-> Passes(f.accel, "warn")]
    ELSE [kvm |-> "fail"]
EvalLimaInstance_Needed(f) ==
    IF f.lima = "Running" THEN Joined([lima |-> "pass"], EvalKVM(f)) ELSE [lima |-> "fail"]
EvalLimaInstance(f) ==
    IF f.lima = "Running" THEN Joined([lima |-> "pass"], EvalKVM(f)) ELSE [lima |-> "warn"]
EvalDarwin(f) ==
    Joined([chip |-> Passes(f.gen >= 3, "warn"),
            macos |-> Passes(f.macos >= 15, "fail"),
            mem |-> Size(f.mem, 16, 8),
            disk |-> Passes(f.disk >= 60, "warn"),
            brew |-> Has(f, "brew"), limactl |-> Has(f, "limactl"), go |-> Has(f, "go")],
           IF "limactl" \in f.tools THEN EvalLimaInstance(f) ELSE NoReport)
EvalLinux(f) ==
    Joined([go |-> Has(f, "go"), qemu |-> Has(f, "qemu"), clang |-> Has(f, "clang")],
           EvalKVM(f))
Evaluate(f) ==
    CASE f.os = "darwin" -> EvalDarwin(f)
      [] f.os = "linux" -> EvalLinux(f)
      [] OTHER -> [os |-> "fail"]

-----------------------------------------------------------------------------
(* scripts/doctor.sh, for each outcome of asking for a password: typed in, or *)
(* nobody there to ask.                                                      *)

CheckTool(m, tool) == IF tool \in m.tools THEN "pass" ELSE "fail"
KVMChecks(m, typed) ==
    IF ~m.kvm THEN [kvm |-> "fail"]
    ELSE [kvm |-> "pass",
          accel |-> IF m.accel /\ (m.password => typed) THEN "pass" ELSE "warn"]
DoctorLimaInstance(m, typed) ==
    CASE "limactl" \notin m.tools -> NoReport
      [] "limactl" \in m.tools /\ m.lima # "Running" -> [lima |-> "warn"]
      [] OTHER -> Joined([lima |-> "pass"], KVMChecks(m, typed))
DoctorMacOS(m, typed) ==
    Joined([chip |-> IF m.gen = Unknown THEN "warn"
                     ELSE IF m.gen >= 3 THEN "pass" ELSE "warn",
            macos |-> IF Read(m.macos, 0) >= 15 THEN "pass" ELSE "fail",
            mem |-> LET mem == Read(m.mem, 0)
                    IN  CASE mem >= 16 -> "pass" [] mem >= 8 /\ mem < 16 -> "warn"
                          [] OTHER -> "fail",
            disk |-> IF m.disk = Unknown THEN "warn"
                     ELSE IF m.disk >= 60 THEN "pass" ELSE "warn",
            brew |-> CheckTool(m, "brew"), limactl |-> CheckTool(m, "limactl"),
            go |-> CheckTool(m, "go")],
           DoctorLimaInstance(m, typed))
DoctorLinux(m, typed) ==
    Joined(KVMChecks(m, typed),
           [go |-> CheckTool(m, "go"), qemu |-> CheckTool(m, "qemu"),
            clang |-> CheckTool(m, "clang")])
DoctorScript(m, typed) ==
    CASE m.os = "darwin" -> DoctorMacOS(m, typed)
      [] m.os = "linux" -> DoctorLinux(m, typed)
      [] OTHER -> [os |-> "fail"]

-----------------------------------------------------------------------------
Init == machine \in Machines /\ doctor = NoReport /\ script = NoReport

RunDoctor ==
    /\ doctor = NoReport
    /\ doctor' = Evaluate(Facts(machine))
    /\ UNCHANGED <<machine, script>>
RunScript ==
    /\ script = NoReport
    /\ \E typed \in BOOLEAN : script' = DoctorScript(machine, typed)
    /\ UNCHANGED <<machine, doctor>>

-----------------------------------------------------------------------------
(* Properties. *)

Both == doctor # NoReport /\ script # NoReport

\* The two implementations make the same checks and, of each, think the same
\* (host.go:10-12, doctor.sh:8-10), except that "klab doctor" runs sudo with -n
\* and so has no answer from kvm-ok where the script may get a password.
InSync == Both =>
    /\ DOMAIN doctor = DOMAIN script
    /\ \A c \in DOMAIN doctor :
          doctor[c] # script[c] =>
              c = "accel" /\ machine.password /\ doctor[c] = "warn"

\* Whatever was typed, both give the same verdict, on which setup.sh and "klab
\* doctor" exit.
SameVerdict == Both => (Ready(doctor) <=> Ready(script))

\* What "ready" means: every tool is there, and on Linux /dev/kvm; on a Mac
\* macOS 15 and 8 GiB, both of them read, and /dev/kvm if the instance runs.
\* Nothing else keeps a machine from being called ready: with an instance that is
\* stopped or was never made /dev/kvm is not asked for, and a chip or a disk that
\* cannot be read, or is too small, only warns.
Needed(m) ==
    \/ /\ m.os = "linux"
       /\ {"go", "qemu", "clang"} \subseteq m.tools /\ m.kvm
    \/ /\ m.os = "darwin"
       /\ {"brew", "limactl", "go"} \subseteq m.tools
       /\ m.macos \in Nat /\ m.macos >= 15
       /\ m.mem \in Nat /\ m.mem >= 8
       /\ m.lima = "Running" => m.kvm
ReadyMeansNeeded == Both =>
    /\ Ready(doctor) <=> Needed(machine)
    /\ Ready(script) <=> Needed(machine)
=============================================================================
