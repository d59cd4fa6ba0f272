------------------------------- MODULE Setup -------------------------------
(***************************************************************************)
(* scripts/setup.sh, which makes a machine ready for klab: it installs     *)
(* what is missing, starts the Lima instance, and lets doctor.sh judge the *)
(* result (module Readiness).  Installations and limactl may fail half     *)
(* way, the user may stop or delete the instance between two runs, and     *)
(* "klab doctor" and doctor.sh may be asked at any time.                   *)
(***************************************************************************)
EXTENDS Readiness

VARIABLE setup      \* its next step, or how its last run ended
setupVars == <<machine, doctor, script, setup>>

AtWork == {"brew", "limactl", "go", "host", "verify"}
Ended == {"new", "ok", "issues", "died"}
AfterTool == [brew |-> "limactl", limactl |-> "go", go |-> "host"]

SetupInit == Init /\ setup = "new"

-----------------------------------------------------------------------------
\* A report on the machine as it was says nothing of the changed one.
Become(m) ==
    /\ machine' = m
    /\ doctor' = (IF m = machine THEN doctor ELSE NoReport)
    /\ script' = (IF m = machine THEN script ELSE NoReport)
With(tool) == [machine EXCEPT !.tools = @ \cup {tool}]

StartSetup ==
    /\ setup \in Ended
    /\ setup' = CASE machine.os = "darwin" -> "brew"
                  [] machine.os = "linux" -> "verify"
                  [] OTHER -> "died"
    /\ UNCHANGED vars

\* ensure_brew and ensure_brew_pkg.  What is missing gets installed, or the
\* script dies: --no-install, nobody confirms, the installation fails.  That the
\* command is found afterwards is looked at for brew only.
Ensure_Always(tool) ==
    /\ setup = tool
    /\ \/ setup' = AfterTool[tool] /\ Become(With(tool))
       \/ setup' = "died" /\ UNCHANGED vars
       \/ tool # "brew" /\ setup' = AfterTool[tool] /\ UNCHANGED vars
Ensure(tool) ==
    /\ setup = tool
    /\ IF tool \in machine.tools
       THEN setup' = AfterTool[tool] /\ UNCHANGED vars
       ELSE \/ setup' = AfterTool[tool] /\ Become(With(tool))
            \/ setup' = "died" /\ UNCHANGED vars
            \/ tool # "brew" /\ setup' = AfterTool[tool] /\ UNCHANGED vars

\* An instance that runs is reused, one that does not is started, one that does
\* not exist is created.  A start that fails, or runs out of time, may leave the
\* instance in any state.
StartHost_Exists ==
    /\ setup = "host"
    /\ IF "limactl" \in machine.tools /\ machine.lima # ""
       THEN setup' = "verify" /\ UNCHANGED vars
       ELSE \/ setup' = "died" /\ UNCHANGED vars
            \/ /\ "limactl" \in machine.tools
               /\ setup' = "verify" /\ Become([machine EXCEPT !.lima = "Running"])
StartHost ==
    /\ setup = "host"
    /\ \/ /\ "limactl" \notin machine.tools
          /\ setup' = "died" /\ UNCHANGED vars
       \/ /\ "limactl" \in machine.tools /\ machine.lima = "Running"
          /\ setup' = "verify" /\ UNCHANGED vars
       \/ /\ "limactl" \in machine.tools /\ machine.lima # "Running"
          /\ \/ setup' = "verify" /\ Become([machine EXCEPT !.lima = "Running"])
             \/ /\ setup' = "died"
                /\ \E status \in {machine.lima, "Running", "Stopped"} :
                      Become([machine EXCEPT !.lima = status])

Verify ==
    /\ setup = "verify"
    /\ \E typed \in BOOLEAN : script' = DoctorScript(machine, typed)
    /\ setup' = IF Ready(script') THEN "ok" ELSE "issues"
    /\ UNCHANGED <<machine, doctor>>

\* The user stops or deletes the instance.
HostGoes ==
    /\ setup \in Ended /\ machine.lima # ""
    /\ \E status \in {"", "Stopped"} : Become([machine EXCEPT !.lima = status])
    /\ setup' = "new"

SetupStep == StartSetup \/ (\E tool \in DOMAIN AfterTool : Ensure(tool)) \/ StartHost \/ Verify
SetupNext ==
    \/ SetupStep \/ HostGoes
    \/ (RunDoctor \/ RunScript) /\ UNCHANGED setup
SetupSpec == SetupInit /\ [][SetupNext]_setupVars

-----------------------------------------------------------------------------
(* Properties. *)

\* What there is to set up on a machine.
Complete(m) ==
    /\ m.os = "darwin" => {"brew", "limactl", "go"} \subseteq m.tools /\ m.lima = "Running"
    /\ Ready(Evaluate(Facts(m)))

\* When setup.sh says that it is done, everything is there, the instance runs
\* with its /dev/kvm (setup.sh:4-6), and "klab doctor", the other judge, says
\* ready, although no step looks whether an installed command is found, and
\* doctor.sh calls a machine ready whose instance does not run.
SetupVerifies ==
    setup = "ok" => /\ Complete(machine)
                    /\ machine.os = "darwin" => machine.kvm

\* It is "idempotent - safe to re-run" (setup.sh:6): on a machine that has
\* everything no step changes a thing, and none makes the run fail.
SafeToRerun ==
    [][Complete(machine) /\ setup \in AtWork /\ setup' # setup =>
          machine' = machine /\ setup' \in AtWork \cup {"ok"}]_setupVars
=============================================================================
