---------------------------- MODULE ExecService ----------------------------
(***************************************************************************)
(* What the qemu driver's Exec promises its caller, without the files: a   *)
(* call's command runs at most once, a call that returns an answer had its *)
(* command run, and a call that fails says nothing about its command,      *)
(* which may have run or may yet run.  Every call returns.                 *)
(*                                                                         *)
(* Calls are told apart by readings of a clock.  Calls that got the same   *)
(* one are mixed: such a call may be given an answer before its command    *)
(* runs, but its command still runs once at most.                          *)
(***************************************************************************)
CONSTANT Calls

VARIABLES status, \* call |-> where it is
          done,   \* the calls whose command ran
          mixed   \* the calls that are not told from another

vars == <<status, done, mixed>>

TypeOK ==
    /\ status \in [Calls -> {"new", "waiting", "answered", "failed"}]
    /\ done \subseteq Calls
    /\ mixed \subseteq Calls

Init == status = [c \in Calls |-> "new"] /\ done = {} /\ mixed = {}

\* A call begins; it is not told from the calls in D.
Call(c) ==
    /\ status[c] = "new"
    /\ status' = [status EXCEPT ![c] = "waiting"]
    /\ \E D \in SUBSET {d \in Calls \ {c} : status[d] # "new"} :
          mixed' = IF D = {} THEN mixed ELSE mixed \cup D \cup {c}
    /\ UNCHANGED done

Run(c) ==
    /\ status[c] # "new" /\ (status[c] = "answered" => c \in mixed)
    /\ c \notin done
    /\ done' = done \cup {c}
    /\ UNCHANGED <<status, mixed>>

Answer(c) ==
    /\ status[c] = "waiting" /\ c \in done \cup mixed
    /\ status' = [status EXCEPT ![c] = "answered"]
    /\ UNCHANGED <<done, mixed>>

GiveUp(c) ==
    /\ status[c] = "waiting"
    /\ status' = [status EXCEPT ![c] = "failed"]
    /\ UNCHANGED <<done, mixed>>

Return(c) == Answer(c) \/ GiveUp(c)
Next == \E c \in Calls : Call(c) \/ Run(c) \/ Return(c)

Spec == Init /\ [][Next]_vars /\ \A c \in Calls : WF_vars(Return(c))
=============================================================================
