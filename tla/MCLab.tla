------------------------------- MODULE MCLab -------------------------------
(* A lab on the plans of a topology file and of an edit of it. *)
EXTENDS Lab, Topology, TLC

CONSTANTS c1, p1, p2, data, wire, none

\* "vm", "vm-0" and "web".
VM == <<7>>
VM0 == <<7, 0>>
Web == <<8>>

LinkNamed(h) == [head |-> h, tail |-> none]
Node(count, mem) ==
    [given |-> TRUE, count |-> count, kernel |-> "bpf", arch |-> "arm64", mem |-> mem]
Wide == [addr |-> 4, ones |-> 2, v6 |-> FALSE]

\* A node on a link without addresses.  The edit gives it a count, hence a new
\* name, moves it to another link, which has a subnet, and adds a node whose
\* memory size is malformed.
Original == [nodes |-> [n \in {VM} |-> Node(0, 512)],
             links |-> <<[name |-> LinkNamed(wire), members |-> <<VM>>, subnet |-> L2Only]>>]
Edited == [nodes |-> [n \in {VM, Web} |-> IF n = VM THEN Node(1, 512) ELSE Node(0, Malformed)],
           links |-> <<[name |-> LinkNamed(data), members |-> <<VM>>, subnet |-> Wide]>>]

\* What Up and Down make of them, written out: TLC would compute it anew in
\* every state.  ComputedFromFiles says that it is what Topology computes.
OnTap(x, br, n, ip) == [name |-> x, bridge |-> br, node |-> n, ip |-> ip]
Versions == {"original", "edited"}
LabPlans ==
    [original |-> [bridges |-> <<wire>>, nodes |-> <<VM>>,
                   taps |-> <<OnTap(1, wire, VM, FALSE)>>],
     edited |-> [bridges |-> <<data>>, nodes |-> <<VM0, Web>>,
                 taps |-> <<OnTap(1, data, VM0, TRUE)>>]]
LabNodes == {VM, VM0, Web}
NoneRefused == [n \in LabNodes |-> "none"]
LabRefusals == [original |-> NoneRefused, edited |-> [NoneRefused EXCEPT ![Web] = "mem"]]

Computes(f, plan, refusals) ==
    \A order \in SetToSeqs(DOMAIN f.nodes) :
        LET insts == Expand(f, order)
            planned == Plan(f, insts)
        IN  /\ ValidNodes(f) /\ ValidLinks(f)
            /\ plan.bridges = planned.bridges
            /\ plan.nodes = [k \in DOMAIN insts |-> insts[k].name]
            /\ plan.taps = [k \in DOMAIN planned.taps |->
                   OnTap(planned.taps[k].name, planned.taps[k].bridge,
                         planned.taps[k].node, planned.taps[k].ip # L2Only)]
            /\ \A inst \in ToSet(insts) :
                   refusals[inst.name] = RefusalOf(f.nodes[inst.base], {"bpf"})
ASSUME ComputedFromFiles ==
    /\ Computes(Original, LabPlans["original"], LabRefusals["original"])
    /\ Computes(Edited, LabPlans["edited"], LabRefusals["edited"])

Sym == Permutations(Pids)
=============================================================================
