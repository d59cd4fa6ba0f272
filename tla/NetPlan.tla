------------------------------ MODULE NetPlan ------------------------------
(***************************************************************************)
(* Up and Down are different processes that each compute the devices and   *)
(* nodes of a topology from its file (module Topology), and have nothing   *)
(* but the result to agree on, while Go ranges over the map of nodes in an *)
(* order of its own each time.                                             *)
(***************************************************************************)
EXTENDS Topology

CONSTANT Files      \* the topology files explored

Subnet == [addr : 0..(2^AddrBits - 1), ones : 0..AddrBits, v6 : BOOLEAN]
ASSUME FilesAssumption ==
    \A f \in Files :
       /\ IsFiniteSet(DOMAIN f.nodes) /\ DOMAIN f.nodes \subseteq Seq(Nat)
       /\ \A n \in DOMAIN f.nodes : f.nodes[n].count \in Int
       /\ f.links \in Seq(ToSet(f.links))
       /\ \A l \in ToSet(f.links) :
             l.members \in Seq(Seq(Nat)) /\ l.subnet \in Subnet \cup {L2Only, Malformed}

VARIABLES
    file,   \* the topology file
    stage,  \* "file", then "rejected" or "loaded", "up" and "down"
    made,   \* what Up expanded and planned
    gone    \* what Down did

vars == <<file, stage, made, gone>>

-----------------------------------------------------------------------------
Nothing == [insts |-> <<>>, plan |-> NoPlan]
Computed(insts) == [insts |-> insts, plan |-> Plan(file, insts)]
Orders == SetToSeqs(DOMAIN file.nodes)

Init == file \in Files /\ stage = "file" /\ made = Nothing /\ gone = Nothing

Load == /\ stage = "file"
        /\ stage' = IF ValidNodes(file) /\ ValidLinks(file) THEN "loaded" ELSE "rejected"
        /\ UNCHANGED <<file, made, gone>>
Up == /\ stage = "loaded"
      /\ stage' = "up"
      /\ \E order \in Orders : made' = Computed(Expand(file, order))
      /\ UNCHANGED <<file, gone>>
Down == /\ stage = "up"
        /\ stage' = "down"
        /\ \E order \in Orders : gone' = Computed(Expand(file, order))
        /\ UNCHANGED <<file, made>>

Next == Load \/ Up \/ Down
Spec == Init /\ [][Next]_vars

-----------------------------------------------------------------------------
(* Properties. *)

Planned == stage \in {"up", "down"}
Taps == made.plan.taps

\* Down, another process that ranges over the map of nodes in another order,
\* stops the instances and deletes the devices that Up made, in Up's order
\* (topology.go:100, "the same topology always yields the same instances").
DownSeesWhatUpMade == stage = "down" => gone = made

\* The taps of one link: Plan makes them link by link.
LinkTaps(j) ==
    LET first == Len(FlattenSeq([i \in 1..(j - 1) |->
                                    Members(made.insts, file.links[i])]))
    IN  SubSeq(Taps, first + 1, first + Len(Members(made.insts, file.links[j])))

\* What Load accepts can be planned, which Down relies on (cluster.go:91 drops
\* Plan's error and uses its plan).  Each link has a tap for each instance of each
\* member, as often as the link lists the member, and on its bridge are these and
\* those of the links whose names agree with its name in the first ten characters:
\* such links are one segment, against plan.go:11, "one Linux bridge per link".
Listed(j, name) ==
    {t \in (DOMAIN file.links[j].members) \X (DOMAIN made.insts) :
        /\ made.insts[t[2]].name = name
        /\ file.links[j].members[t[1]] = made.insts[t[2]].base}
Segment(j) == {i \in DOMAIN file.links : file.links[i].name.head = file.links[j].name.head}
PlansWhatItAccepts == Planned =>
    /\ ~made.plan.err
    /\ \A n \in UNION {ToSet(l.members) : l \in ToSet(file.links)} :
          \E inst \in ToSet(made.insts) : inst.base = n
    /\ \A j \in DOMAIN file.links, inst \in ToSet(made.insts) :
          Cardinality({k \in DOMAIN LinkTaps(j) : LinkTaps(j)[k].node = inst.name})
          = Cardinality(Listed(j, inst.name))
    /\ \A j \in DOMAIN file.links :
          {k \in DOMAIN Taps : Taps[k].bridge = made.plan.bridges[j]}
          = UNION {{t.name : t \in ToSet(LinkTaps(i))} : i \in Segment(j)}

\* No two interfaces have the same MAC (driver.go:49, "a unique MAC per node is
\* required"), up to the number of MACs there are.
DistinctMacs == Planned /\ Len(Taps) <= 2^MacBits =>
    \A j, k \in DOMAIN Taps : Taps[j].mac = Taps[k].mac => j = k

\* The members of a link whose IPv4 subnet has room for them get addresses of
\* the subnet, each its own, and none that of the network or the broadcast.
Hosts(s) == {Network(s) + i : i \in 1..(2^(AddrBits - s.ones) - 2)}
UsableAddresses == Planned =>
    \A j \in DOMAIN file.links :
       LET s == file.links[j].subnet
           ips == [k \in DOMAIN LinkTaps(j) |-> LinkTaps(j)[k].ip]
       IN  s # L2Only /\ ~s.v6 /\ Len(ips) <= Cardinality(Hosts(s)) =>
              IsInjective(ips) /\ ToSet(ips) \subseteq Hosts(s)
=============================================================================
