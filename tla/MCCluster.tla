----------------------------- MODULE MCCluster -----------------------------
(* Instances of Cluster for model checking. *)
EXTENDS Cluster, TLC

CONSTANTS c1, c2,            \* klab processes
          pair, wire, solo,  \* topologies
          n1, n2, n3,        \* nodes
          br1, t1, t2,       \* devices
          p1, p2             \* process ids

OnTap(x, br, n, ip) == [name |-> x, bridge |-> br, node |-> n, ip |-> ip]

\* Two nodes on one link with a subnet, like examples/topologies/dual.yaml.
PairPlan == [bridges |-> <<br1>>, nodes |-> <<n1, n2>>,
             taps |-> <<OnTap(t1, br1, n1, TRUE), OnTap(t2, br1, n2, TRUE)>>]
\* One node on a link without a subnet.
WirePlan == [bridges |-> <<br1>>, nodes |-> <<n1>>, taps |-> <<OnTap(t1, br1, n1, FALSE)>>]
\* One node without links, like examples/topologies/single.yaml.
SoloPlan == [bridges |-> <<>>, nodes |-> <<n3>>, taps |-> <<>>]

PairAndSolo == (pair :> PairPlan) @@ (solo :> SoloPlan)
SoloOnly == [t \in {solo} |-> SoloPlan]
WireAndSolo == (wire :> WirePlan) @@ (solo :> SoloPlan)

NoneRefused == [t \in Topos |-> [n \in Nodes |-> "none"]]
ImageOfN3 == [t \in Topos |-> [n \in Nodes |-> IF n = n3 THEN "image" ELSE "none"]]

Sym == Permutations(Clis) \cup Permutations(Pids)
=============================================================================
