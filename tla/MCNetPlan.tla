----------------------------- MODULE MCNetPlan -----------------------------
(* The topology files NetPlan is checked on. *)
EXTENDS NetPlan

CONSTANTS data, datb, long1, long2, none

\* "a", "a-0" and, no file having it, "b".
A == <<1>>
A0 == <<1, 0>>
B == <<2>>

\* Two link names that are the same to the tenth character, and another one.
LinkName(h, t) == [head |-> h, tail |-> t]
Name1 == LinkName(data, long1)
Name2 == LinkName(data, long2)
Name3 == LinkName(datb, none)

SubnetOf(addr, ones, v6) == [addr |-> addr, ones |-> ones, v6 |-> v6]
Wide == SubnetOf(3, 1, FALSE)     \* 14 hosts of addresses of 5 bits
Tight == SubnetOf(12, 3, FALSE)   \* 2 hosts
Final == SubnetOf(30, 3, FALSE)    \* 2 hosts, at the end of the address space
Six == SubnetOf(3, 1, TRUE)

MCUnnamed == LinkName(none, none)
Node(given, count) == [given |-> given, count |-> count]
NodeMaps(counts) ==
    UNION {[S -> {Node(TRUE, k) : k \in counts}] : S \in SUBSET {A, A0}}
Link(name, members, subnet) == [name |-> name, members |-> members, subnet |-> subnet]
FilesOf(nodeMaps, firsts, seconds) ==
    [nodes : nodeMaps, links : {<<>>} \cup {<<l>> : l \in firsts}
                               \cup {<<l, m>> : l \in firsts, m \in seconds}]

Lists == {<<A>>, <<A0>>, <<A, A0>>, <<A, A>>}
Legal == FilesOf(NodeMaps({0, 1, 2}),
                 {Link(Name1, ms, s) : ms \in Lists, s \in {L2Only, Wide, Tight, Final}},
                 {Link(n, ms, s) : n \in {Name2, Name3}, ms \in Lists, s \in {Wide, Final, Six}})
Illegal == FilesOf({[n \in {A} |-> Node(TRUE, k)] : k \in {-1, 1}}
                     \cup {[n \in {A} |-> Node(FALSE, 1)]},
                   {Link(n, ms, s) : n \in {Name1, MCUnnamed},
                                     ms \in {<<>>, <<A>>, <<B>>}, s \in {Wide, Malformed}},
                   {Link(Name1, <<A>>, Wide)})
AllFiles == Legal \cup Illegal
=============================================================================
