------------------------------ MODULE Topology ------------------------------
(***************************************************************************)
(* What a topology file stands for: Load's validation and Expand           *)
(* (internal/topology/topology.go), Plan (internal/runner/plan.go), and    *)
(* the reasons for which Up refuses a node (internal/runner/runner.go).    *)
(* All of them are pure: this module has operators only.                   *)
(*                                                                         *)
(* A node's name is a sequence of words, numbers here: "agent-0" is the    *)
(* name "agent" with a word appended.  A link's name is split where the    *)
(* device name "klbr-..." is cut off, at its tenth character.  An address  *)
(* is a number of AddrBits bits.                                           *)
(***************************************************************************)
EXTENDS Integers, FiniteSets, Sorting

CONSTANTS
    AddrBits,   \* width of an IPv4 address (32 in the code)
    MacBits,    \* width of the part of a MAC that numbers it (24 in the code)
    Unnamed,    \* a link without a name
    L2Only, Malformed  \* a link without a subnet, one that is no CIDR

(***************************************************************************)
(* A file is a record: "nodes" maps a node's name to whether its driver and*)
(* architecture are given, its count, and its kernel, architecture and     *)
(* memory size; "links" is a sequence of records of a name [head, tail],   *)
(* its members, and its subnet [addr, ones, v6].                           *)
(***************************************************************************)
ASSUME WidthsAssumption == AddrBits \in Nat \ {0} /\ MacBits \in Nat \ {0}

-----------------------------------------------------------------------------
(* Validate. *)

LinkNames(f) == [j \in DOMAIN f.links |-> f.links[j].name]
ValidNodes(f) ==
    /\ DOMAIN f.nodes # {}
    /\ \A n \in DOMAIN f.nodes : f.nodes[n].given /\ f.nodes[n].count >= 0
ValidLinks(f) ==
    /\ Unnamed \notin ToSet(LinkNames(f)) /\ IsInjective(LinkNames(f))
    /\ \A l \in ToSet(f.links) :
          /\ l.members # <<>> /\ ToSet(l.members) \subseteq DOMAIN f.nodes
          /\ l.subnet # Malformed

-----------------------------------------------------------------------------
(* Expand. *)

\* The order of strings, on names.
Before(a, b) ==
    \E k \in DOMAIN b : /\ \A j \in 1..(k - 1) : j \in DOMAIN a /\ a[j] = b[j]
                        /\ k \in DOMAIN a => a[k] < b[k]
SortedNames_Not(names) == names
SortedNames(names) ==
    Sorted(names, {ab \in ToSet(names) \X ToSet(names) : Before(ab[1], ab[2])})

\* The number a MAC carries; mac and macFor are the same.
Mac_Byte(seq) == seq % 2
Mac(seq) == seq % 2^MacBits

\* A node without a count keeps its name, any other is numbered.
Copies(f, n) ==
    LET count == f.nodes[n].count
    IN  IF count < 1 THEN <<[name |-> n, base |-> n]>>
        ELSE [i \in 1..count |-> [name |-> Append(n, i - 1), base |-> n]]

\* The map of nodes is ranged over in the given order.
Expand(f, order) ==
    LET names == SortedNames(order)
        all == FlattenSeq([k \in DOMAIN names |-> Copies(f, names[k])])
    IN  [k \in DOMAIN all |-> [name |-> all[k].name, base |-> all[k].base, mac |-> Mac(k)]]

-----------------------------------------------------------------------------
(* Plan. *)

\* "klbr-" and the name, cut to 15 characters.
BridgeName(l) == l.name.head

InstancesOf_Last(insts, n) ==
    LET own == {k \in DOMAIN insts : insts[k].base = n}
    IN  IF own = {} THEN <<>> ELSE <<insts[CHOOSE k \in own : \A j \in own : j <= k]>>
InstancesOf(insts, n) ==
    FlattenSeq([k \in DOMAIN insts |-> IF insts[k].base = n THEN <<insts[k]>> ELSE <<>>])
Members(insts, l) ==
    FlattenSeq([m \in DOMAIN l.members |-> InstancesOf(insts, l.members[m])])

\* addToIPv4: base + n, in the width of an address; of an IPv6 base it is base.
Network(s) == s.addr - (s.addr % 2^(AddrBits - s.ones))
Address_FromZero(s, i) ==
    IF s.v6 THEN Network(s) ELSE (Network(s) + (i - 1)) % 2^AddrBits
Address(s, i) ==
    IF s.v6 THEN Network(s) ELSE (Network(s) + i) % 2^AddrBits

TapsOnLink(insts, l) ==
    LET members == Members(insts, l)
    IN  [i \in DOMAIN members |->
            [bridge |-> BridgeName(l), node |-> members[i].name,
             ip |-> IF l.subnet = L2Only THEN L2Only ELSE Address(l.subnet, i)]]

\* Plan, which returns no plan for a subnet it cannot parse.  The k-th tap is
\* klabtap<k>.
NoPlan == [bridges |-> <<>>, taps |-> <<>>, err |-> TRUE]
Plan(f, insts) ==
    LET taps == FlattenSeq([j \in DOMAIN f.links |-> TapsOnLink(insts, f.links[j])])
    IN  IF \E l \in ToSet(f.links) : l.subnet = Malformed THEN NoPlan
        ELSE [bridges |-> [j \in DOMAIN f.links |-> BridgeName(f.links[j])],
              taps |-> [k \in DOMAIN taps |->
                  [name |-> k, mac |-> Mac(k), bridge |-> taps[k].bridge,
                   node |-> taps[k].node, ip |-> taps[k].ip]],
              err |-> FALSE]

-----------------------------------------------------------------------------
(* What Up needs of a node besides. *)

\* qemu's Capabilities; whatever driver a node names, qemu boots it.
QemuCaps == [customKernel |-> TRUE, arches |-> {"arm64"}]
CheckCaps(n, caps) ==
    /\ n.kernel # "" => caps.customKernel
    /\ n.arch \in caps.arches

\* Why Up refuses node n, when the kernels in "built" are there, if it does: in
\* the order in which it looks.  A memory size is a number or Malformed.
RefusalOf(n, built) ==
    IF n.kernel \notin built THEN "image"
    ELSE IF ~CheckCaps(n, QemuCaps) THEN "caps"
    ELSE IF n.mem = Malformed THEN "mem"
    ELSE "none"
=============================================================================
