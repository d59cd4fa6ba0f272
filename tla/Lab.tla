-------------------------------- MODULE Lab --------------------------------
(***************************************************************************)
(* A host over its whole life: Cluster, with the account of who may have   *)
(* left something on it.  A topology file that is edited between two       *)
(* commands is one topology before and another one after: its Down stops   *)
(* and deletes what the file says by then (cmd/klab/main.go:279), and what *)
(* it no longer says stays, owed to the version that was brought up.       *)
(***************************************************************************)
EXTENDS Cluster

VARIABLE owed   \* history: topologies brought up, and not calmly down since

labVars == <<vars, owed>>

\* An Up that starts may leave things; a calm Down that ends has left none.
Started == {topo'[c] : c \in {x \in Clis : pc[x] = "idle" /\ pc'[x] = "bridge"}}
Settled == {topo[c] : c \in {x \in Clis : /\ pc[x] = "links" /\ pc'[x] = "downOk"
                                          /\ calm'[x]}}
LabInit == Init /\ owed = {}
LabNext == Next /\ owed' = (owed \cup Started) \ Settled
LabSpec == LabInit /\ [][LabNext]_labVars

-----------------------------------------------------------------------------
(* What is on the host, by its names. *)

DevicesOf(t) ==
    {<<"bridge", b>> : b \in BridgesOf(t)} \cup {<<"tap", x>> : x \in TapsOf(t)}
OwnedBy(t) == DevicesOf(t) \cup {<<"qemu", n>> : n \in NodesOf(t)}
Things ==
    {<<"bridge", b>> : b \in bridges}
    \cup {<<"tap", x>> : x \in {y \in Taps : tap[y] # Absent}}
    \cup {<<"qemu", n>> : n \in {m \in Nodes : ProcessesOf(m) # {}}}

\* Nothing is on the host that no topology owes: after any crashes, failed Runs
\* and edits, the calm Downs of the versions that were brought up leave nothing
\* (cluster.go:88-89, "so nothing leaks").
Accounted == Things \subseteq UNION {OwnedBy(t) : t \in owed}

Service == INSTANCE LabService WITH
    Topos <- Topos,
    Owned <- [t \in Topos |-> OwnedBy(t)],
    Devices <- [t \in Topos |-> DevicesOf(t)],
    things <- Things,
    owed <- owed,
    up <- up

\* Up, Down and all that happens on the host are steps of the service.
ImplementsService == Service!Spec
=============================================================================
