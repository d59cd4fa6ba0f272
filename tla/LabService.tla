----------------------------- MODULE LabService -----------------------------
(***************************************************************************)
(* What a host promises to those who bring topologies up and down on it,   *)
(* without scripts, process ids or files: every thing on it (a bridge, a   *)
(* tap, a node's qemu) is there because of a topology that is owed a Down, *)
(* a Down that says it is done has taken all things of its topology, and   *)
(* the devices of a topology that is up stay until somebody starts to      *)
(* change a topology with a name in common.                                *)
(***************************************************************************)
CONSTANTS
    Topos,      \* topologies, each version of an edited file one of its own
    Owned,      \* topology |-> the things that have its names
    Devices     \* topology |-> those that are not processes

VARIABLES
    things,     \* what is on the host
    owed,       \* the topologies that may have left things on it
    up          \* the topologies that are promised to be up

vars == <<things, owed, up>>

Init == things = {} /\ owed = {} /\ up = {}

\* A command starts to change t: an Up of it will be owed a Down.
Begin(t) ==
    /\ owed' \in {owed, owed \cup {t}}
    /\ up' = {s \in up : Owned[s] \cap Owned[t] = {}}
    /\ UNCHANGED things

Make(t) ==
    /\ t \in owed
    /\ \E x \in Owned[t] : things' = things \cup {x}
    /\ UNCHANGED <<owed, up>>

Keeps == \A s \in up : Devices[s] \subseteq things'
Lose ==
    /\ things' \subseteq things /\ Keeps
    /\ UNCHANGED <<owed, up>>

UpDone(t) ==
    /\ t \in owed /\ Devices[t] \subseteq things
    /\ up' = up \cup {t}
    /\ UNCHANGED <<things, owed>>

DownDone(t) ==
    /\ things' \subseteq things /\ Keeps
    /\ things' \cap Owned[t] = {}
    /\ owed' = owed \ {t}
    /\ UNCHANGED up

Next ==
    \/ Lose
    \/ \E t \in Topos : Begin(t) \/ Make(t) \/ UpDone(t) \/ DownDone(t)
Spec == Init /\ [][Next]_vars
=============================================================================
