--------------------------- MODULE ClusterClaims ---------------------------
(***************************************************************************)
(* What comments of the code say of Up, Down and Status and the code does  *)
(* not do.  Each is checked alone, and refuted by a run of its own.        *)
(***************************************************************************)
EXTENDS MCCluster

\* live.go:116: Stop "kills the node's qemu (graceful, then forced), verifies
\* it is gone, and removes the run directory".  Down calls Stop for each node,
\* so an undisturbed Down leaves no run directory.
DownRemovesRunDirs ==
    \A c \in Clis : pc[c] = "downOk" /\ calm[c] =>
        \A n \in NodesOf(topo[c]) : ~dir[n].exists

\* live.go:117: "Idempotent: a missing pid or dead process is a no-op success":
\* Stop does nothing to a process that is not klab's.
StopSparesOthers ==
    [][\A c \in Clis : StopNode(c) \/ StopForce(c) \/ PkillNode(c) =>
          \A p \in Pids : proc[p].who = Foreign => proc'[p].who = Foreign]_vars
=============================================================================
