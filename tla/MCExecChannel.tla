--------------------------- MODULE MCExecChannel ---------------------------
(* Instances of ExecChannel for model checking. *)
EXTENDS ExecChannel

CONSTANTS k1, k2 \* calls
=============================================================================
