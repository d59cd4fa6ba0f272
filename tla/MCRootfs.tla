------------------------------ MODULE MCRootfs ------------------------------
(* Instances of Rootfs for model checking. *)
EXTENDS Rootfs, TLC

CONSTANTS r1, r2, u1, drop, pass
BothPrograms == <<drop, pass>>
Sym == Permutations(Runs)
=============================================================================
