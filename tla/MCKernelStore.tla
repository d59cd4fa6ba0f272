--------------------------- MODULE MCKernelStore ---------------------------
(* Instances of KernelStore for model checking. *)
EXTENDS KernelStore, TLC

CONSTANTS j1, j2, j3,       \* jobs
          v6, arm, x86, defconfig, bpf, xdp

OfV6(arch, config) ==
    [ver |-> v6, arch |-> arch, base |-> defconfig, config |-> config]

\* The two kernels of main.go's builtinSpecs, and one after an edit of the
\* fragment.
BuiltinAndEdited == {OfV6(arm, bpf), OfV6(x86, bpf), OfV6(arm, xdp)}

BuilderSymmetry == Permutations({j1, j2})
=============================================================================
