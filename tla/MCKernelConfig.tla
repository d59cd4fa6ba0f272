--------------------------- MODULE MCKernelConfig ---------------------------
(* Instances of KernelConfig for model checking. *)
EXTENDS KernelConfig, TLC

CONSTANTS bpf, local,   \* fragment files
          u1, u2        \* klab processes

\* The kernels of main.go's builtinSpecs, which list one fragment, and one more
\* that lists two.
Matrix ==
    [arm |-> [ref |-> "v6.12", arch |-> "arm64", fragments |-> <<bpf>>],
     both |-> [ref |-> "v6.12", arch |-> "arm64", fragments |-> <<bpf, local>>]]
Sets(s, v) == [form |-> "set", sym |-> s, val |-> v]
Off(s) == [form |-> "off", sym |-> s]
Comment == [form |-> "other"]

\* Two symbols, not in their order; fragments that conflict and that do not; one
\* symbol disabled in both ways, the second time after it was enabled.
Fragments == {<<Comment, Sets(2, "m"), Sets(1, "y")>>, <<Sets(1, "n")>>,
              <<Sets(1, "y"), Off(1)>>}
=============================================================================
