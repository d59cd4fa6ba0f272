SPECIFICATION Spec
CONSTANTS
    bpf = bpf  local = local  u1 = u1  u2 = u2
    Procs = {u1, u2}
    Builders = {u1}
    Kernels <- Matrix
    Unlisted = "unlisted"
    Paths = {bpf, local}
    Texts <- Fragments
    Missing = Missing
    Symbols = {1, 2}
    Majors = {18, 19}
    Silent = Silent
    MaxEntries = 1
INVARIANTS
    TypeOK
    GetsWhatItRead
    SameKeySameMeaning
    NeverOlderCompiler
PROPERTY BuiltIsFound
