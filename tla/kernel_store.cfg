SPECIFICATION Spec
CONSTANTS
    j1 = j1  j2 = j2  j3 = j3
    v6 = v6  arm = arm  x86 = x86  bpf = bpf  xdp = xdp
    defconfig = defconfig
    Missing = Missing
    Jobs = {j1, j2, j3}
    Finders = {j3}
    Versions = {v6}
    Archs = {arm, x86}
    Bases = {defconfig}
    Configs = {bpf, xdp}
    Specs <- BuiltinAndEdited
CHECK_DEADLOCK FALSE
SYMMETRY BuilderSymmetry
INVARIANTS
    TypeOK
    
    ReturnsWhatWasAsked
    TreesAreWhole
PROPERTIES
    BuiltIsReused
