SPECIFICATION LabSpec
CONSTANTS
    c1 = c1  p1 = p1  p2 = p2  data = data  wire = wire  none = none
    Free = Free  Foreign = Foreign  NoPid = NoPid  Absent = Absent  Loose = Loose
    Unnamed = Unnamed  L2Only = L2Only  Malformed = Malformed
    AddrBits = 5
    MacBits = 3
    Clis = {c1}
    Topos <- Versions
    Nodes <- LabNodes
    Bridges = {data, wire}
    Taps = {1}
    Plans <- LabPlans
    Refusal <- LabRefusals
    Pids = {p1, p2}
    MaxForeign = 0
    Commands = {"up", "down", "status"}
    Mishaps = {"lost", "error"}
SYMMETRY Sym
INVARIANTS
    StaysUp
    Accounted
PROPERTY ImplementsService
