SPECIFICATION FairSpec
CONSTANTS
    c1 = c1  c2 = c2
    pair = pair  wire = wire  solo = solo
    n1 = n1  n2 = n2  n3 = n3
    br1 = br1  t1 = t1  t2 = t2
    p1 = p1  p2 = p2
    Free = Free  Foreign = Foreign  NoPid = NoPid  Absent = Absent  Loose = Loose
    Clis = {c1}
    Topos = {pair, solo}
    Nodes = {n1, n2, n3}
    Bridges = {br1}
    Taps = {t1, t2}
    Plans <- PairAndSolo
    Refusal <- ImageOfN3
    Pids = {p1, p2}
    MaxForeign = 1
    Commands = {"up", "down", "status"}
    Mishaps = {"error"}
INVARIANTS
    TypeOK
    NoLeakAfterDown
    StaysUp
PROPERTIES
    StatusSeesRunning
    EveryCommandReturns
