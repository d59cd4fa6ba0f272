SPECIFICATION Spec
CONSTANTS
    c1 = c1  c2 = c2
    pair = pair  wire = wire  solo = solo
    n1 = n1  n2 = n2  n3 = n3
    br1 = br1  t1 = t1  t2 = t2
    p1 = p1  p2 = p2
    Free = Free  Foreign = Foreign  NoPid = NoPid  Absent = Absent  Loose = Loose
    Clis = {c1}
    Topos = {solo}
    Nodes = {n3}
    Bridges = {}
    Taps = {}
    Plans <- SoloOnly
    Refusal <- NoneRefused
    Pids = {p1, p2}
    MaxForeign = 1
    Commands = {"up", "down"}
    Mishaps = {}
PROPERTY StopSparesOthers
