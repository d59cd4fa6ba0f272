SPECIFICATION Spec
CONSTANTS
    k1 = k1  k2 = k2  None = None  Torn = Torn
    Calls = {k1}
    Ticks = {1}
    Endless = {}
CHECK_DEADLOCK FALSE
INVARIANT WholeAnswer
