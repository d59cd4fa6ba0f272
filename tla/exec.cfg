SPECIFICATION FairSpec
CONSTANTS
    k1 = k1  k2 = k2  None = None  Torn = Torn
    Calls = {k1, k2}
    Ticks = {1, 2}
    Endless = {k2}
CHECK_DEADLOCK FALSE
INVARIANTS
    TypeOK
    AtMostOnce
    OwnAnswer
    NoTornCommand
    NoAnswerLost
PROPERTIES
    Served
    ImplementsExecService
