SPECIFICATION Spec
CONSTANTS
    data = data  datb = datb  long1 = long1  long2 = long2  none = none
    L2Only = L2Only  Malformed = Malformed
    Unnamed <- MCUnnamed
    Files <- AllFiles
    AddrBits = 5
    MacBits = 3
CHECK_DEADLOCK FALSE
INVARIANTS
    DownSeesWhatUpMade
    PlansWhatItAccepts
    DistinctMacs
    UsableAddresses
