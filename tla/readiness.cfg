SPECIFICATION SetupSpec
CONSTANTS
    Unknown = Unknown
    Machines <- MacsAndOthers
INVARIANTS
    InSync
    SameVerdict
    ReadyMeansNeeded
    SetupVerifies
PROPERTY SafeToRerun
