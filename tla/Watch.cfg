SPECIFICATION FairSpec
CONSTANTS
    Node = {n1, n2}
    Absent = Absent
    MaxRev = 2
    MaxRestarts = 1
    MaxStops = 1
    LossyRPC = TRUE
INVARIANTS
    TypeOK
    Covered
    NonePassedOver
PROPERTIES
    KeepsPromise
    Announced
    Resumed
CHECK_DEADLOCK FALSE
