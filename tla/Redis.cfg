SPECIFICATION FairSpec
CONSTANTS
    Node = {n1, n2}
    MaxSaves = 2
    Delays = {1, 2}
    Second = 2
    Lease = 1
    MaxReached = 2
    Closers = {n1}
INVARIANTS
    TypeOK
    Exclusion
    EarlyNeedsTwoSaves
    ValueOutlives
PROPERTIES
    RunReturns
CHECK_DEADLOCK FALSE
