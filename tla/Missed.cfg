SPECIFICATION Spec
CONSTANTS
    Node = {n1}
    Absent = Absent
    MaxRev = 2
    MaxRestarts = 1
    MaxStops = 1
    LossyRPC = FALSE
INVARIANTS
    NoneMissed
CHECK_DEADLOCK FALSE
