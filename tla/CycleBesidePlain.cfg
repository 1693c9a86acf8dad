SPECIFICATION Spec
CONSTANTS
    Node = {n1, n2}
    Key = {"plain", "cycle"}
    Job = {"plain", "cycle"}
    Tag = {"tag"}
    Hash = {"plain", "cycle"}
    KeyOf <- AsIs
    TagOf <- OneTag
    HashOf <- AsIs
    Cyclic = {"cycle"}
    Gone = Gone
    Free = Free
    Delays = {3}
    Second = 2
    MinLease = 1
    HoldTime = 1
    MaxLag = 0
    MaxFirings = 2
    MaxFaulty = 0
    LossyRPC = FALSE
SYMMETRY NodeSymmetry
INVARIANTS
    NotEarly
    Exclusion
    AtMostOnce
