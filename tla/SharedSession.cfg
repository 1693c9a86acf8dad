SPECIFICATION Spec
CONSTANTS
    Node = {n1, n2}
    Key = {"plain"}
    Job = {"plain"}
    Tag = {"tag"}
    Hash = {"plain"}
    KeyOf <- AsIs
    TagOf <- OneTag
    HashOf <- AsIs
    Cyclic = {}
    Gone = Gone
    Free = Free
    Delays = {1}
    Second = 1
    MinLease = 1
    HoldTime = 2
    MaxLag = 1
    MaxFirings = 2
    MaxFaulty = 0
    LossyRPC = FALSE
INVARIANTS
    OneCallback
