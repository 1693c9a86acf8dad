SPECIFICATION FairSpec
CONSTANTS
    Node = {n1, n2}
    Key = {"cycle"}
    Job = {"cycle"}
    Tag = {"tag"}
    Hash = {"cycle"}
    KeyOf <- AsIs
    TagOf <- OneTag
    HashOf <- AsIs
    Cyclic = {"cycle"}
    Gone = Gone
    Free = Free
    Delays = {2}
    Second = 2
    MinLease = 2
    HoldTime = 2
    MaxLag = 1
    MaxFirings = 1
    MaxFaulty = 0
    LossyRPC = FALSE
PROPERTIES
    HeldThenReleased
