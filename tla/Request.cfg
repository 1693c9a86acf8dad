SPECIFICATION FairSpec
CONSTANTS
    Requests <- MCRequests
    RoutesOf <- MCRoutesOf
    Object <- MCObject
    Burst = 1
    Refusals <- MCRefusals
    Errors <- MCErrors
    MaxCalls = 2
    Nil = Nil
INVARIANTS TypeOK OwnContext UserKnown Accounted
PROPERTIES Served
CHECK_DEADLOCK FALSE
