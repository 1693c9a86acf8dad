SPECIFICATION Spec
CONSTANTS
    MaxId <- MCMaxId
    RootId = RootId
INVARIANTS SkipsSiblings
CHECK_DEADLOCK FALSE
