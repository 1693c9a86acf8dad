SPECIFICATION FairSpec
CONSTANTS
    Objects = {o1, o2}
    Plain = {"text"}
    Ivs <- MCIvs
    Encodings = {Base64, Hex}
    Base64 = Base64
    Chained = {"CBC"}
    MaxTexts = 2
    Unset = Unset
    Garble = Garble
    KeyBits <- MCKeyBits
    Bytes = {"x", "y"}
    MaxBytes = 4
    Failed = Failed
    MaxSpans = 3
    MaxDepth = 3
    Callers = {c1, c2}
    Closers = 2
    MaxSignals = 2
    Second = 2
    ExpireDuration = 2
    RefreshDuration = 3
    MaxCalls = 3
    MaxTime = 6
    MaxId = 4
    RootId = RootId
    PageNumbers <- MCPageNumbers
    Chars = {"a", "b", "+", "-", " "}
    Sorts <- MCSorts
    Allowed <- MCAllowed
    MaxOptions = 3
INVARIANTS TypeOK ReadsBack SpansNest CancelSticks LoginLasts RefusedToTheEnd
    RootsAreParentless OnlyBelowEntered PrintsTheLevels OneInstance SortAllowed PagesTile ChunksMeet WrittenOnce
PROPERTIES ClosesDown CallsEnd
CHECK_DEADLOCK FALSE
