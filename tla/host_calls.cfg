CONSTANTS
    IntMax <- Max32
    Calls <- AllCalls
    Mounts <- CallMounts
    MaxRecords = 2
    Refused = Refused
SPECIFICATION Spec
INVARIANTS
    BuffersRespected
    OverflowNeedsHugeMemory
    AcceptedIsBelowMount
    CanonicalPathsServed
    ReadEqualsIsExact
    ListIsExactOrRefused
CHECK_DEADLOCK FALSE
