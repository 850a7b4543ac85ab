CONSTANTS
    k1 = k1
    k2 = k2
    Keys = {k1, k2}
    Below <- Nesting
    Values = {v1, v2}
    Calls = {c1, c2}
    Files = {f1, f2, f3, f4}
    Ops <- AllOps
    Providers <- BothProviders
    Faults <- AllFaults
    Missing = Missing
    Empty = Empty
    Mixed = Mixed
    NoFile = NoFile
    Idle = Idle
    Failed = Failed
SPECIFICATION Spec
SYMMETRY Symmetry
INVARIANTS
    TypeOK
    SettledContents
PROPERTY KeepsItsPromise
