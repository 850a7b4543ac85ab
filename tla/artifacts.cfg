CONSTANTS
    Builders = {b1, b2}
    Loaders = {l1}
    MaxSpec = 2
    MaxCode = 2
    MaxEdits = 1
    Languages <- BothLanguages
    Absent = Absent
    Empty = Empty
    Mixed = Mixed
    None = None
SPECIFICATION Spec
SYMMETRY Symmetry
INVARIANTS
    TypeOK
    LoadsAreBuilds
    OnlyOverlapGarbles
    BuildSettles
    PrintedIDLoads
