CONSTANTS
    Apps = {a1, a2}
    Docs <- AllDocs
    Names <- AllNames
    ValidNames <- UpperNames
    Dests <- AllDests
    ValidDests <- BareDests
    AbsoluteMounts <- Absolute
    MaxU64 = 63
    MaxU32 = 7
    MaxU16 = 7
    Kilo = 4
    Milli = 3
    None = None
    NotString = NotString
    NoList = NoList
    Refused = Refused
SPECIFICATION Spec
SYMMETRY Symmetry
INVARIANTS
    TypeOK
    EnforcesDeclaration
    LimitsAreExact
    BuiltIsHosted
    SameIDSameRights
CHECK_DEADLOCK FALSE
