CONSTANTS
    Apps = {a1}
    Docs <- AllDocs
    Names <- AllNames
    ValidNames <- UpperNames
    Dests <- AllDests
    ValidDests <- BareDests
    AbsoluteMounts <- Absolute
    MaxU64 = 63
    MaxU32 = 7
    MaxU16 = 7
    Kilo = 4
    Milli = 3
    None = None
    NotString = NotString
    NoList = NoList
    Refused = Refused
SPECIFICATION Spec
INVARIANT OutboundRestricts
CHECK_DEADLOCK FALSE
