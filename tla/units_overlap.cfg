CONSTANTS
    Procs = {p1, p2}
    Kinds <- ServerInvoke
    Faults <- NoFaults
    MaxRequests = 1
    MaxUnits = 2
SPECIFICATION Spec
INVARIANT LogCountsUnits
CHECK_DEADLOCK FALSE
