CONSTANTS
    Cmds = {c1, c2}
    Pids = {p1, p2, p3}
    Faults <- NoFaults
    NoPid = NoPid
    NoCmd = NoCmd
    Shell = Shell
    Absent = Absent
    Torn = Torn
SPECIFICATION Spec
INVARIANT StartedServerIsFound
