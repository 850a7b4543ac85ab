CONSTANTS
    Cmds = {c1}
    Pids = {p1, p2, p3}
    Faults <- AllButFork
    NoPid = NoPid
    NoCmd = NoCmd
    Shell = Shell
    Absent = Absent
    Torn = Torn
SPECIFICATION Spec
INVARIANT StartedServerIsRecorded
