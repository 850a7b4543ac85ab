CONSTANTS
    Cmds = {c1, c2}
    Pids = {p1, p2}
    Faults <- IoOnly
    NoPid = NoPid
    NoCmd = NoCmd
    Shell = Shell
    Absent = Absent
    Torn = Torn
SPECIFICATION FairSpec
INVARIANT StoppedIsDoomed
PROPERTIES
    CommandsEnd
    StoppedProcessDies
