CONSTANTS
    Builders = {b1}
    Starts = {s1, s2}
    Stops = {t1}
    Loaders = {s1, s2, t1}
    MaxStarting = 1
    Port <- PortOf
    MaxSpec = 3
    MaxCode = 1
    MaxEdits = 2
    Languages <- OnlyGo
    Absent = Absent
    Empty = Empty
    Mixed = Mixed
    None = None
SPECIFICATION DeploymentSpec
SYMMETRY Symmetry
VIEW Relevant
INVARIANTS
    DeploymentTypeOK
    RecordedIsServed
    EndpointIsServed
    ServersAreFindable
