CONSTANTS
    Procs = {p1}
    Kinds <- ServerInvoke
    Faults <- AllFaults
    MaxRequests = 1
    MaxUnits = 4
SPECIFICATION FairSpec
INVARIANTS
    TypeOK
    NthUnitIsNumberN
    PermitsReturned
    AnswersAgreeWithLog
PROPERTIES
    RequestsAnswered
    OnlySilenceBlocks
