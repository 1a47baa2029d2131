SPECIFICATION MC_Spec

CONSTANTS
    Procs = {a, b, c}
    a = a
    b = b
    c = c
    Chunks = {1, 2}
    Settings = {TRUE, FALSE}
    Production = TRUE
    MaxCalls = 1
    MaxFaults = 1
    None = None

CHECK_DEADLOCK FALSE

INVARIANTS
    TypeOK
    ReadyComplete

PROPERTIES
    MappedStable
    CallEnds
