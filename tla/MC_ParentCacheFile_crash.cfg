SPECIFICATION Spec

CONSTANTS
    Procs = {a, b}
    a = a
    b = b
    Chunks = {1, 2}
    Settings = {FALSE}
    Production = TRUE
    MaxCalls = 2
    MaxFaults = 1
    None = None

SYMMETRY Symmetry

CHECK_DEADLOCK FALSE

INVARIANTS
    CompletedBefore
