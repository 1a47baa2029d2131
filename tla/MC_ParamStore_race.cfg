SPECIFICATION MC_Spec
CONSTANTS
    a1 = a1
    a2 = a2
    g1 = g1
    g2 = g2
    None = None
    Threads <- MC_Threads
    Process <- MC_Process
    Rng <- MC_Rng
    MaxCalls = 1
    MaxFaults = 1
    MaxRounds = 2
CHECK_DEADLOCK FALSE
INVARIANTS Agreement VerifiedRight FetchedGood
PROPERTY CallEnds
