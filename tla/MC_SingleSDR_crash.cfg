SPECIFICATION FairSpec

CONSTANTS
    N = 5
    Layers = 3
    K = 2
    Parent <- MCParent
    Expander <- MCExpander
    CacheLen = 2
    Modes = {"encode", "decode"}
    Leftovers <- AnyLeftovers
    MaxFailures = 3

INVARIANTS
    TypeOK
    DiskRight
    ResultRight

PROPERTIES
    CompleteKept
    StepsOfSDR
    Completes
