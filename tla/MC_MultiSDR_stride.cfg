SPECIFICATION FairSpec

CONSTANTS
    N = 8
    Layers = 1
    K = 2
    W = 2
    Lookahead = 8
    StrideSetting = 6
    Producers = {p1}
    MinBaseParentNode = 2
    WeakCas = FALSE
    Generated = {}
    p1 = p1
    Parent <- PrecedingLast

CHECK_DEADLOCK FALSE

PROPERTIES
    Termination
