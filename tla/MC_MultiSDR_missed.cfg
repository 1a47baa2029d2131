SPECIFICATION FairSpec

CONSTANTS
    N = 8
    Layers = 1
    K = 2
    W = 2
    Lookahead = 2
    StrideSetting = 1
    Producers = {p1, p2}
    MinBaseParentNode = 2
    WeakCas = FALSE
    Generated = {}
    p1 = p1
    p2 = p2
    Parent <- PrecedingLast

CHECK_DEADLOCK FALSE

PROPERTIES
    NoMissedTransition
