SPECIFICATION Spec

CONSTANTS
    N = 13
    Layers = 1
    K = 2
    W = 4
    Lookahead = 3
    StrideSetting = 1
    Producers = {p1, p2}
    MinBaseParentNode = 4
    WeakCas = TRUE
    Generated = {}
    p1 = p1
    p2 = p2
    Parent <- PrecedingLast

CHECK_DEADLOCK FALSE

INVARIANTS
    SafeIsMapped
