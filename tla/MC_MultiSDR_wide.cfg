SPECIFICATION Spec

CONSTANTS
    N = 12
    Layers = 3
    K = 2
    W = 2
    Lookahead = 5
    StrideSetting = 1
    Producers = {p1}
    MinBaseParentNode = 3
    WeakCas = FALSE
    Generated = {2}
    p1 = p1
    Parent <- PrecedingLast

INVARIANTS
    RemapOnlyConsumed
