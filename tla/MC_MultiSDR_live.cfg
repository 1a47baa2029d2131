SPECIFICATION FairSpec

CONSTANTS
    N = 14
    Layers = 2
    K = 2
    W = 6
    Lookahead = 4
    StrideSetting = 2
    Producers = {p1, p2}
    MinBaseParentNode = 2
    WeakCas = FALSE
    Generated = {}
    p1 = p1
    p2 = p2
    Parent <- PrecedingFirst

PROPERTIES
    ImplementsSDR
    Termination
