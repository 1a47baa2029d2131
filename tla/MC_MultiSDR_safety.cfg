SPECIFICATION Spec

CONSTANTS
    N = 16
    Layers = 3
    K = 2
    W = 5
    Lookahead = 3
    StrideSetting = 1
    Producers = {p1, p2, p3}
    MinBaseParentNode = 1
    WeakCas = FALSE
    Generated = {2}
    p1 = p1
    p2 = p2
    p3 = p3
    Parent <- PrecedingLast

SYMMETRY Symmetry

INVARIANTS
    TypeOK
    OrderOK
    SlotExclusive
    PublishedReady
    SlicesMapped
    SafeIsMapped
    CursorOK
    LabelsRight
