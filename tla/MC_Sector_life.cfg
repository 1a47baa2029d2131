SPECIFICATION MC_Spec
CONSTANTS
    Data = Data
    Other = Other
    NewData = NewData
    Zeros = Data
    Tickets = {t1, t2}
    LayerCount = 2
    TreeCount = 2
    MaxCalls = 6
    MaxCrashes = 1
    None = None
    Torn = Torn
SYMMETRY TicketSymmetry
CHECK_DEADLOCK FALSE
INVARIANTS TypeOK AcceptedDecodes StillProvable UpdateStands KeyRecovered
PROPERTY FreshCommits
