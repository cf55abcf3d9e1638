SPECIFICATION ClusterSpec
CONSTANTS
    a = a
    b = b
    c = c
    m = m
    NoRow = NoRow
    Node <- TwoNodes
    Model <- OneModel
    Offers <- BothOffer
    Seeds <- EachOther
    NeighborCount = 1
    Fanout = 1
    DeltaBatch = 1
    MaxCycles <- TwoAndOne
    MaxFaults = 1
    Together = FALSE
    SentTo = {a}
    AskedLate = TRUE
    MaxHops = 2
    MaxCandidates = 1
INVARIANTS ClusterTypeOK SeedRowsOfferNothing NoRevisionAhead OnlyOwnRowIsSelf NothingSkipped
CHECK_DEADLOCK FALSE
