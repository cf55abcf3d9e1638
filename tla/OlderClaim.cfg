SPECIFICATION ClusterSpec
CONSTANTS
    a = a
    b = b
    c = c
    m = m
    NoRow = NoRow
    Node <- TwoNodes
    Model <- OneModel
    Offers <- BothOffer
    Seeds <- EachOther
    NeighborCount = 1
    Fanout = 1
    DeltaBatch = 1
    MaxCycles <- TwoAndOne
    MaxFaults = 1
    Together = FALSE
    SentTo = {}
    AskedLate = FALSE
    MaxHops = 0
    MaxCandidates = 0
PROPERTY OlderIsRefused
CHECK_DEADLOCK FALSE
