SPECIFICATION ClusterFairSpec
CONSTANTS
    a = a
    b = b
    c = c
    m = m
    NoRow = NoRow
    Node <- ThreeNodes
    Model <- OneModel
    Offers <- AllOffer
    Seeds <- Upwards
    NeighborCount = 0
    Fanout = 1
    DeltaBatch = 1
    MaxCycles <- OthersOnce
    MaxFaults = 1
    Together = TRUE
    MaxHops = 3
    MaxCandidates = 2
    SentTo = {a}
    AskedLate = TRUE
INVARIANTS NoWayBack OneAnswer
PROPERTY CycleEnds
CHECK_DEADLOCK FALSE
