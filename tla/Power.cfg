SPECIFICATION FairSpec
CONSTANTS
    Jobs = {1, 2}
    Watts = {1}
    FallbackWatts = 1
    QueueSize = 2
    WireSize = 1
    RecvTimeout = 2
    SegmentCap = 2
    MaxTime = 3
    MaxFaults = 1
    None = None
INVARIANTS TypeOK SamplesInOrder NoTimeLost CountedOnce NeverShared
PROPERTY ReportComes
CHECK_DEADLOCK FALSE
