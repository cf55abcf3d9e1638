SPECIFICATION FairSpec
CONSTANTS
    w1 = w1
    w2 = w2
    None = None
    Requests = {1, 2}
    Workers <- OneWorker
    Models <- TwoModels
    ModelOf <- LaterModelFirst
    Serves <- AllServe
    Faults = {"db"}
    MaxFaults = 1
    CanForward = FALSE
    Deadlines = FALSE
PROPERTY EveryRequestServed
INVARIANT BatchClaimsOnce
