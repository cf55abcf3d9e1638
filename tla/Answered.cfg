SPECIFICATION FairSpec
CONSTANTS
    w1 = w1
    w2 = w2
    None = None
    Requests = {1}
    Workers <- OneWorker
    Models <- OneModel
    ModelOf <- AllSameModel
    Serves <- AllServe
    Faults = {"loss", "worker", "server", "db", "stale"}
    MaxFaults = 2
    CanForward = TRUE
    Deadlines = TRUE
PROPERTY EveryRequestAnswered
PROPERTY WorkersReturnToPool
