SPECIFICATION Spec
CONSTANTS
    w1 = w1
    w2 = w2
    None = None
    Requests = {1}
    Workers <- TwoWorkers
    Models <- OneModel
    ModelOf <- AllSameModel
    Serves <- AllServe
    Faults = {"loss", "worker", "server", "db", "stale"}
    MaxFaults = 1
    CanForward = TRUE
    Deadlines = TRUE
SYMMETRY WorkerSymmetry
INVARIANT ExecutionMatchesLease
INVARIANT JobHeldByItsWorker
INVARIANT TypeOK
INVARIANT RowTracksHandler
PROPERTY JobLifecycle
PROPERTY LifePromise
