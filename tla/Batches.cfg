SPECIFICATION Spec
CONSTANTS
    w1 = w1
    w2 = w2
    None = None
    Requests = {1, 2}
    Workers <- TwoWorkers
    Models <- OneModel
    ModelOf <- AllSameModel
    Serves <- AllServe
    Faults = {"db"}
    MaxFaults = 1
    CanForward = FALSE
    Deadlines = FALSE
SYMMETRY WorkerSymmetry
INVARIANT FifoWithinModel
