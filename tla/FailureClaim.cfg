SPECIFICATION Spec
CONSTANTS
    w1 = w1
    w2 = w2
    None = None
    Requests = {1}
    Workers <- OneWorker
    Models <- OneModel
    ModelOf <- AllSameModel
    Serves <- AllServe
    Faults = {}
    MaxFaults = 0
    CanForward = FALSE
    Deadlines = FALSE
INVARIANT FailureIsAnError
