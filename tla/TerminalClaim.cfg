SPECIFICATION Spec
CONSTANTS
    w1 = w1
    w2 = w2
    None = None
    Requests = {1}
    Workers <- OneWorker
    Models <- OneModel
    ModelOf <- AllSameModel
    Serves <- AllServe
    Faults = {"loss"}
    MaxFaults = 1
    CanForward = FALSE
    Deadlines = FALSE
PROPERTY TerminalJobStable
