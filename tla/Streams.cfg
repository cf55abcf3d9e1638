SPECIFICATION FairSpec
CONSTANTS
    Length = 3
    MaxFailures = 2
    Faults = {"chunk", "report", "pull", "worker", "server", "db", "client"}
    MaxFaults = 3
    Deadlines = TRUE
INVARIANTS TypeOK NoGap StopMeansComplete RepeatsNeedRetries DoneMeansComplete
PROPERTY TextPromise
PROPERTY StreamEnds
PROPERTY RunnerComesBack
