SPECIFICATION Spec
CONSTANTS
    Workers = {1, 2, 3}
    Speeds = {2, 3, 4}
    Powers = {1, 2}
    BaseCost = 12
    Tolerances = {0, 25, 100}
    NoRow = NoRow
    MaxMeasures = 1
    MaxBeats = 1
    MaxFaults = 1
INVARIANTS TypeOK RankedInOrder BetterFirst WarmIsPriced
PROPERTY ImprovementKeepsLead
CHECK_DEADLOCK FALSE
