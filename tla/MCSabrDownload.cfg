SPECIFICATION FairSpec
CONSTANTS
    Workers = {w1, w2}
    Parts = 4
    PartAttempts = 3
INVARIANTS
    TargetsWhole
    CanceledMeansCaller
    CounterExact
    NoTemporaries
PROPERTIES
    DownloadReturns
CHECK_DEADLOCK FALSE
