SPECIFICATION FairSpec
CONSTANTS
    Workers = {w1, w2}
    ChunkCount = 5
    Retries = 2
    Interval = 2
INVARIANTS
    CommittedIsWhole
    CanceledMeansCaller
PROPERTIES
    NoWriteAfterJoin
    ReportsForward
    CancelEndsDownload
CHECK_DEADLOCK FALSE
