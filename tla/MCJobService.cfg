SPECIFICATION FairSpec
CONSTANTS
    Ids = {j1, j2}
    Keys = {k1}
    Workers = {w1, w2}
    Clients = {c1, c2}
    MaxQueueSize = 1
    Backend = "s3"
    StorageFaults = FALSE
    NoId = NoId
    NoKey = NoKey
    NoJob = NoJob
INVARIANTS
    CacheConsistent
    OneLiveJobPerKey
    OneCarrier
    QueuedJobHasCarrier
    RunningMatchesWorkers
    

    
    
    
CHECK_DEADLOCK FALSE
