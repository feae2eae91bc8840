SPECIFICATION PFairSpec
CONSTANTS
    Ids = {j1}
    Keys = {k1}
    Clients = {c1}
    Workers = {w1}
    MaxQueueSize = 1
    Backend = "s3"
    StorageFaults = TRUE
    DbFaults = TRUE
    MaxRestarts = 2
    SinkQueueSize = 1
    NoId = NoId
    NoKey = NoKey
    NoJob = NoJob
    NoNote = NoNote
INVARIANTS
    
    UrlsWork
    NoOrphanedObject
PROPERTIES
    StoreSpec
    
    ExpiredRowsGo
CHECK_DEADLOCK FALSE
