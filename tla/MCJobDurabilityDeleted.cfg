SPECIFICATION DSpec
CONSTANTS
    Ids = {j1, j2}
    Keys = {k1}
    Clients = {c1}
    Workers = {w1}
    MaxQueueSize = 1
    Backend = "local"
    StorageFaults = FALSE
    DbFaults = FALSE
    MaxRestarts = 1
    SinkQueueSize = 2
    NoId = NoId
    NoKey = NoKey
    NoJob = NoJob
    NoNote = NoNote
PROPERTIES
    DeletedStaysDeleted
CHECK_DEADLOCK FALSE
