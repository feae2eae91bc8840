SPECIFICATION Spec
CONSTANTS
    Ids = {j1, j2}
    Keys = {k1}
    Workers = {w1}
    Clients = {c1}
    MaxQueueSize = 1
    Backend = "local"
    StorageFaults = FALSE
    NoId = NoId
    NoKey = NoKey
    NoJob = NoJob
PROPERTIES
    FailedIsFinal
CHECK_DEADLOCK FALSE
