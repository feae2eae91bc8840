SPECIFICATION DSpec
CONSTANTS
    Ids = {j1, j2}
    Keys = {k1}
    Clients = {c1}
    Workers = {w1}
    MaxQueueSize = 1
    Backend = "local"
    StorageFaults = FALSE
    DbFaults = FALSE
    MaxRestarts = 1
    SinkQueueSize = 1
    NoId = NoId
    NoKey = NoKey
    NoJob = NoJob
    NoNote = NoNote
CONSTRAINT FewExceptions
SYMMETRY Symmetry
INVARIANTS
    CarriedOnce
    RowsCatchUp
CHECK_DEADLOCK FALSE
