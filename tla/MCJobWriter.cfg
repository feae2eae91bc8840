SPECIFICATION FairSpec
CONSTANTS
    Enqueuers = {e1, e2}
    Closers = {c1, c2}
    Writes = {r1, r2, r3, r4}
    NoWrite = NoWrite
    QueueSize = 2
INVARIANTS
    NeverSendsOnClosed
    CloseIsHonest
PROPERTIES
    QueueSpec
    NoWriteAfterClose
    CloseReturns
CHECK_DEADLOCK FALSE
