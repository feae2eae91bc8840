SPECIFICATION Spec
CONSTANTS
    Updaters = {u1, u2}
    Subscribers = {s1}
    BufferSize = 2
    MaxVersion = 3
INVARIANTS
    StreamIsCurrent
CHECK_DEADLOCK FALSE
