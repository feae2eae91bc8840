SPECIFICATION Spec
CONSTANTS
    Updaters = {u1, u2}
    Subscribers = {s1, s2}
    BufferSize = 2
    MaxVersion = 4
SYMMETRY Symmetry
INVARIANTS
    BroadcastsInOrder
    ListenersOpen
    CurrentUnlessLate
CHECK_DEADLOCK FALSE
