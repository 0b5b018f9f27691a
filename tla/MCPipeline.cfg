SPECIFICATION Spec
CONSTANTS
    Clients = {c1, c2}
    QUEUE_SIZE = 2
    PARTS = 2
    MaxRequests = 1
    MaxTrades = 1
    MaxFaults = 2
SYMMETRY ClientSymmetry
INVARIANTS RingExclusive OneReadPerClient NoResponseLost
CHECK_DEADLOCK FALSE
