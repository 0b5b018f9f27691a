SPECIFICATION FairSpec
CONSTANTS
    Clients = {c1}
    QUEUE_SIZE = 1
    PARTS = 2
    MaxRequests = 3
    MaxTrades = 1
    MaxFaults = 0
PROPERTY Drains
CHECK_DEADLOCK FALSE
