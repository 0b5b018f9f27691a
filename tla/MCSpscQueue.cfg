SPECIFICATION FairSpec
CONSTANTS
    S = 2
    Message = {m1, m2}
    MaxEnqueues = 5
INVARIANTS QueueInv NoDataRace
PROPERTIES FifoSpec NobodySpinsForever
CHECK_DEADLOCK FALSE
