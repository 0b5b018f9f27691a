CONSTANTS
    Size = 5
    HeapWords = 26
    Workload <- MCWorkload
SPECIFICATION AllocatorsSpec
INVARIANTS FreeListInv FullMeansAllLive BlocksTile HeldIntact NoFreeNeighbours ListIsFreeBlocks
PROPERTIES NoDoubleAllocation HeapSpec
