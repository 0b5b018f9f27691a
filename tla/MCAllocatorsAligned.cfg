CONSTANTS
    Size = 1
    HeapWords = 15
    Workload <- CoalescingOnly
SPECIFICATION AllocatorsSpec
INVARIANTS PayloadsAligned
