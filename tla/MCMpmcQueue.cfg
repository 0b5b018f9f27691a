CONSTANTS
    Size = 4
    Producers = {p1, p2}
    Consumers = {c1, c2}
    ITER = 3
SPECIFICATION FairSpec
INVARIANTS CellExclusive SequenceInv TakenIsClaimed
PROPERTIES AllJoin
