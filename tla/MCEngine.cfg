SPECIFICATION Spec
CONSTANTS
    BUFFER_SIZE = 3
    ALLOCATOR_SIZE = 3
    MARKETPRICE = 9
    Accounts = {a1, a2}
    UserRefNums = {r1, r2}
    Quantities = {0, 1, 2}
    MaxOrders = 4
    DistinctRefs = TRUE
SYMMETRY ClientSymmetry
INVARIANTS LevelsInv BestInv Uncrossed CancelFindsOrder NoUseAfterFree ClientsKnowOpenQty
PROPERTIES PriceTimePriority InsertAdvances
