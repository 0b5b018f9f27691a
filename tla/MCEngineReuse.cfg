SPECIFICATION Spec
CONSTANTS
    BUFFER_SIZE = 2
    ALLOCATOR_SIZE = 2
    MARKETPRICE = 9
    Accounts = {a1}
    UserRefNums = {r1, r2}
    Quantities = {1, 2}
    MaxOrders = 3
    DistinctRefs = FALSE
INVARIANT RestingIsNotMissing
