CONSTANTS
    Size = 5
    Limits = {1, 2, 3}
    Quantities = {1, 2}
    MaxOrders = 5
SPECIFICATION Spec
INVARIANTS BooksAgree BooksSound
