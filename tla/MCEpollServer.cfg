SPECIFICATION Spec
CONSTANTS Conns = {c1, c2, c3}
          Descriptors = {3, 4}
          Requests <- MCRequests
          MaxRequests = 2
          MaxTrades = 2
          QUEUE_SIZE = 2
SYMMETRY Symmetry
INVARIANTS RequestsIntact ResponsesIntact
CHECK_DEADLOCK FALSE
