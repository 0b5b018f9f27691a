---------------------------- MODULE MCEpollServer ---------------------------
EXTENDS EpollServer

\* numbers with different digits; a string shorter and one longer than its
\* field; two fields the client leaves unset
MCRequests ==
    {[type |-> O,
      value |-> [UserRefNum |-> 668, Side |-> 1, Quantity |-> 1253,
                 Symbol |-> <<1, 2, 3>>, Price |-> 2054353, TimeInForce |-> 3,
                 Display |-> 4, Capacity |-> 5, InterMarketSweepElig |-> 6,
                 ClOrdID |-> [i \in 1 .. 20 |-> i % 6]]],
     [type |-> X, value |-> [UserRefNum |-> 668, Quantity |-> 83]]}

Symmetry == Permutations(Conns)
=============================================================================
