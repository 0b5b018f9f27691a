--------------------------- MODULE LockstepBooks ---------------------------
(***************************************************************************)
(* The benchmark's replay: the same script of calls is made on all three   *)
(* books (README: "Same op script hits every impl").  The script cancels   *)
(* an order under the id its insertion returned in each book; the list and *)
(* the vector count ids from 2, the tick book from 1.                      *)
(***************************************************************************)
EXTENDS OrderBooks

CONSTANTS Limits,       \* prices of limit orders
          Quantities,   \* sizes of orders
          MaxOrders     \* orders that enter a book

ASSUME ScriptAssumption == Limits \subseteq 1 .. Size - 1 /\ 0 \notin Quantities

VARIABLES v_book, v_counter, v_result, l_half, l_counter, l_result,
          t_half, t_counter, t_result,
          overtaken     \* history: a market order has come to rest at the tick
                        \* of an older limit order

Vector == INSTANCE VectorBook
            WITH book <- v_book, counter <- v_counter, result <- v_result
List == INSTANCE ListBook
            WITH half <- l_half, counter <- l_counter, result <- l_result
Tick == INSTANCE TickBook
            WITH half <- t_half, counter <- t_counter, result <- t_result

vars == <<v_book, v_counter, v_result, l_half, l_counter, l_result,
          t_half, t_counter, t_result, overtaken>>

Init == Vector!Init /\ List!Init /\ Tick!Init /\ overtaken = FALSE

InsertOrder(side, price, size) == /\ t_counter <= MaxOrders
                                  /\ Vector!Insert(side, price, size)
                                  /\ List!Insert(side, price, size)
                                  /\ Tick!Insert(side, price, size)
                                  /\ UNCHANGED overtaken

\* A market order finds nothing and rests where a limit order already does:
\* ahead of it in the list and the vector, behind it in the tick book.
Overtakes(side) ==
    /\ l_half[Other(side)].head = nullptr
    /\ \E n \in DOMAIN l_half[side].node :
         l_half[side].node[n].price = IF side = "buy" THEN Size - 1 ELSE 1

MarketOrder(side, size) == /\ t_counter <= MaxOrders
                           /\ Vector!Market(side, size)
                           /\ List!Market(side, size)
                           /\ Tick!Market(side, size)
                           /\ overtaken' = (overtaken \/ Overtakes(side))

\* also of an order that is gone, or rests on the other side
CancelOrder(side, k) == /\ Vector!Cancel(side, k + 1)
                        /\ List!Cancel(side, k + 1)
                        /\ Tick!Cancel(side, k)
                        /\ UNCHANGED overtaken

Next == \E side \in Sides :
          \/ \E price \in Limits, n \in Quantities : InsertOrder(side, price, n)
          \/ \E n \in Quantities : MarketOrder(side, n)
          \/ \E k \in 1 .. t_counter - 1 : CancelOrder(side, k)

Spec == Init /\ [][Next]_vars
-----------------------------------------------------------------------------
\* an order of the list or vector as the tick book has it
InTicks(order) ==
    IF order = NoOrder THEN order
    ELSE [order EXCEPT !.id = @ - 1,
                       !.price = IF @ = UINT64_MAX THEN Size - 1
                                 ELSE IF @ = 0 THEN 1 ELSE @]

(* README: "Same op script hits every impl -> results are directly         *)
(* comparable".  The three books answer every call of the script alike and *)
(* hold the same orders in the same priority, top of book included, as     *)
(* long as no market order has come to rest at the tick of an older limit  *)
(* order: limit orders at the last tick, the script's price 1 included,    *)
(* do no harm by themselves, nor do market orders that rest first.         *)
BooksAgree ==
    \/ overtaken
    \/ /\ v_result = l_result
       /\ l_result = IF t_result = 0 THEN 0 ELSE t_result + 1
       /\ \A s \in Sides :
            /\ Vector!Resting(s) = List!Resting(s)
            /\ Tick!Resting(s) = [i \in DOMAIN List!Resting(s) |->
                                    InTicks(List!Resting(s)[i])]
            /\ Vector!top_of_book[s] = List!top_of_book[s]
            /\ Tick!top_of_book[s] = InTicks(List!top_of_book[s])

(* The pointers, maps and cached indices that make the books fast always   *)
(* describe the resting orders exactly, through every mix of inserts,      *)
(* fills, market sweeps and cancels from head, middle and tail.            *)
BooksSound == List!Linked /\ Tick!Levels
=============================================================================
