----------------------------- MODULE VectorBook -----------------------------
(***************************************************************************)
(* sorted_vector_str.cpp: each side is a vector sorted by operator<, the   *)
(* best order at the back.                                                 *)
(***************************************************************************)
EXTENDS OrderBooks

VARIABLES book, counter, result
vars == <<book, counter, result>>

Init == book = [s \in Sides |-> <<>>] /\ counter = 1 /\ result = 0

\* where std::lower_bound points: the first element not below the order
LowerBound(side, b, order) ==
    SelectInSeq(b \o <<order>>, LAMBDA o : ~operator_lt(side, o, order))

\* the best order of b without n of its size, gone when nothing is left
Reduce(b, n) == IF Last(b).size <= n THEN Front(b)
                ELSE [b EXCEPT ![Len(b)].size = @ - n]

RECURSIVE Match(_)
Match(b) ==
    IF \/ b["buy"] = <<>> \/ b["sell"] = <<>>
       \/ Last(b["buy"]).price < Last(b["sell"]).price
    THEN b
    ELSE LET fill == Least(Last(b["buy"]).size, Last(b["sell"]).size)
         IN  Match([s \in Sides |-> Reduce(b[s], fill)])

Insert(side, price, size) ==
    LET order == [id |-> counter + 1, price |-> price, size |-> size]
    IN  /\ book' = Match([book EXCEPT ![side] =
                     InsertAt(@, LowerBound(side, @, order), order)])
        /\ counter' = counter + 1
        /\ result' = counter + 1

Cancel(side, id) ==
    /\ book' = [book EXCEPT ![side] = SelectSeq(@, LAMBDA o : o.id # id)]
    /\ result' = IF book' = book THEN 0 ELSE id
    /\ UNCHANGED counter

\* what is left of b, and the id of the last order that was hit
RECURSIVE Sweep(_, _, _)
Sweep(b, remaining, last_id) ==
    IF remaining = 0 \/ b = <<>> THEN [book |-> b, last_id |-> last_id]
    ELSE Sweep(Reduce(b, remaining),
               remaining - Least(Last(b).size, remaining), Last(b).id)

\* a market order that finds nothing rests, one that finds too little does not
Market(side, size) ==
    LET swept == Sweep(book[Other(side)], size, 0)
    IN  IF swept.last_id = 0
        THEN Insert(side, IF side = "buy" THEN UINT64_MAX ELSE 0, size)
        ELSE /\ book' = [book EXCEPT ![Other(side)] = swept.book]
             /\ result' = swept.last_id
             /\ UNCHANGED counter

top_of_book == [s \in Sides |-> IF book[s] = <<>> THEN NoOrder ELSE Last(book[s])]

Resting(side) == Reverse(book[side])
=============================================================================
