------------------------------ MODULE ListBook ------------------------------
(***************************************************************************)
(* list_str.cpp: each side is a doubly linked list sorted from the best    *)
(* order on, with an index from ids to blocks.  half[side] is              *)
(*   node   the live blocks, by address: an order with prev and next       *)
(*   head, tail                                                            *)
(*   index  the ids in the unordered_map; id i leads to block i            *)
(***************************************************************************)
EXTENDS OrderBooks

VARIABLES half, counter, result
vars == <<half, counter, result>>

Init == /\ half = [s \in Sides |-> [node |-> <<>>, head |-> nullptr,
                                    tail |-> nullptr, index |-> {}]]
        /\ counter = 1 /\ result = 0

\* the block at which the walk from the head stops, or nullptr
RECURSIVE Walk(_, _, _, _)
Walk(side, h, cur, order) ==
    IF cur = nullptr \/ ~operator_gt(side, h.node[cur], order) THEN cur
    ELSE Walk(side, h, h.node[cur].next, order)

\* the new block goes in front of cur, or to the end
Link(h, cur, order) ==
    LET n == order.id
        p == IF cur = nullptr THEN h.tail ELSE h.node[cur].prev
    IN  [node  |-> [m \in DOMAIN h.node \cup {n} |->
                      IF m = n THEN [id |-> n, price |-> order.price,
                                     size |-> order.size, prev |-> p, next |-> cur]
                      ELSE [h.node[m] EXCEPT !.next = IF m = p THEN n ELSE @,
                                             !.prev = IF m = cur THEN n ELSE @]],
         head  |-> IF p = nullptr THEN n ELSE h.head,
         tail  |-> IF cur = nullptr THEN n ELSE h.tail,
         index |-> h.index \cup {n}]

\* unlink, index.erase and delete
Delete(h, n) ==
    LET p == h.node[n].prev
        q == h.node[n].next
    IN  [node  |-> [m \in DOMAIN h.node \ {n} |->
                      [h.node[m] EXCEPT !.next = IF m = p THEN q ELSE @,
                                        !.prev = IF m = q THEN p ELSE @]],
         head  |-> IF p = nullptr THEN q ELSE h.head,
         tail  |-> IF q = nullptr THEN p ELSE h.tail,
         index |-> h.index \ {n}]

Best(h) == h.node[h.head]

\* the best order without n of its size, gone when nothing is left
Reduce(h, n) == IF Best(h).size <= n THEN Delete(h, h.head)
                ELSE [h EXCEPT !.node[h.head].size = @ - n]

RECURSIVE Match(_)
Match(b) ==
    IF \/ b["buy"].head = nullptr \/ b["sell"].head = nullptr
       \/ Best(b["buy"]).price < Best(b["sell"]).price
    THEN b
    ELSE LET fill == Least(Best(b["buy"]).size, Best(b["sell"]).size)
         IN  Match([s \in Sides |-> Reduce(b[s], fill)])

Insert(side, price, size) ==
    LET order == [id |-> counter + 1, price |-> price, size |-> size]
        cur == Walk(side, half[side], half[side].head, order)
    IN  /\ half' = Match([half EXCEPT ![side] = Link(@, cur, order)])
        /\ counter' = counter + 1
        /\ result' = counter + 1

Cancel(side, id) ==
    /\ half' = IF id \in half[side].index
               THEN [half EXCEPT ![side] = Delete(@, id)] ELSE half
    /\ result' = IF id \in half[side].index THEN id ELSE 0
    /\ UNCHANGED counter

RECURSIVE Sweep(_, _, _)
Sweep(h, remaining, last_id) ==
    IF remaining = 0 \/ h.head = nullptr THEN [half |-> h, last_id |-> last_id]
    ELSE Sweep(Reduce(h, remaining),
               remaining - Least(Best(h).size, remaining), h.head)

Market(side, size) ==
    LET swept == Sweep(half[Other(side)], size, 0)
    IN  IF swept.last_id = 0
        THEN Insert(side, IF side = "buy" THEN UINT64_MAX ELSE 0, size)
        ELSE /\ half' = [half EXCEPT ![Other(side)] = swept.half]
             /\ result' = swept.last_id
             /\ UNCHANGED counter

top_of_book == [s \in Sides |->
    IF half[s].head = nullptr THEN NoOrder
    ELSE [id |-> Best(half[s]).id, price |-> Best(half[s]).price,
          size |-> Best(half[s]).size]]
-----------------------------------------------------------------------------
\* the orders from block n on
RECURSIVE From(_, _)
From(h, n) == IF n = nullptr THEN <<>>
              ELSE <<[id |-> n, price |-> h.node[n].price,
                      size |-> h.node[n].size]>> \o From(h, h.node[n].next)

Resting(side) == From(half[side], half[side].head)

(* Every link leads to a live block and back, the ends are the ends, and   *)
(* the index knows exactly the live blocks.                                *)
Linked == \A s \in Sides : LET h == half[s] IN
    /\ h.index = DOMAIN h.node
    /\ {h.head, h.tail} \subseteq DOMAIN h.node \cup {nullptr}
    /\ \A n \in DOMAIN h.node :
         LET p == h.node[n].prev
             q == h.node[n].next
         IN  /\ IF p = nullptr THEN h.head = n
                ELSE p \in DOMAIN h.node /\ h.node[p].next = n
             /\ IF q = nullptr THEN h.tail = n
                ELSE q \in DOMAIN h.node /\ h.node[q].prev = n
=============================================================================
