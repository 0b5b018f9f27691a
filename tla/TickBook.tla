------------------------------ MODULE TickBook ------------------------------
(***************************************************************************)
(* tick_offset_str.cpp: one list of blocks per price, FIFO, with the best  *)
(* price cached and a map from ids to blocks.  half[side] is               *)
(*   node    the live blocks, by address: an order with prev and next      *)
(*   buffer  per price nullptr or a list [head, tail]                      *)
(*   keys    the ids in the unordered_map; id i leads to block i           *)
(*   best    best_buy_idx (0: none) or best_sell_idx (Size: none)          *)
(***************************************************************************)
EXTENDS OrderBooks

VARIABLES half, counter, result
vars == <<half, counter, result>>

Prices == 0 .. Size - 1
NoList == [head |-> nullptr, tail |-> nullptr]  \* a null BuyList or SellList
None(side) == IF side = "buy" THEN 0 ELSE Size

Init == /\ half = [s \in Sides |-> [node |-> <<>>, keys |-> {},
                                    buffer |-> [p \in Prices |-> NoList],
                                    best |-> None(s)]]
        /\ counter = 1 /\ result = 0

\* the while loops that move the best index past prices without a list
Settle(side, h) ==
    LET used == {p \in Prices : /\ h.buffer[p] # NoList
                                /\ ~Ahead(side, p, h.best)}
    IN  [h EXCEPT !.best =
           IF used = {} THEN None(side)
           ELSE CHOOSE p \in used : \A q \in used : ~Ahead(side, q, p)]

\* Mutant of ListWithout: a cancelled last block stays the tail.
ListWithoutKeepTail(h, n) ==
    LET b == h.node[n]
        lst == h.buffer[b.price]
    IN  CASE b.prev = nullptr /\ b.next = nullptr -> NoList
          [] b.prev = nullptr /\ b.next # nullptr -> [lst EXCEPT !.head = b.next]
          [] OTHER -> lst

\* the list of n's price once n has left it
ListWithout(h, n) ==
    LET b == h.node[n]
        lst == h.buffer[b.price]
    IN  CASE b.prev = nullptr /\ b.next = nullptr -> NoList
          [] b.prev # nullptr /\ b.next = nullptr -> [lst EXCEPT !.tail = b.prev]
          [] b.prev = nullptr /\ b.next # nullptr -> [lst EXCEPT !.head = b.next]
          [] OTHER -> lst

\* the list, unlink, keys.erase, delete, and the best index
Delete(side, h, n) ==
    LET b == h.node[n]
    IN  Settle(side,
          [h EXCEPT !.buffer[b.price] = ListWithout(h, n),
                    !.keys = @ \ {n},
                    !.node = [m \in DOMAIN h.node \ {n} |->
                       [h.node[m] EXCEPT !.next = IF m = b.prev THEN b.next ELSE @,
                                         !.prev = IF m = b.next THEN b.prev ELSE @]]])

\* the new block goes to the end of its price
AppendToPrice(side, h, order) ==
    LET n == order.id
        t == h.buffer[order.price].tail
    IN  [node   |-> [m \in DOMAIN h.node \cup {n} |->
                       IF m = n THEN [price |-> order.price, size |-> order.size,
                                      prev |-> t, next |-> nullptr]
                       ELSE [h.node[m] EXCEPT !.next = IF m = t THEN n ELSE @]],
         buffer |-> [h.buffer EXCEPT ![order.price] =
                       [head |-> IF t = nullptr THEN n ELSE @.head, tail |-> n]],
         keys   |-> h.keys \cup {n},
         best   |-> IF h.best = None(side) \/ Ahead(side, order.price, h.best)
                    THEN order.price ELSE h.best]

FrontBlock(h) == h.buffer[h.best].head
Reduce(side, h, n) == IF h.node[FrontBlock(h)].size <= n THEN Delete(side, h, FrontBlock(h))
                      ELSE [h EXCEPT !.node[FrontBlock(h)].size = @ - n]

RECURSIVE Match(_)
Match(b) ==
    IF \/ b["buy"].best = None("buy") \/ b["sell"].best = None("sell")
       \/ b["buy"].best < b["sell"].best
    THEN b
    ELSE LET fill == Least(b["buy"].node[FrontBlock(b["buy"])].size,
                           b["sell"].node[FrontBlock(b["sell"])].size)
         IN  Match([s \in Sides |-> Reduce(s, b[s], fill)])

\* a price outside the ticks is refused, and takes no id
Insert(side, price, size) ==
    IF price = 0 \/ price >= Size
    THEN result' = 0 /\ UNCHANGED <<half, counter>>
    ELSE /\ half' = Match([half EXCEPT ![side] =
              AppendToPrice(side, @, [id |-> counter, price |-> price, size |-> size])])
         /\ counter' = counter + 1
         /\ result' = counter

Cancel(side, id) ==
    /\ half' = IF id \in half[side].keys
               THEN [half EXCEPT ![side] = Delete(side, @, id)] ELSE half
    /\ result' = IF id \in half[side].keys THEN id ELSE 0
    /\ UNCHANGED counter

RECURSIVE Sweep(_, _, _, _)
Sweep(side, h, remaining, last_id) ==
    IF remaining = 0 \/ h.best = None(side) THEN [half |-> h, last_id |-> last_id]
    ELSE Sweep(side, Reduce(side, h, remaining),
               remaining - Least(h.node[FrontBlock(h)].size, remaining), FrontBlock(h))

\* a market order that finds nothing rests at the last price there is
Market(side, size) ==
    LET swept == Sweep(Other(side), half[Other(side)], size, 0)
    IN  IF swept.last_id = 0
        THEN Insert(side, IF side = "buy" THEN Size - 1 ELSE 1, size)
        ELSE /\ half' = [half EXCEPT ![Other(side)] = swept.half]
             /\ result' = swept.last_id
             /\ UNCHANGED counter

top_of_book == [s \in Sides |->
    IF half[s].best = None(s) THEN NoOrder
    ELSE [id |-> FrontBlock(half[s]), price |-> half[s].best,
          size |-> half[s].node[FrontBlock(half[s])].size]]
-----------------------------------------------------------------------------
RECURSIVE From(_, _)
From(h, n) == IF n = nullptr THEN <<>>
              ELSE <<[id |-> n, price |-> h.node[n].price,
                      size |-> h.node[n].size]>> \o From(h, h.node[n].next)

\* from the best price to the last, each price from its head on
Resting(side) ==
    LET at(p) == From(half[side], half[side].buffer[p].head)
        up == FlattenSeq([i \in 1 .. Size |-> at(i - 1)])
        down == FlattenSeq([i \in 1 .. Size |-> at(Size - i)])
    IN  IF side = "buy" THEN down ELSE up

(* Each price's list holds exactly its live blocks, linked both ways; the  *)
(* map knows exactly the live blocks; the best index is the best price     *)
(* that has a list.                                                        *)
Levels == \A s \in Sides : LET h == half[s] IN
    /\ h.keys = DOMAIN h.node
    /\ \A p \in Prices : LET on == {n \in DOMAIN h.node : h.node[n].price = p} IN
         /\ (h.buffer[p] = NoList) = (on = {})
         /\ \A n \in on :
              /\ IF h.node[n].prev = nullptr THEN h.buffer[p].head = n
                 ELSE h.node[n].prev \in on /\ h.node[h.node[n].prev].next = n
              /\ IF h.node[n].next = nullptr THEN h.buffer[p].tail = n
                 ELSE h.node[n].next \in on /\ h.node[h.node[n].next].prev = n
    /\ h.best = Settle(s, [h EXCEPT !.best = IF s = "buy" THEN Size ELSE 0]).best
=============================================================================
