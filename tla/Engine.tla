------------------------------- MODULE Engine -------------------------------
(***************************************************************************)
(* Engine<QUEUE_SIZE, BUFFER_SIZE, ALLOCATOR_SIZE>: the price-time matching *)
(* engine.  order_buffer[p] is the level of price p, shared by both sides: *)
(* a doubly linked list of order blocks threaded through the pool of       *)
(* module Allocator.  The engine is one thread; each publish may wait for  *)
(* room in the outgoing queue, so an operation is cut into one step per    *)
(* message it publishes, together with the code up to the next one.        *)
(*                                                                         *)
(* A decoded request is its fields; symbol, timestamp, capacity and the    *)
(* other fields that are only echoed are left out.  A slot's `raw` copy of *)
(* the request is its side and price: deallocate writes the free-list      *)
(* pointer over the first eight bytes, the side included; what else a free *)
(* slot still holds is not kept apart.                                     *)
(*                                                                         *)
(* A published message is what it says about the order's open quantity:    *)
(* open[k] is Accepted minus Executed minus Canceled over the messages     *)
(* sent for key k, a ghost that no guard of the code reads.  Prices and    *)
(* match numbers in the messages are those of the step that sends them.    *)
(***************************************************************************)
EXTENDS Integers, Sequences, FiniteSets, Functions

CONSTANTS BUFFER_SIZE,      \* number of price levels
          ALLOCATOR_SIZE,   \* number of order blocks
          MARKETPRICE,      \* the price that means "market"
          Accounts, UserRefNums, Quantities,
          MaxOrders,        \* bound on the orders entered
          DistinctRefs      \* do clients use a UserRefNum once (as OUCH asks)?

ASSUME EngineAssumption ==
    /\ BUFFER_SIZE \in Nat \ {0}
    /\ ALLOCATOR_SIZE \in Nat \ {0}
    /\ MARKETPRICE \in Nat /\ MARKETPRICE >= BUFFER_SIZE
    /\ Quantities \subseteq Nat
    /\ MaxOrders \in Nat
    /\ DistinctRefs \in BOOLEAN

VARIABLES block,            \* block[s]: the OrderBlock in pool slot s
          order_buffer,     \* head and tail of every level
          order_blocks_map, buy_orders, sell_orders,
          best_buy_idx, best_sell_idx, counter, match_counter,
          free_head, next, live, free_list,     \* the pool
          at,               \* where the engine thread is
          order,            \* the request being inserted, with curr_qty and id
          open

bookVars == <<block, order_buffer, order_blocks_map, buy_orders, sell_orders,
              best_buy_idx, best_sell_idx>>
poolVars == <<free_head, next, live, free_list>>
counters == <<counter, match_counter>>
vars == <<bookVars, poolVars, counters, at, order, open>>

Pool == INSTANCE Allocator WITH Size <- ALLOCATOR_SIZE

Slots == 1 .. ALLOCATOR_SIZE
nullptr == 0
Prices == 0 .. BUFFER_SIZE - 1
order_key(account, user_ref_num) == <<account, user_ref_num>>
Keys == Accounts \X UserRefNums

EnterRequest == [account : Accounts, ref : UserRefNums, side : {"B", "S", "T"},
                 price : Prices \cup {MARKETPRICE}, qty : Quantities]

NoOrder == [side |-> "none"]
OrderKey == order_key(order.account, order.ref)
EmptyLevel == [head |-> nullptr, tail |-> nullptr]
FreshBlock == [id |-> 0, key |-> <<>>, curr_qty |-> 0,
               raw |-> [side |-> "none", price |-> 0],
               prev |-> nullptr, next |-> nullptr]

Init == /\ Pool!Init
        /\ block = [s \in Slots |-> FreshBlock]
        /\ order_buffer = [p \in Prices |-> EmptyLevel]
        /\ order_blocks_map = <<>>
        /\ buy_orders = 0 /\ sell_orders = 0
        /\ best_buy_idx = 0 /\ best_sell_idx = BUFFER_SIZE
        /\ counter = 0 /\ match_counter = 0
        /\ at = "idle" /\ order = NoOrder
        /\ open = <<>>
-----------------------------------------------------------------------------
(* publish: what the message for key k tells the client about the quantity *)
(* of its order that is still open.                                        *)
publish(k, delta) ==
    open' = [x \in DOMAIN open \cup {k} |->
               (IF x \in DOMAIN open THEN open[x] ELSE 0)
               + (IF x = k THEN delta ELSE 0)]

send_accepted(k, qty) == publish(k, qty)
send_executed(k, qty) == publish(k, -qty)
send_cancelled(k, qty) == publish(k, -qty)
send_cancel_rejected(k) == UNCHANGED open       \* nothing changes
-----------------------------------------------------------------------------
\* Mutant of unlink: the tail keeps pointing at the removed block.
unlinkKeepTail(blk, list, b) ==
    LET p == blk[b].prev
        n == blk[b].next
    IN [blocks |-> [s \in Slots |->
                      CASE s = b -> [blk[s] EXCEPT !.prev = nullptr,
                                                   !.next = nullptr]
                        [] s = p /\ s # b -> [blk[s] EXCEPT !.next = n]
                        [] s = n /\ s # b -> [blk[s] EXCEPT !.prev = p]
                        [] OTHER -> blk[s]],
        level |-> [head |-> IF p = nullptr THEN n ELSE list.head,
                   tail |-> list.tail]]

(* The intrusive list of a level: the new blocks and the new level.        *)
unlink(blk, list, b) ==
    LET p == blk[b].prev
        n == blk[b].next
    IN [blocks |-> [s \in Slots |->
                      CASE s = b -> [blk[s] EXCEPT !.prev = nullptr,
                                                   !.next = nullptr]
                        [] s = p /\ s # b -> [blk[s] EXCEPT !.next = n]
                        [] s = n /\ s # b -> [blk[s] EXCEPT !.prev = p]
                        [] OTHER -> blk[s]],
        level |-> [head |-> IF p = nullptr THEN n ELSE list.head,
                   tail |-> IF n = nullptr THEN p ELSE list.tail]]

\* Mutant of append_list: the new block goes to the front of its level.
push_front(blk, list, b) ==
    [blocks |-> [s \in Slots |->
                   CASE s = b -> [blk[s] EXCEPT !.prev = nullptr,
                                                !.next = list.head]
                     [] s = list.head /\ s # b -> [blk[s] EXCEPT !.prev = b]
                     [] OTHER -> blk[s]],
     level |-> [head |-> b,
                tail |-> IF list.tail = nullptr THEN b ELSE list.tail]]

append_list(blk, list, b) ==
    [blocks |-> [s \in Slots |->
                   CASE s = b -> [blk[s] EXCEPT !.next = nullptr,
                                                !.prev = list.tail]
                     [] s = list.tail /\ s # b -> [blk[s] EXCEPT !.next = b]
                     [] OTHER -> blk[s]],
     level |-> [head |-> IF list.tail = nullptr THEN b ELSE list.head,
                tail |-> b]]

(* A freed slot: the free-list pointer lies over its leading bytes, and    *)
(* the rest is not to be read again.                                       *)
Overlaid(blk, b) ==
    [blk EXCEPT ![b] = [FreshBlock EXCEPT !.raw.side = "overlaid"]]

(* The loops that move a best index to the next level in use.              *)
LowestUsed(buffer, from) ==
    CHOOSE i \in from .. BUFFER_SIZE :
       /\ i = BUFFER_SIZE \/ buffer[i].head # nullptr
       /\ \A j \in from .. i - 1 : buffer[j].head = nullptr

HighestUsed(buffer, from) ==
    CHOOSE i \in 0 .. from :
       /\ i = 0 \/ buffer[i].head # nullptr
       /\ \A j \in i + 1 .. from : buffer[j].head = nullptr

\* Mutant of NextBestSell: the index stays on a level that became empty.
NextBestSellStale(buffer, orders, from) ==
    IF orders = 0 THEN BUFFER_SIZE ELSE from

NextBestSell(buffer, orders, from) ==
    IF orders = 0 THEN BUFFER_SIZE ELSE LowestUsed(buffer, from)

\* Mutant of NextBestBuy: the index stays on a level that became empty.
NextBestBuyStale(buffer, orders, from) == IF orders = 0 THEN 0 ELSE from

NextBestBuy(buffer, orders, from) ==
    IF orders = 0 THEN 0 ELSE HighestUsed(buffer, from)

\* Mutant of Erase: a removed order stays in the map.
EraseNothing(map, k) == map

Erase(map, k) == Restrict(map, DOMAIN map \ {k})
-----------------------------------------------------------------------------
(* insert_order: the prologue of insert_buy_order and insert_sell_order,   *)
(* up to the Accepted message.                                             *)
InsertOrder(o) ==
    /\ at = "idle"
    /\ counter < MaxOrders
    /\ DistinctRefs => order_key(o.account, o.ref) \notin DOMAIN open
    /\ o.side \in {"B", "S"}
    /\ counter' = counter + 1
    /\ send_accepted(order_key(o.account, o.ref), o.qty)
    /\ order' = [account |-> o.account, ref |-> o.ref, side |-> o.side,
                 price |-> o.price, id |-> counter', curr_qty |-> o.qty]
    /\ at' = "match"
    /\ UNCHANGED <<bookVars, poolVars, match_counter>>

(* Any other side throws, and nothing on the engine thread catches it.     *)
InvalidSide(o) ==
    /\ at = "idle"
    /\ counter < MaxOrders
    /\ o.side \notin {"B", "S"}
    /\ at' = "terminated"
    /\ UNCHANGED <<bookVars, poolVars, counters, order, open>>

(* The conditions of the two matching loops.                               *)
BuyMatches == /\ sell_orders > 0
              /\ best_sell_idx < BUFFER_SIZE
              /\ best_sell_idx <= order.price
              /\ order.curr_qty > 0

SellLimit == IF order.price = MARKETPRICE THEN 0 ELSE order.price

\* Mutant of SellMatches: a bid at the limit is not hit.
SellMatchesAbove == /\ buy_orders > 0
                    /\ order_buffer[best_buy_idx].head # nullptr
                    /\ best_buy_idx > SellLimit
                    /\ order.curr_qty > 0

SellMatches == /\ buy_orders > 0
               /\ order_buffer[best_buy_idx].head # nullptr
               /\ best_buy_idx >= SellLimit
               /\ order.curr_qty > 0

Matches == IF order.side = "B" THEN BuyMatches ELSE SellMatches

Idx == IF order.side = "B" THEN best_sell_idx ELSE best_buy_idx
Front == order_buffer[Idx].head
\* Mutant of FillQty: the whole incoming quantity is reported.
FillQtyIncoming == order.curr_qty

FillQty == IF block[Front].curr_qty < order.curr_qty
           THEN block[Front].curr_qty ELSE order.curr_qty

(* send_fills: the incoming side's Executed ...                            *)
FillIncoming ==
    /\ at = "match"
    /\ Matches
    /\ match_counter' = match_counter + 1
    /\ send_executed(OrderKey, FillQty)
    /\ at' = "fill"
    /\ UNCHANGED <<bookVars, poolVars, counter, order>>

\* Mutant of PartialFill: an exact fill leaves the resting order in place.
PartialFillExact ==
    /\ block[Front].curr_qty >= order.curr_qty
    /\ block' = [block EXCEPT ![Front].curr_qty = @ - order.curr_qty]
    /\ order' = [order EXCEPT !.curr_qty = 0]
    /\ UNCHANGED <<order_buffer, order_blocks_map, buy_orders, sell_orders,
                   best_buy_idx, best_sell_idx, poolVars>>

(* ... then the resting side's, and what the loop body does to the book.   *)
PartialFill ==
    /\ block[Front].curr_qty > order.curr_qty
    /\ block' = [block EXCEPT ![Front].curr_qty = @ - order.curr_qty]
    /\ order' = [order EXCEPT !.curr_qty = 0]
    /\ UNCHANGED <<order_buffer, order_blocks_map, buy_orders, sell_orders,
                   best_buy_idx, best_sell_idx, poolVars>>

FullFill ==
    LET b == Front
        u == unlink(block, order_buffer[Idx], b)
    IN /\ block[b].curr_qty <= order.curr_qty
       /\ order_blocks_map' = Erase(order_blocks_map, block[b].key)
       /\ order' = [order EXCEPT !.curr_qty = @ - block[b].curr_qty]
       /\ order_buffer' = [order_buffer EXCEPT ![Idx] = u.level]
       /\ block' = Overlaid(u.blocks, b)
       /\ Pool!Deallocate(b)
       /\ IF order.side = "B"
          THEN /\ sell_orders' = sell_orders - 1
               /\ best_sell_idx' = NextBestSell(order_buffer', sell_orders',
                                                best_sell_idx)
               /\ UNCHANGED <<buy_orders, best_buy_idx>>
          ELSE /\ buy_orders' = buy_orders - 1
               /\ best_buy_idx' = NextBestBuy(order_buffer', buy_orders',
                                              best_buy_idx)
               /\ UNCHANGED <<sell_orders, best_sell_idx>>

FillResting ==
    /\ at = "fill"
    /\ send_executed(block[Front].key, FillQty)
    /\ PartialFill \/ FullFill
    /\ at' = "match"
    /\ UNCHANGED counters
-----------------------------------------------------------------------------
(* The end of an insert, once the loop is over.                            *)
Return == /\ at' = "idle"
          /\ order' = NoOrder
          /\ UNCHANGED counters

Filled == /\ at = "match" /\ ~Matches
          /\ order.curr_qty = 0
          /\ Return
          /\ UNCHANGED <<bookVars, poolVars, open>>

(* What is left of a market order never rests.                             *)
CancelMarketRest ==
    /\ at = "match" /\ ~Matches
    /\ order.curr_qty > 0
    /\ order.price = MARKETPRICE
    /\ send_cancelled(OrderKey, order.curr_qty)
    /\ Return
    /\ UNCHANGED <<bookVars, poolVars>>

(* No block left in the pool: the rest is cancelled.                       *)
CancelPoolFull ==
    /\ at = "match" /\ ~Matches
    /\ order.curr_qty > 0
    /\ order.price # MARKETPRICE
    /\ Pool!AllocateFails
    /\ send_cancelled(OrderKey, order.curr_qty)
    /\ Return
    /\ UNCHANGED bookVars

NewBlock == [id |-> order.id, key |-> OrderKey,
             curr_qty |-> order.curr_qty,
             raw |-> [side |-> order.side, price |-> order.price],
             prev |-> nullptr, next |-> nullptr]

RestOrder ==
    /\ at = "match" /\ ~Matches
    /\ order.curr_qty > 0
    /\ order.price # MARKETPRICE
    /\ \E b \in Slots :
         /\ Pool!Allocate(b)
         /\ LET l == append_list([block EXCEPT ![b] = NewBlock],
                                 order_buffer[order.price], b)
            IN /\ block' = l.blocks
               /\ order_buffer' = [order_buffer EXCEPT ![order.price] = l.level]
         /\ order_blocks_map' =
              [k \in DOMAIN order_blocks_map \cup {NewBlock.key} |->
                 IF k = NewBlock.key THEN b ELSE order_blocks_map[k]]
    /\ IF order.side = "B"
       THEN /\ best_buy_idx' = IF order.price > best_buy_idx
                               THEN order.price ELSE best_buy_idx
            /\ buy_orders' = buy_orders + 1
            /\ UNCHANGED <<best_sell_idx, sell_orders>>
       ELSE /\ best_sell_idx' = IF order.price < best_sell_idx
                                THEN order.price ELSE best_sell_idx
            /\ sell_orders' = sell_orders + 1
            /\ UNCHANGED <<best_buy_idx, buy_orders>>
    /\ Return
    /\ UNCHANGED open
-----------------------------------------------------------------------------
(* cancel_order(account, cancel)                                           *)
CancelRejected(account, ref, new_qty) ==
    LET k == order_key(account, ref) IN
    /\ at = "idle"
    /\ k \in DOMAIN order_blocks_map =>
          new_qty >= block[order_blocks_map[k]].curr_qty
    /\ send_cancel_rejected(k)
    /\ UNCHANGED <<bookVars, poolVars, counters, at, order>>

CancelReduced(account, ref, new_qty) ==
    LET k == order_key(account, ref)
        b == order_blocks_map[k]
    IN /\ at = "idle"
       /\ k \in DOMAIN order_blocks_map
       /\ new_qty > 0
       /\ new_qty < block[b].curr_qty
       /\ block' = [block EXCEPT ![b].curr_qty = new_qty]
       /\ send_cancelled(k, block[b].curr_qty - new_qty)
       /\ UNCHANGED <<order_buffer, order_blocks_map, buy_orders, sell_orders,
                      best_buy_idx, best_sell_idx, poolVars, counters, at,
                      order>>

CancelRemoved(account, ref, new_qty) ==
    LET k == order_key(account, ref)
        b == order_blocks_map[k]
        idx == block[b].raw.price           \* read before deallocate
        is_buy == block[b].raw.side = "B"
        u == unlink(block, order_buffer[idx], b)
        emptied == order_buffer'[idx].head = nullptr
    IN /\ at = "idle"
       /\ k \in DOMAIN order_blocks_map
       /\ new_qty = 0
       /\ new_qty < block[b].curr_qty
       /\ order_blocks_map' = Erase(order_blocks_map, k)
       /\ order_buffer' = [order_buffer EXCEPT ![idx] = u.level]
       /\ block' = Overlaid(u.blocks, b)
       /\ Pool!Deallocate(b)
       /\ sell_orders' = IF is_buy THEN sell_orders ELSE sell_orders - 1
       /\ buy_orders' = IF is_buy THEN buy_orders - 1 ELSE buy_orders
       /\ best_buy_idx' = IF emptied /\ is_buy /\ idx = best_buy_idx
                          THEN NextBestBuy(order_buffer', buy_orders', idx)
                          ELSE best_buy_idx
       /\ best_sell_idx' = IF emptied /\ ~is_buy /\ idx = best_sell_idx
                           THEN NextBestSell(order_buffer', sell_orders', idx)
                           ELSE best_sell_idx
       /\ send_cancelled(k, block[b].curr_qty)
       /\ UNCHANGED <<counters, at, order>>

CancelOrder == \E a \in Accounts, r \in UserRefNums, q \in Quantities \cup {0} :
                  \/ CancelRejected(a, r, q)
                  \/ CancelReduced(a, r, q)
                  \/ CancelRemoved(a, r, q)

(* std::terminate ended the process.                                       *)
Terminated == at = "terminated" /\ UNCHANGED vars

Next == \/ \E o \in EnterRequest : InsertOrder(o) \/ InvalidSide(o)
        \/ FillIncoming
        \/ FillResting
        \/ Filled
        \/ CancelMarketRest
        \/ CancelPoolFull
        \/ RestOrder
        \/ CancelOrder
        \/ Terminated

Spec == Init /\ [][Next]_vars
-----------------------------------------------------------------------------
SideOf(b) == block[b].raw.side
PriceOf(b) == block[b].raw.price
Bids == {b \in live : SideOf(b) = "B"}
Asks == {b \in live : SideOf(b) = "S"}

(* Every variable stays in its type: prices index order_buffer, pointers   *)
(* are pool slots or nullptr, no counter goes below zero.                  *)
EngineTypeOK ==
    /\ \A s \in Slots : /\ block[s].curr_qty \in Nat
                        /\ block[s].prev \in Slots \cup {nullptr}
                        /\ block[s].next \in Slots \cup {nullptr}
                        /\ PriceOf(s) \in Prices
    /\ order_buffer \in [Prices -> [head : Slots \cup {nullptr},
                                    tail : Slots \cup {nullptr}]]
    /\ DOMAIN order_blocks_map \subseteq Keys
    /\ buy_orders \in Nat /\ sell_orders \in Nat
    /\ best_buy_idx \in Prices /\ best_sell_idx \in 0 .. BUFFER_SIZE
    /\ Pool!PoolTypeOK
    /\ at \in {"idle", "match", "fill", "terminated"}

(* Every level's list holds exactly the live blocks of its price, linked   *)
(* both ways from head to tail in order of arrival (unlink, append_list).  *)
LevelsInv ==
    /\ EngineTypeOK
    /\ \A b \in live :
         LET p == block[b].prev
             n == block[b].next
             l == order_buffer[PriceOf(b)]
         IN /\ IF p = nullptr THEN l.head = b
               ELSE p \in live /\ PriceOf(p) = PriceOf(b) /\ block[p].next = b
            /\ IF n = nullptr THEN l.tail = b
               ELSE /\ n \in live /\ PriceOf(n) = PriceOf(b)
                    /\ block[n].prev = b
                    /\ block[b].id < block[n].id
    /\ \A p \in Prices :
         LET l == order_buffer[p] IN
         /\ l.head # nullptr => /\ l.head \in live /\ PriceOf(l.head) = p
                                /\ block[l.head].prev = nullptr
         /\ l.tail # nullptr => /\ l.tail \in live /\ PriceOf(l.tail) = p
                                /\ block[l.tail].next = nullptr
         /\ l.head = nullptr <=> l.tail = nullptr

(* The best indices and the two counts are exact: after any fill, rest or  *)
(* cancel they say what a scan of the whole book would say.                *)
BestInv ==
    /\ buy_orders = Cardinality(Bids)
    /\ sell_orders = Cardinality(Asks)
    /\ IF Bids = {} THEN best_buy_idx = 0
       ELSE /\ \A b \in Bids : PriceOf(b) <= best_buy_idx
            /\ \E b \in Bids : PriceOf(b) = best_buy_idx
    /\ IF Asks = {} THEN best_sell_idx = BUFFER_SIZE
       ELSE /\ \A b \in Asks : PriceOf(b) >= best_sell_idx
            /\ \E b \in Asks : PriceOf(b) = best_sell_idx

(* The book never rests crossed: every bid is below every ask, so the two  *)
(* sides can share one array of levels.                                    *)
Uncrossed == \A b \in Bids, a \in Asks : PriceOf(b) < PriceOf(a)

(* A cancel can find every resting order and nothing else: the map leads   *)
(* from each live block's (account, UserRefNum) back to that block.        *)
CancelFindsOrder ==
    /\ \A b \in live : /\ block[b].key \in DOMAIN order_blocks_map
                       /\ order_blocks_map[block[b].key] = b
    /\ \A k \in DOMAIN order_blocks_map : order_blocks_map[k] \in live

(* README: "Cancel requests always produce a result: Canceled when the     *)
(* open quantity changes, or Cancel Reject when the order is missing".  An *)
(* order that rests is not missing: its key is in the map.                 *)
RestingIsNotMissing == \A b \in live : block[b].key \in DOMAIN order_blocks_map

(* The engine never touches a freed block, whatever UserRefNums clients    *)
(* reuse: the free list shares no slot with the blocks in use; the cancel  *)
(* map leads from each key to a block in use of that key; and the block a  *)
(* matching loop reads through a best index is in use, of the side         *)
(* opposite to the order in hand and of the price it trades at.            *)
NoUseAfterFree ==
    /\ Pool!FreeListInv
    /\ \A k \in DOMAIN order_blocks_map :
         /\ order_blocks_map[k] \in live
         /\ block[order_blocks_map[k]].key = k
    /\ at = "fill" \/ (at = "match" /\ Matches) =>
         /\ Front \in live
         /\ SideOf(Front) = (IF order.side = "B" THEN "S" ELSE "B")
         /\ PriceOf(Front) = Idx

(* What a client can compute from the messages published for its order     *)
(* (Accepted minus Executed minus Canceled) is what the engine still has   *)
(* of it: on the book, or in hand.                                         *)
ClientsKnowOpenQty ==
    at \in {"idle", "match"} =>
      \A k \in DOMAIN open :
        open[k] = (IF k \in DOMAIN order_blocks_map
                   THEN block[order_blocks_map[k]].curr_qty ELSE 0)
                + (IF at = "match" /\ k = OrderKey
                   THEN order.curr_qty ELSE 0)

(* The engine keeps price-time priority: with the lists, indices, map and  *)
(* pool read as one set of resting orders, every step is one of            *)
(* PriceTimeBook or leaves the book as it is.                              *)
Resting == {[id |-> block[b].id, key |-> block[b].key, side |-> SideOf(b),
             price |-> PriceOf(b), qty |-> block[b].curr_qty] : b \in live}
Incoming == IF order = NoOrder THEN NoOrder
            ELSE [id |-> order.id, key |-> OrderKey, side |-> order.side,
                  price |-> order.price, qty |-> order.curr_qty]
Book == INSTANCE PriceTimeBook WITH
            Capacity <- ALLOCATOR_SIZE, MarketPrice <- MARKETPRICE,
            resting <- Resting, incoming <- Incoming, phase <- at,
            lastId <- counter
PriceTimePriority == Book!Spec

(* Every insert ends: each turn of a matching loop trades at least one     *)
(* share of the incoming order, whatever rests at the front of the level,  *)
(* so the loop turns at most curr_qty times (and it never gets stuck: the  *)
(* runs check deadlock).                                                   *)
InsertAdvances == [][at = "fill" => order'.curr_qty < order.curr_qty]_vars
=============================================================================
