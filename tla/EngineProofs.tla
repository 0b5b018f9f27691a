---------------------------- MODULE EngineProofs ----------------------------
(***************************************************************************)
(* Proofs about the matching engine for any number of levels and blocks,   *)
(* any clients and quantities and any number of orders.  None of the       *)
(* engine's invariants is inductive by itself: that a matching loop reads  *)
(* the block it means needs the lists to be sound, the best indices to be  *)
(* exact and the book to be uncrossed, and each of the three needs the     *)
(* others when a block is removed.                                         *)
(***************************************************************************)
EXTENDS Engine, FiniteSetTheorems, WellFoundedInduction, TLAPS

PoolProofs == INSTANCE AllocatorProofs WITH Size <- ALLOCATOR_SIZE

Pointer == Slots \cup {nullptr}
BlockType == [id : Nat, key : Keys \cup {<<>>}, curr_qty : Nat,
              raw : [side : {"none", "overlaid", "B", "S"}, price : Prices],
              prev : Pointer, next : Pointer]
LevelType == [head : Pointer, tail : Pointer]
OrderType == [account : Accounts, ref : UserRefNums, side : {"B", "S"},
              price : Prices \cup {MARKETPRICE}, id : Nat, curr_qty : Nat]

(* The lists of LevelsInv, over any blocks, levels and set of live slots.  *)
Linked(blk, buf, lv) ==
    /\ \A b \in lv :
         /\ blk[b].prev = nullptr => buf[blk[b].raw.price].head = b
         /\ blk[b].prev # nullptr =>
              /\ blk[b].prev \in lv
              /\ blk[blk[b].prev].raw.price = blk[b].raw.price
              /\ blk[blk[b].prev].next = b
         /\ blk[b].next = nullptr => buf[blk[b].raw.price].tail = b
         /\ blk[b].next # nullptr =>
              /\ blk[b].next \in lv
              /\ blk[blk[b].next].raw.price = blk[b].raw.price
              /\ blk[blk[b].next].prev = b
              /\ blk[b].id < blk[blk[b].next].id
    /\ \A p \in Prices :
         /\ buf[p].head # nullptr =>
              /\ buf[p].head \in lv
              /\ blk[buf[p].head].raw.price = p
              /\ blk[buf[p].head].prev = nullptr
         /\ buf[p].tail # nullptr =>
              /\ buf[p].tail \in lv
              /\ blk[buf[p].tail].raw.price = p
              /\ blk[buf[p].tail].next = nullptr
         /\ buf[p].head = nullptr <=> buf[p].tail = nullptr

(* BestInv's account of the two indices, over any blocks.                  *)
OnSide(blk, lv, side) == {b \in lv : blk[b].raw.side = side}
IsBestBuy(blk, lv, i) ==
    /\ i \in Prices
    /\ OnSide(blk, lv, "B") = {} => i = 0
    /\ OnSide(blk, lv, "B") # {} =>
         /\ \A b \in OnSide(blk, lv, "B") : blk[b].raw.price <= i
         /\ \E b \in OnSide(blk, lv, "B") : blk[b].raw.price = i
IsBestSell(blk, lv, i) ==
    /\ i \in 0 .. BUFFER_SIZE
    /\ OnSide(blk, lv, "S") = {} => i = BUFFER_SIZE
    /\ OnSide(blk, lv, "S") # {} =>
         /\ \A b \in OnSide(blk, lv, "S") : blk[b].raw.price >= i
         /\ \E b \in OnSide(blk, lv, "S") : blk[b].raw.price = i

(* A sound book: what rests is open, has a side and a number of its own,   *)
(* hangs in the list of its level, and no bid meets an ask.                *)
Sound(blk, buf, lv) ==
    /\ blk \in [Slots -> BlockType]
    /\ buf \in [Prices -> LevelType]
    /\ lv \subseteq Slots
    /\ \A b \in lv : /\ blk[b].raw.side \in {"B", "S"}
                     /\ blk[b].key \in Keys
                     /\ blk[b].curr_qty > 0
    /\ \A b, c \in lv : b # c => blk[b].id # blk[c].id
    /\ Linked(blk, buf, lv)
    /\ \A b, c \in lv : blk[b].raw.side = "B" /\ blk[c].raw.side = "S"
                          => blk[b].raw.price < blk[c].raw.price

CountsInv == /\ buy_orders = Cardinality(OnSide(block, live, "B"))
             /\ sell_orders = Cardinality(OnSide(block, live, "S"))
             /\ IsBestBuy(block, live, best_buy_idx)
             /\ IsBestSell(block, live, best_sell_idx)

(* An entry of the map leads to a live block of that key, whatever         *)
(* UserRefNums clients reuse.                                              *)
MapInv == /\ DOMAIN order_blocks_map \subseteq Keys
          /\ \A k \in DOMAIN order_blocks_map :
               /\ order_blocks_map[k] \in live
               /\ block[order_blocks_map[k]].key = k

PoolInv == Pool!PoolTypeOK /\ Pool!FreeListInv

BookInv == /\ Sound(block, order_buffer, live)
           /\ CountsInv
           /\ MapInv
           /\ PoolInv

InHand == at \in {"match", "fill"}

(* The request in hand is a request numbered after all that rests, and     *)
(* between the two halves of a fill the loop's condition still holds.      *)
OrderInv ==
    /\ at \in {"idle", "match", "fill", "terminated"}
    /\ counter \in Nat
    /\ InHand => order \in OrderType /\ order.id = counter
    /\ ~InHand => order = NoOrder
    /\ at = "fill" => Matches
    /\ \A b \in live : block[b].id <= counter /\ (InHand => block[b].id < counter)

IndInv == BookInv /\ OrderInv

(* What the engine has of the order of key k: on the book, and in hand     *)
(* (during a fill the taker has been told already).                        *)
OnBookQty(k) == IF k \in DOMAIN order_blocks_map
                THEN block[order_blocks_map[k]].curr_qty ELSE 0
InHandQty(k) == IF ~InHand \/ k # OrderKey THEN 0
                ELSE IF at = "fill" THEN order.curr_qty - FillQty
                ELSE order.curr_qty

(* Where no client reuses a UserRefNum: the map is complete, and what the  *)
(* messages add up to is what the engine has.                              *)
ClientInv ==
    /\ \A b \in live : /\ block[b].key \in DOMAIN open
                       /\ block[b].key \in DOMAIN order_blocks_map
                       /\ order_blocks_map[block[b].key] = b
    /\ InHand => /\ OrderKey \in DOMAIN open
                 /\ \A b \in live : block[b].key # OrderKey
    /\ \A k \in DOMAIN open : open[k] = OnBookQty(k) + InHandQty(k)
-----------------------------------------------------------------------------
(* Every non-empty set of naturals has a least member.                     *)
LEMMA LeastOf ==
    ASSUME NEW T, T \subseteq Nat, T # {}
    PROVE  \E x \in T : \A y \in T : x <= y
<1> DEFINE R == {ss \in Nat \X Nat : ss[1] < ss[2]}
<1>1. IsWellFoundedOn(R, Nat)
  BY NatLessThanWellFounded DEF OpToRel
<1>2. \A x, y \in Nat : <<y, x>> \in R <=> y < x
  OBVIOUS
<1> HIDE DEF R
<1>3. PICK x \in T : \A y \in T : ~(<<y, x>> \in R)
  BY <1>1, WFMin
<1>4. ASSUME NEW y \in T PROVE x <= y
  <2>1. x \in Nat /\ y \in Nat
    OBVIOUS
  <2>2. ~(y < x)
    BY <1>2, <1>3, <2>1
  <2> QED
    BY <2>1, <2>2
<1> QED
  BY <1>4

(* Every bounded non-empty set of naturals has a greatest member.          *)
LEMMA GreatestOf ==
    ASSUME NEW n \in Nat, NEW T, T \subseteq 0 .. n, T # {}
    PROVE  \E x \in T : \A y \in T : y <= x
<1> DEFINE D == {n - y : y \in T}
<1>1. D \subseteq Nat /\ D # {}
  <2>1. \A y \in T : n - y \in Nat
    OBVIOUS
  <2>2. PICK y \in T : TRUE
    OBVIOUS
  <2>3. n - y \in D
    OBVIOUS
  <2> QED
    BY <2>1, <2>3
<1>2. PICK d \in D : \A e \in D : d <= e
  <2> HIDE DEF D
  <2> QED
    BY <1>1, LeastOf
<1>3. PICK x \in T : d = n - x
  OBVIOUS
<1>4. ASSUME NEW y \in T PROVE y <= x
  <2>1. n - y \in D
    OBVIOUS
  <2>2. n - x <= n - y
    BY <1>2, <1>3, <2>1
  <2>3. x \in 0 .. n /\ y \in 0 .. n
    OBVIOUS
  <2> HIDE DEF D
  <2> QED
    BY <2>2, <2>3
<1> QED
  BY <1>4
-----------------------------------------------------------------------------
(* A level that has a block has a head, its oldest block: the block of     *)
(* that price that arrived first has no predecessor.                       *)
LEMMA HeadIsOldest ==
    ASSUME NEW blk \in [Slots -> BlockType], NEW buf, NEW lv, lv \subseteq Slots,
           Linked(blk, buf, lv), NEW b \in lv
    PROVE  /\ buf[blk[b].raw.price].head # nullptr
           /\ blk[buf[blk[b].raw.price].head].id <= blk[b].id
<1> DEFINE Same == {c \in lv : blk[c].raw.price = blk[b].raw.price}
           Ids == {blk[c].id : c \in Same}
<1>1. Ids \subseteq Nat /\ Ids # {}
  BY DEF BlockType
<1>2. PICK i \in Ids : \A j \in Ids : i <= j
  <2> HIDE DEF Ids
  <2> QED
    BY <1>1, LeastOf
<1>3. PICK c \in Same : i = blk[c].id
  OBVIOUS
<1>4. blk[c].prev = nullptr
  <2> SUFFICES ASSUME blk[c].prev # nullptr PROVE FALSE
    OBVIOUS
  <2> DEFINE d == blk[c].prev
  <2>1. d \in lv /\ blk[d].raw.price = blk[c].raw.price /\ blk[d].next = c
    BY DEF Linked
  <2>2. c # nullptr /\ d \in Slots /\ c \in Slots
    BY <2>1 DEF Slots, nullptr
  <2>3. blk[d].id < blk[c].id
    BY <2>1, <2>2 DEF Linked
  <2>4. d \in Same
    BY <2>1
  <2>5. blk[c].id <= blk[d].id
    BY <1>2, <1>3, <2>4
  <2>6. blk[c].id \in Nat /\ blk[d].id \in Nat
    BY <2>2 DEF BlockType
  <2> QED
    BY <2>3, <2>5, <2>6
<1>5. buf[blk[c].raw.price].head = c
  BY <1>4 DEF Linked
<1>6. blk[c].id <= blk[b].id
  <2>1. b \in Same
    OBVIOUS
  <2> QED
    BY <1>2, <1>3, <2>1
<1> QED
  BY <1>5, <1>6 DEF Slots, nullptr

(* A level with a resting order has a head.                                *)
LEMMA LevelHasHead ==
    ASSUME NEW blk \in [Slots -> BlockType], NEW buf, NEW lv, lv \subseteq Slots,
           Linked(blk, buf, lv), NEW b \in lv
    PROVE  buf[blk[b].raw.price].head # nullptr
  BY HeadIsOldest

(* unlink(list, b), then the deallocation of b: what the other blocks and  *)
(* the level are afterwards.                                               *)
Unlinked(blk, buf, b) ==
    Overlaid(unlink(blk, buf[blk[b].raw.price], b).blocks, b)
UnlinkedLevels(blk, buf, b) ==
    [buf EXCEPT ![blk[b].raw.price] = unlink(blk, buf[blk[b].raw.price], b).level]

(* Unlinking a block leaves the other blocks linked as they were.          *)
LEMMA UnlinkEffect ==
    ASSUME NEW blk \in [Slots -> BlockType], NEW buf \in [Prices -> LevelType],
           NEW lv, lv \subseteq Slots, Linked(blk, buf, lv), NEW b \in lv,
           NEW new, new = Unlinked(blk, buf, b),
           NEW lev, lev = UnlinkedLevels(blk, buf, b),
           NEW p, p = blk[b].raw.price
    PROVE  /\ new \in [Slots -> BlockType]
           /\ lev \in [Prices -> LevelType]
           /\ \A s \in Slots \ {b} :
                /\ new[s].id = blk[s].id
                /\ new[s].key = blk[s].key
                /\ new[s].curr_qty = blk[s].curr_qty
                /\ new[s].raw = blk[s].raw
                /\ new[s].next = IF s = blk[b].prev THEN blk[b].next ELSE blk[s].next
                /\ new[s].prev = IF s = blk[b].next THEN blk[b].prev ELSE blk[s].prev
           /\ \A q \in Prices : q # p => lev[q] = buf[q]
           /\ lev[p].head = IF blk[b].prev = nullptr THEN blk[b].next ELSE buf[p].head
           /\ lev[p].tail = IF blk[b].next = nullptr THEN blk[b].prev ELSE buf[p].tail
<1> DEFINE P == blk[b].prev
           N == blk[b].next
           u == unlink(blk, buf[p], b)
<1>1. /\ b \in Slots /\ p \in Prices /\ P \in Pointer /\ N \in Pointer
      /\ buf[p].head \in Pointer /\ buf[p].tail \in Pointer
  BY DEF BlockType, LevelType
<1>2. P # nullptr => P # N
  <2>1. ASSUME P # nullptr, P = N PROVE FALSE
    <3>1. P \in lv /\ blk[P].next = b /\ P \in Slots
      BY <2>1 DEF Linked
    <3>2. b # nullptr
      BY <1>1 DEF Slots, nullptr
    <3>3. blk[P].id < blk[b].id
      BY <3>1, <3>2 DEF Linked
    <3>4. blk[b].id < blk[P].id
      BY <2>1 DEF Linked
    <3>5. blk[b].id \in Nat /\ blk[P].id \in Nat
      BY <1>1, <3>1 DEF BlockType
    <3> QED
      BY <3>3, <3>4, <3>5
  <2> QED
    BY <2>1
<1>3. b # P /\ b # N
  <2>1. b # nullptr /\ blk[b].id \in Nat
    BY <1>1 DEF Slots, nullptr, BlockType
  <2>2. N # nullptr => blk[b].id < blk[N].id
    BY DEF Linked
  <2>3. P # nullptr => P \in lv /\ blk[P].next = b
    BY DEF Linked
  <2>4. P # nullptr => blk[P].id < blk[b].id
    BY <2>1, <2>3 DEF Linked
  <2> QED
    BY <2>1, <2>2, <2>4
<1>4. u.level = [head |-> IF P = nullptr THEN N ELSE buf[p].head,
                 tail |-> IF N = nullptr THEN P ELSE buf[p].tail]
  BY DEF unlink
<1>5. lev = [buf EXCEPT ![p] = u.level]
  BY DEF UnlinkedLevels
<1>6. lev \in [Prices -> LevelType]
  <2>1. u.level \in LevelType
    BY <1>1, <1>4 DEF LevelType
  <2> QED
    BY <1>5, <2>1
<1>7. new = [s \in Slots |->
               IF s = b THEN [FreshBlock EXCEPT !.raw.side = "overlaid"]
               ELSE IF s = P THEN [blk[s] EXCEPT !.next = N]
               ELSE IF s = N THEN [blk[s] EXCEPT !.prev = P]
               ELSE blk[s]]
  <2>1. new = [u.blocks EXCEPT ![b] = [FreshBlock EXCEPT !.raw.side = "overlaid"]]
    BY DEF Unlinked, Overlaid
  <2>2. u.blocks = [s \in Slots |->
                      CASE s = b -> [blk[s] EXCEPT !.prev = nullptr,
                                                   !.next = nullptr]
                        [] s = P /\ s # b -> [blk[s] EXCEPT !.next = N]
                        [] s = N /\ s # b -> [blk[s] EXCEPT !.prev = P]
                        [] OTHER -> blk[s]]
    BY DEF unlink
  <2>3. ASSUME NEW s \in Slots, s # b
        PROVE  u.blocks[s] = IF s = P THEN [blk[s] EXCEPT !.next = N]
                             ELSE IF s = N THEN [blk[s] EXCEPT !.prev = P]
                             ELSE blk[s]
    <3>1. u.blocks[s] = CASE s = b -> [blk[s] EXCEPT !.prev = nullptr,
                                                   !.next = nullptr]
                        [] s = P /\ s # b -> [blk[s] EXCEPT !.next = N]
                        [] s = N /\ s # b -> [blk[s] EXCEPT !.prev = P]
                        [] OTHER -> blk[s]
      BY <2>2
    <3>2. s = P => s # N
      BY <1>2 DEF Slots, nullptr
    <3> HIDE DEF u, P, N
    <3>3. CASE s = P
      BY <2>3, <3>1, <3>2, <3>3
    <3>4. CASE s = N /\ s # P
      BY <2>3, <3>1, <3>4
    <3>5. CASE s # N /\ s # P
      BY <2>3, <3>1, <3>5
    <3> QED
      BY <3>3, <3>4, <3>5
  <2> HIDE DEF u
  <2>4. new = [s \in Slots |-> IF s = b THEN [FreshBlock EXCEPT !.raw.side = "overlaid"]
                               ELSE u.blocks[s]]
    BY <2>1, <2>2
  <2> QED
    BY <2>3, <2>4
<1>8. new \in [Slots -> BlockType]
  <2>1. [FreshBlock EXCEPT !.raw.side = "overlaid"] \in BlockType
    BY EngineAssumption DEF FreshBlock, BlockType, Prices, Pointer
  <2>2. \A s \in Slots : /\ [blk[s] EXCEPT !.next = N] \in BlockType
                         /\ [blk[s] EXCEPT !.prev = P] \in BlockType
                         /\ blk[s] \in BlockType
    BY <1>1 DEF BlockType
  <2> QED
    BY <1>7, <2>1, <2>2
<1>9. ASSUME NEW s \in Slots \ {b}
      PROVE  /\ new[s].id = blk[s].id
             /\ new[s].key = blk[s].key
             /\ new[s].curr_qty = blk[s].curr_qty
             /\ new[s].raw = blk[s].raw
             /\ new[s].next = IF s = P THEN N ELSE blk[s].next
             /\ new[s].prev = IF s = N THEN P ELSE blk[s].prev
  <2>1. new[s] = IF s = P THEN [blk[s] EXCEPT !.next = N]
                 ELSE IF s = N THEN [blk[s] EXCEPT !.prev = P]
                 ELSE blk[s]
    BY <1>7
  <2>2. blk[s] \in BlockType /\ s # nullptr
    BY DEF Slots, nullptr
  <2> QED
    BY <1>2, <2>1, <2>2 DEF BlockType
<1> QED
  BY <1>1, <1>4, <1>5, <1>6, <1>8, <1>9

(* Removing a block leaves sound lists over the others.                    *)
LEMMA UnlinkLinked ==
    ASSUME NEW blk \in [Slots -> BlockType], NEW buf \in [Prices -> LevelType],
           NEW lv, lv \subseteq Slots, Linked(blk, buf, lv), NEW b \in lv
    PROVE  Linked(Unlinked(blk, buf, b), UnlinkedLevels(blk, buf, b), lv \ {b})
<1> DEFINE P == blk[b].prev
           N == blk[b].next
           p == blk[b].raw.price
<1>1. PICK new, lev : new = Unlinked(blk, buf, b) /\ lev = UnlinkedLevels(blk, buf, b)
  OBVIOUS
<1>2. /\ \A s \in Slots \ {b} :
           /\ new[s].id = blk[s].id
           /\ new[s].raw = blk[s].raw
           /\ new[s].next = IF s = P THEN N ELSE blk[s].next
           /\ new[s].prev = IF s = N THEN P ELSE blk[s].prev
      /\ \A q \in Prices : q # p => lev[q] = buf[q]
      /\ lev[p].head = IF P = nullptr THEN N ELSE buf[p].head
      /\ lev[p].tail = IF N = nullptr THEN P ELSE buf[p].tail
  BY <1>1, UnlinkEffect
<1>3. /\ b \in Slots /\ b # nullptr /\ p \in Prices
      /\ \A s \in Slots : blk[s].raw.price \in Prices
      /\ \A s \in Slots : blk[s].id \in Nat
  BY DEF BlockType, Slots, nullptr
<1>4. /\ P # nullptr => /\ P \in lv /\ P # b /\ blk[P].raw.price = p
                        /\ blk[P].next = b /\ blk[P].id < blk[b].id
      /\ N # nullptr => /\ N \in lv /\ N # b /\ blk[N].raw.price = p
                        /\ blk[N].prev = b /\ blk[b].id < blk[N].id
      /\ P = nullptr => buf[p].head = b
      /\ N = nullptr => buf[p].tail = b
  <2>1. P # nullptr => P \in lv /\ blk[P].raw.price = p /\ blk[P].next = b
    BY DEF Linked
  <2>2. P # nullptr => blk[P].id < blk[b].id
    BY <2>1, <1>3 DEF Linked
  <2>3. N # nullptr => /\ N \in lv /\ blk[N].raw.price = p
                       /\ blk[N].prev = b /\ blk[b].id < blk[N].id
    BY DEF Linked
  <2>4. P = nullptr => buf[p].head = b
    BY DEF Linked
  <2>5. N = nullptr => buf[p].tail = b
    BY DEF Linked
  <2> HIDE DEF P, N, p
  <2>6. P # b \/ P = nullptr
    BY <2>2, <1>3
  <2>7. N # b \/ N = nullptr
    BY <2>3, <1>3
  <2> QED
    BY <2>1, <2>2, <2>3, <2>4, <2>5, <2>6, <2>7
<1> HIDE DEF P, N, p
<1>5. ASSUME NEW c \in lv \ {b}, new[c].prev = nullptr
      PROVE  lev[new[c].raw.price].head = c
  <2>0. c \in Slots /\ c # nullptr
    BY DEF Slots, nullptr
  <2>1. CASE c = N
    BY <1>2, <1>3, <1>4, <1>5, <2>0, <2>1
  <2>2. CASE c # N
    <3>1. blk[c].prev = nullptr /\ new[c].raw = blk[c].raw
      BY <1>2, <1>5, <2>0, <2>2
    <3>2. buf[blk[c].raw.price].head = c
      BY <3>1 DEF Linked
    <3>3. blk[c].raw.price = p => P # nullptr
      BY <1>4, <3>2
    <3> QED
      BY <1>2, <1>3, <2>0, <3>1, <3>2, <3>3
  <2> QED
    BY <2>1, <2>2
<1>6. ASSUME NEW c \in lv \ {b}, new[c].prev # nullptr
      PROVE  /\ new[c].prev \in lv \ {b}
             /\ new[new[c].prev].raw.price = new[c].raw.price
             /\ new[new[c].prev].next = c
  <2>0. c \in Slots /\ c # nullptr
    BY DEF Slots, nullptr
  <2>1. CASE c = N
    <3>1. new[c].prev = P /\ P # nullptr /\ P \in Slots \ {b}
      BY <1>2, <1>4, <1>6, <2>0, <2>1
    <3> QED
      BY <1>2, <1>3, <1>4, <2>0, <2>1, <3>1
  <2>2. CASE c # N
    <3>1. new[c].prev = blk[c].prev /\ new[c].raw = blk[c].raw
      BY <1>2, <2>0, <2>2
    <3>2. /\ blk[c].prev \in lv
          /\ blk[blk[c].prev].raw.price = blk[c].raw.price
          /\ blk[blk[c].prev].next = c
      BY <1>6, <3>1 DEF Linked
    <3>3. blk[c].prev # b
      BY <2>2, <3>2 DEF N
    <3>4. blk[c].prev # P
      BY <1>4, <3>2, <1>6, <3>1
    <3>5. blk[c].prev \in Slots \ {b}
      BY <3>2, <3>3
    <3> QED
      BY <1>2, <3>1, <3>2, <3>3, <3>4, <3>5
  <2> QED
    BY <2>1, <2>2
<1>7. ASSUME NEW c \in lv \ {b}, new[c].next = nullptr
      PROVE  lev[new[c].raw.price].tail = c
  <2>0. c \in Slots /\ c # nullptr
    BY DEF Slots, nullptr
  <2>1. CASE c = P
    BY <1>2, <1>3, <1>4, <1>7, <2>0, <2>1
  <2>2. CASE c # P
    <3>1. blk[c].next = nullptr /\ new[c].raw = blk[c].raw
      BY <1>2, <1>7, <2>0, <2>2
    <3>2. buf[blk[c].raw.price].tail = c
      BY <3>1 DEF Linked
    <3>3. blk[c].raw.price = p => N # nullptr
      BY <1>4, <3>2
    <3> QED
      BY <1>2, <1>3, <2>0, <3>1, <3>2, <3>3
  <2> QED
    BY <2>1, <2>2
<1>8. ASSUME NEW c \in lv \ {b}, new[c].next # nullptr
      PROVE  /\ new[c].next \in lv \ {b}
             /\ new[new[c].next].raw.price = new[c].raw.price
             /\ new[new[c].next].prev = c
             /\ new[c].id < new[new[c].next].id
  <2>0. c \in Slots /\ c # nullptr
    BY DEF Slots, nullptr
  <2>1. CASE c = P
    <3>1. new[c].next = N /\ N # nullptr /\ N \in Slots \ {b}
      BY <1>2, <1>4, <1>8, <2>0, <2>1
    <3>2. P # nullptr
      BY <2>0, <2>1 DEF Slots, nullptr
    <3>3. blk[P].id < blk[N].id
      BY <1>3, <1>4, <3>1, <3>2, <2>0, <2>1
    <3> QED
      BY <1>2, <1>3, <1>4, <2>0, <2>1, <3>1, <3>2, <3>3
  <2>2. CASE c # P
    <3>1. new[c].next = blk[c].next /\ new[c].raw = blk[c].raw /\ new[c].id = blk[c].id
      BY <1>2, <2>0, <2>2
    <3>2. /\ blk[c].next \in lv
          /\ blk[blk[c].next].raw.price = blk[c].raw.price
          /\ blk[blk[c].next].prev = c
          /\ blk[c].id < blk[blk[c].next].id
      BY <1>8, <3>1 DEF Linked
    <3>3. blk[c].next # b
      BY <2>2, <3>2 DEF P
    <3>4. blk[c].next # N
      BY <1>4, <3>2, <1>8, <3>1
    <3>5. blk[c].next \in Slots \ {b}
      BY <3>2, <3>3
    <3> QED
      BY <1>2, <3>1, <3>2, <3>3, <3>4, <3>5
  <2> QED
    BY <2>1, <2>2
<1>9. ASSUME NEW q \in Prices
      PROVE  /\ lev[q].head # nullptr =>
                  /\ lev[q].head \in lv \ {b}
                  /\ new[lev[q].head].raw.price = q
                  /\ new[lev[q].head].prev = nullptr
             /\ lev[q].tail # nullptr =>
                  /\ lev[q].tail \in lv \ {b}
                  /\ new[lev[q].tail].raw.price = q
                  /\ new[lev[q].tail].next = nullptr
             /\ lev[q].head = nullptr <=> lev[q].tail = nullptr
  <2>1. /\ buf[q].head # nullptr => /\ buf[q].head \in lv
                                    /\ blk[buf[q].head].raw.price = q
                                    /\ blk[buf[q].head].prev = nullptr
        /\ buf[q].tail # nullptr => /\ buf[q].tail \in lv
                                    /\ blk[buf[q].tail].raw.price = q
                                    /\ blk[buf[q].tail].next = nullptr
        /\ buf[q].head = nullptr <=> buf[q].tail = nullptr
    BY DEF Linked
  <2>2. /\ P # nullptr /\ q = p => buf[q].head # nullptr /\ buf[q].head # b
        /\ N # nullptr /\ q = p => buf[q].tail # nullptr /\ buf[q].tail # b
    <3>1. q = p => buf[q].head # nullptr
      BY LevelHasHead DEF p
    <3> QED
      BY <2>1, <3>1 DEF P, N
  <2>3. q # p => buf[q].head # b /\ buf[q].tail # b
    BY <2>1, <1>3 DEF p
  <2>4. /\ buf[q].head # nullptr => buf[q].head # N
        /\ buf[q].tail # nullptr => buf[q].tail # P
    BY <1>3, <1>4, <2>1
  <2>5. lev[q].head # nullptr => /\ lev[q].head \in lv \ {b}
                                 /\ new[lev[q].head].raw.price = q
                                 /\ new[lev[q].head].prev = nullptr
    <3>1. CASE q = p /\ P = nullptr
      BY <1>2, <1>4, <3>1
    <3>2. CASE ~(q = p /\ P = nullptr)
      <4>1. lev[q].head = buf[q].head
        BY <1>2, <3>2
      <4> QED
        BY <1>2, <2>1, <2>2, <2>3, <2>4, <3>2, <4>1
    <3> QED
      BY <3>1, <3>2
  <2>6. lev[q].tail # nullptr => /\ lev[q].tail \in lv \ {b}
                                 /\ new[lev[q].tail].raw.price = q
                                 /\ new[lev[q].tail].next = nullptr
    <3>1. CASE q = p /\ N = nullptr
      BY <1>2, <1>4, <3>1
    <3>2. CASE ~(q = p /\ N = nullptr)
      <4>1. lev[q].tail = buf[q].tail
        BY <1>2, <3>2
      <4> QED
        BY <1>2, <2>1, <2>2, <2>3, <2>4, <3>2, <4>1
    <3> QED
      BY <3>1, <3>2
  <2>7. lev[q].head = nullptr <=> lev[q].tail = nullptr
    BY <1>2, <2>1, <2>2
  <2> QED
    BY <2>5, <2>6, <2>7
<1>10. Linked(new, lev, lv \ {b})
  BY <1>5, <1>6, <1>7, <1>8, <1>9 DEF Linked
<1> QED
  BY <1>1, <1>10
-----------------------------------------------------------------------------
(* append_list(list, b) for a block that has just been written: what the   *)
(* other blocks and the level are afterwards.                              *)
Appended(blk, buf, b, nb) ==
    append_list([blk EXCEPT ![b] = nb], buf[nb.raw.price], b).blocks
AppendedLevels(blk, buf, b, nb) ==
    [buf EXCEPT ![nb.raw.price] =
        append_list([blk EXCEPT ![b] = nb], buf[nb.raw.price], b).level]

(* Appending makes the block the youngest of its level.                    *)
LEMMA AppendEffect ==
    ASSUME NEW blk \in [Slots -> BlockType], NEW buf \in [Prices -> LevelType],
           NEW lv, lv \subseteq Slots, Linked(blk, buf, lv),
           NEW b \in Slots \ lv, NEW nb \in BlockType,
           NEW new, new = Appended(blk, buf, b, nb),
           NEW lev, lev = AppendedLevels(blk, buf, b, nb),
           NEW p, p = nb.raw.price
    PROVE  /\ new \in [Slots -> BlockType]
           /\ lev \in [Prices -> LevelType]
           /\ \A s \in Slots \ {b} :
                /\ new[s].id = blk[s].id
                /\ new[s].key = blk[s].key
                /\ new[s].curr_qty = blk[s].curr_qty
                /\ new[s].raw = blk[s].raw
                /\ new[s].next = IF s = buf[p].tail THEN b ELSE blk[s].next
                /\ new[s].prev = blk[s].prev
           /\ new[b].id = nb.id /\ new[b].key = nb.key
           /\ new[b].curr_qty = nb.curr_qty /\ new[b].raw = nb.raw
           /\ new[b].next = nullptr /\ new[b].prev = buf[p].tail
           /\ \A q \in Prices : q # p => lev[q] = buf[q]
           /\ lev[p].head = IF buf[p].tail = nullptr THEN b ELSE buf[p].head
           /\ lev[p].tail = b
           /\ buf[p].tail # b
<1> DEFINE t == buf[p].tail
           wr == [blk EXCEPT ![b] = nb]
           a == append_list(wr, buf[p], b)
<1>1. /\ p \in Prices /\ t \in Pointer /\ b \in Pointer /\ nullptr \in Pointer
      /\ buf[p].head \in Pointer /\ b # nullptr
  BY DEF BlockType, LevelType, Pointer, Slots, nullptr
<1>2. t # b
  BY <1>1 DEF Linked
<1>3. wr \in [Slots -> BlockType] /\ wr[b] = nb /\ \A s \in Slots \ {b} : wr[s] = blk[s]
  OBVIOUS
<1>4. a.level = [head |-> IF t = nullptr THEN b ELSE buf[p].head, tail |-> b]
  BY DEF append_list
<1>5. lev = [buf EXCEPT ![p] = a.level]
  BY DEF AppendedLevels
<1>6. lev \in [Prices -> LevelType]
  <2>1. a.level \in LevelType
    BY <1>1, <1>4 DEF LevelType
  <2> QED
    BY <1>5, <2>1
<1>7. new = [s \in Slots |->
               CASE s = b -> [wr[s] EXCEPT !.next = nullptr, !.prev = t]
                 [] s = t /\ s # b -> [wr[s] EXCEPT !.next = b]
                 [] OTHER -> wr[s]]
  BY DEF Appended, append_list
<1> HIDE DEF wr, a, t
<1>8. new[b] = [nb EXCEPT !.next = nullptr, !.prev = t]
  BY <1>3, <1>7
<1>9. ASSUME NEW s \in Slots \ {b}
      PROVE  new[s] = IF s = t THEN [blk[s] EXCEPT !.next = b] ELSE blk[s]
  <2>1. new[s] = CASE s = b -> [wr[s] EXCEPT !.next = nullptr, !.prev = t]
                   [] s = t /\ s # b -> [wr[s] EXCEPT !.next = b]
                   [] OTHER -> wr[s]
    BY <1>7
  <2>2. CASE s = t
    BY <1>3, <2>1, <2>2
  <2>3. CASE s # t
    BY <1>3, <2>1, <2>3
  <2> QED
    BY <2>2, <2>3
<1>10. new \in [Slots -> BlockType]
  <2>1. new[b] \in BlockType
    BY <1>1, <1>8 DEF BlockType
  <2>2. \A s \in Slots \ {b} : new[s] \in BlockType
    BY <1>1, <1>9, ZenonT(40) DEF BlockType
  <2>3. new = [s \in Slots |-> new[s]]
    BY <1>7
  <2> QED
    BY <2>1, <2>2, <2>3
<1>11. ASSUME NEW s \in Slots \ {b}
       PROVE  /\ new[s].id = blk[s].id
              /\ new[s].key = blk[s].key
              /\ new[s].curr_qty = blk[s].curr_qty
              /\ new[s].raw = blk[s].raw
              /\ new[s].next = IF s = t THEN b ELSE blk[s].next
              /\ new[s].prev = blk[s].prev
  <2>1. blk[s] \in BlockType
    OBVIOUS
  <2> QED
    BY <1>9, <2>1 DEF BlockType
<1>12. /\ new[b].id = nb.id /\ new[b].key = nb.key
       /\ new[b].curr_qty = nb.curr_qty /\ new[b].raw = nb.raw
       /\ new[b].next = nullptr /\ new[b].prev = t
  BY <1>8 DEF BlockType
<1>13. /\ \A q \in Prices : q # p => lev[q] = buf[q]
       /\ lev[p] = a.level
  BY <1>1, <1>5
<1> QED
  BY <1>2, <1>4, <1>6, <1>10, <1>11, <1>12, <1>13 DEF t

(* Appending the newest order leaves sound lists.                          *)
LEMMA AppendLinked ==
    ASSUME NEW blk \in [Slots -> BlockType], NEW buf \in [Prices -> LevelType],
           NEW lv, lv \subseteq Slots, Linked(blk, buf, lv),
           NEW b \in Slots \ lv, NEW nb \in BlockType,
           \A c \in lv : blk[c].id < nb.id
    PROVE  Linked(Appended(blk, buf, b, nb), AppendedLevels(blk, buf, b, nb),
                  lv \cup {b})
<1> DEFINE p == nb.raw.price
           t == buf[p].tail
<1>1. PICK new, lev : /\ new = Appended(blk, buf, b, nb)
                      /\ lev = AppendedLevels(blk, buf, b, nb)
  OBVIOUS
<1>2. /\ \A s \in Slots \ {b} :
           /\ new[s].id = blk[s].id
           /\ new[s].raw = blk[s].raw
           /\ new[s].next = IF s = t THEN b ELSE blk[s].next
           /\ new[s].prev = blk[s].prev
      /\ new[b].id = nb.id /\ new[b].raw = nb.raw
      /\ new[b].next = nullptr /\ new[b].prev = t
      /\ \A q \in Prices : q # p => lev[q] = buf[q]
      /\ lev[p].head = IF t = nullptr THEN b ELSE buf[p].head
      /\ lev[p].tail = b
      /\ t # b
  BY <1>1, AppendEffect
<1>3. /\ b # nullptr /\ p \in Prices
      /\ \A s \in Slots : blk[s].raw.price \in Prices
  BY DEF BlockType, Slots, nullptr
<1>4. /\ t # nullptr => /\ t \in lv /\ blk[t].raw.price = p
                        /\ blk[t].next = nullptr
      /\ buf[p].head = nullptr <=> t = nullptr
  BY <1>3 DEF Linked
<1>5. new[b].raw.price = p
  BY <1>2
<1> HIDE DEF p, t
<1>6. ASSUME NEW c \in lv
      PROVE  /\ c \in Slots \ {b} /\ c # nullptr
             /\ blk[c].prev # b /\ blk[c].next # b
             /\ blk[c].raw.price = p => t # nullptr
  <2>1. c \in Slots \ {b} /\ c # nullptr
    BY DEF Slots, nullptr
  <2>2. blk[c].prev # b /\ blk[c].next # b
    BY <1>3 DEF Linked
  <2>3. blk[c].raw.price = p => t # nullptr
    BY <1>4, LevelHasHead
  <2> QED
    BY <2>1, <2>2, <2>3
<1>7. ASSUME NEW c \in lv
      PROVE  /\ new[c].prev = nullptr => lev[new[c].raw.price].head = c
             /\ new[c].prev # nullptr =>
                  /\ new[c].prev \in lv \cup {b}
                  /\ new[new[c].prev].raw.price = new[c].raw.price
                  /\ new[new[c].prev].next = c
  <2>1. CASE blk[c].prev = nullptr
    <3>1. buf[blk[c].raw.price].head = c
      BY <2>1 DEF Linked
    <3> QED
      BY <1>2, <1>3, <1>6, <2>1, <3>1
  <2>2. CASE blk[c].prev # nullptr
    <3>1. /\ blk[c].prev \in lv
          /\ blk[blk[c].prev].raw.price = blk[c].raw.price
          /\ blk[blk[c].prev].next = c
      BY <2>2 DEF Linked
    <3>2. blk[c].prev # t
      BY <1>4, <1>6, <2>2, <3>1
    <3>3. blk[c].prev \in Slots \ {b}
      BY <3>1
    <3> QED
      BY <1>2, <1>6, <2>2, <3>1, <3>2, <3>3
  <2> QED
    BY <2>1, <2>2
<1>8. ASSUME NEW c \in lv
      PROVE  /\ new[c].next = nullptr => lev[new[c].raw.price].tail = c
             /\ new[c].next # nullptr =>
                  /\ new[c].next \in lv \cup {b}
                  /\ new[new[c].next].raw.price = new[c].raw.price
                  /\ new[new[c].next].prev = c
                  /\ new[c].id < new[new[c].next].id
  <2>1. CASE c = t
    BY <1>2, <1>3, <1>4, <1>5, <1>6, <2>1
  <2>2. CASE c # t /\ blk[c].next = nullptr
    <3>1. buf[blk[c].raw.price].tail = c
      BY <2>2 DEF Linked
    <3>2. blk[c].raw.price # p
      BY <2>2, <3>1 DEF t
    <3> QED
      BY <1>2, <1>3, <1>6, <2>2, <3>1, <3>2
  <2>3. CASE c # t /\ blk[c].next # nullptr
    <3>1. /\ blk[c].next \in lv
          /\ blk[blk[c].next].raw.price = blk[c].raw.price
          /\ blk[blk[c].next].prev = c
          /\ blk[c].id < blk[blk[c].next].id
      BY <2>3 DEF Linked
    <3>2. blk[c].next \in Slots \ {b}
      BY <3>1
    <3> QED
      BY <1>2, <1>6, <2>3, <3>1, <3>2
  <2> QED
    BY <2>1, <2>2, <2>3
<1>9. /\ new[b].prev = nullptr => lev[new[b].raw.price].head = b
      /\ new[b].prev # nullptr =>
           /\ new[b].prev \in lv \cup {b}
           /\ new[new[b].prev].raw.price = new[b].raw.price
           /\ new[new[b].prev].next = b
      /\ new[b].next = nullptr => lev[new[b].raw.price].tail = b
      /\ new[b].next = nullptr
  BY <1>2, <1>4, <1>5, <1>6
<1>10. ASSUME NEW q \in Prices
       PROVE  /\ lev[q].head # nullptr =>
                   /\ lev[q].head \in lv \cup {b}
                   /\ new[lev[q].head].raw.price = q
                   /\ new[lev[q].head].prev = nullptr
              /\ lev[q].tail # nullptr =>
                   /\ lev[q].tail \in lv \cup {b}
                   /\ new[lev[q].tail].raw.price = q
                   /\ new[lev[q].tail].next = nullptr
              /\ lev[q].head = nullptr <=> lev[q].tail = nullptr
  <2>1. /\ buf[q].head # nullptr => /\ buf[q].head \in lv
                                    /\ blk[buf[q].head].raw.price = q
                                    /\ blk[buf[q].head].prev = nullptr
        /\ buf[q].tail # nullptr => /\ buf[q].tail \in lv
                                    /\ blk[buf[q].tail].raw.price = q
                                    /\ blk[buf[q].tail].next = nullptr
        /\ buf[q].head = nullptr <=> buf[q].tail = nullptr
    BY DEF Linked
  <2>2. CASE q = p
    BY <1>2, <1>3, <1>4, <1>5, <1>6, <2>1, <2>2
  <2>3. CASE q # p
    <3>1. buf[q].tail # nullptr => buf[q].tail # t
      BY <1>4, <2>1, <2>3
    <3> QED
      BY <1>2, <1>6, <2>1, <2>3, <3>1
  <2> QED
    BY <2>2, <2>3
<1>11. Linked(new, lev, lv \cup {b})
  BY <1>7, <1>8, <1>9, <1>10 DEF Linked
<1> QED
  BY <1>1, <1>11
-----------------------------------------------------------------------------
(* The loops over the levels find what they look for.                      *)
LEMMA LowestUsedIs ==
    ASSUME NEW buf, NEW from \in 0 .. BUFFER_SIZE,
           NEW i, i = LowestUsed(buf, from)
    PROVE  /\ i \in from .. BUFFER_SIZE
           /\ i = BUFFER_SIZE \/ buf[i].head # nullptr
           /\ \A j \in from .. i - 1 : buf[j].head = nullptr
<1> DEFINE T == {k \in from .. BUFFER_SIZE : k = BUFFER_SIZE \/ buf[k].head # nullptr}
<1>1. BUFFER_SIZE \in Nat /\ from \in Nat /\ from <= BUFFER_SIZE
  BY EngineAssumption
<1>2. T \subseteq Nat /\ T # {}
  <2>1. BUFFER_SIZE \in T
    BY <1>1
  <2> QED
    BY <1>1, <2>1
<1>3. PICK m \in T : \A y \in T : m <= y
  <2> HIDE DEF T
  <2> QED
    BY <1>2, LeastOf
<1>4. m \in from .. BUFFER_SIZE
  OBVIOUS
<1>5. ASSUME NEW j \in from .. m - 1 PROVE buf[j].head = nullptr
  <2>1. j \in from .. BUFFER_SIZE /\ j < m
    BY <1>1, <1>4
  <2>2. j \notin T
    <3> HIDE DEF T
    <3> QED
      BY <1>1, <1>3, <1>4, <2>1
  <2> QED
    BY <2>1, <2>2
<1>6. /\ m \in from .. BUFFER_SIZE
      /\ m = BUFFER_SIZE \/ buf[m].head # nullptr
      /\ \A j \in from .. m - 1 : buf[j].head = nullptr
  BY <1>5
<1> QED
  BY <1>6 DEF LowestUsed

(* The downward scan stops at the highest used level, or at 0.             *)
LEMMA HighestUsedIs ==
    ASSUME NEW buf, NEW from \in Prices,
           NEW i, i = HighestUsed(buf, from)
    PROVE  /\ i \in 0 .. from
           /\ i = 0 \/ buf[i].head # nullptr
           /\ \A j \in i + 1 .. from : buf[j].head = nullptr
<1> DEFINE T == {k \in 0 .. from : k = 0 \/ buf[k].head # nullptr}
<1>1. from \in Nat
  BY EngineAssumption DEF Prices
<1>2. T \subseteq 0 .. from /\ T # {}
  <2>1. 0 \in T
    BY <1>1
  <2> QED
    BY <1>1, <2>1
<1>3. PICK m \in T : \A y \in T : y <= m
  <2> HIDE DEF T
  <2> QED
    BY <1>1, <1>2, GreatestOf
<1>4. m \in 0 .. from
  OBVIOUS
<1>5. ASSUME NEW j \in m + 1 .. from PROVE buf[j].head = nullptr
  <2>1. j \in 0 .. from /\ m < j
    BY <1>1, <1>4
  <2>2. j \notin T
    <3> HIDE DEF T
    <3> QED
      BY <1>1, <1>3, <1>4, <2>1
  <2> QED
    BY <2>1, <2>2
<1>6. /\ m \in 0 .. from
      /\ m = 0 \/ buf[m].head # nullptr
      /\ \A j \in m + 1 .. from : buf[j].head = nullptr
  BY <1>5
<1> QED
  BY <1>6 DEF HighestUsed

(* Moving an index on from a level beyond which the other side rests gives *)
(* the best level, whether the level it was on emptied or not.             *)
LEMMA NextBestSellIs ==
    ASSUME NEW blk \in [Slots -> BlockType], NEW buf, NEW lv, lv \subseteq Slots,
           Linked(blk, buf, lv), NEW from \in 0 .. BUFFER_SIZE,
           \A b \in lv : \/ blk[b].raw.side = "S" /\ blk[b].raw.price >= from
                         \/ blk[b].raw.side = "B" /\ blk[b].raw.price < from,
           NEW n, n = 0 <=> OnSide(blk, lv, "S") = {}
    PROVE  IsBestSell(blk, lv, NextBestSell(buf, n, from))
<1>1. BUFFER_SIZE \in Nat /\ \A s \in Slots : blk[s].raw.price \in Prices
  BY EngineAssumption DEF BlockType
<1>2. CASE n = 0
  BY <1>1, <1>2 DEF NextBestSell, IsBestSell
<1>3. CASE n # 0
  <2>1. PICK i : i = LowestUsed(buf, from)
    OBVIOUS
  <2>2. /\ i \in from .. BUFFER_SIZE
        /\ i = BUFFER_SIZE \/ buf[i].head # nullptr
        /\ \A j \in from .. i - 1 : buf[j].head = nullptr
    BY <2>1, LowestUsedIs
  <2>3. ASSUME NEW b \in OnSide(blk, lv, "S") PROVE blk[b].raw.price >= i
    <3> DEFINE q == blk[b].raw.price
    <3>1. b \in lv /\ q \in Prices /\ q >= from
      BY <1>1 DEF OnSide
    <3>2. buf[q].head # nullptr
      BY <3>1, LevelHasHead
    <3> HIDE DEF q
    <3>3. q \notin from .. i - 1
      BY <2>2, <3>2
    <3>4. q >= i
      BY <1>1, <2>2, <3>1, <3>3 DEF Prices
    <3> QED
      BY <3>4 DEF q
  <2>4. PICK a \in OnSide(blk, lv, "S") : TRUE
    BY <1>3
  <2>5. i \in Prices /\ i >= from
    BY <1>1, <2>2, <2>3, <2>4 DEF Prices, OnSide
  <2>6. buf[i].head # nullptr
    BY <2>2, <2>5, <1>1 DEF Prices
  <2>7. buf[i].head \in lv /\ blk[buf[i].head].raw.price = i
    BY <2>5, <2>6 DEF Linked
  <2>8. buf[i].head \in OnSide(blk, lv, "S")
    <3>1. ~(i < from)
      BY <2>5, <1>1 DEF Prices
    <3> QED
      BY <2>7, <3>1 DEF OnSide
  <2>9. i \in 0 .. BUFFER_SIZE
    BY <1>1, <2>2
  <2> QED
    BY <1>3, <2>1, <2>3, <2>7, <2>8, <2>9 DEF NextBestSell, IsBestSell
<1> QED
  BY <1>2, <1>3

(* After a removal the scan finds the new best buy level.                  *)
LEMMA NextBestBuyIs ==
    ASSUME NEW blk \in [Slots -> BlockType], NEW buf, NEW lv, lv \subseteq Slots,
           Linked(blk, buf, lv), NEW from \in Prices,
           \A b \in lv : \/ blk[b].raw.side = "B" /\ blk[b].raw.price <= from
                         \/ blk[b].raw.side = "S" /\ blk[b].raw.price > from,
           NEW n, n = 0 <=> OnSide(blk, lv, "B") = {}
    PROVE  IsBestBuy(blk, lv, NextBestBuy(buf, n, from))
<1>1. /\ BUFFER_SIZE \in Nat /\ BUFFER_SIZE > 0
      /\ \A s \in Slots : blk[s].raw.price \in Prices
  BY EngineAssumption DEF BlockType
<1>2. CASE n = 0
  BY <1>1, <1>2 DEF NextBestBuy, IsBestBuy, Prices
<1>3. CASE n # 0
  <2>1. PICK i : i = HighestUsed(buf, from)
    OBVIOUS
  <2>2. /\ i \in 0 .. from
        /\ i = 0 \/ buf[i].head # nullptr
        /\ \A j \in i + 1 .. from : buf[j].head = nullptr
    BY <2>1, HighestUsedIs
  <2>3. ASSUME NEW b \in OnSide(blk, lv, "B") PROVE blk[b].raw.price <= i
    <3> DEFINE q == blk[b].raw.price
    <3>1. b \in lv /\ q \in Prices /\ q <= from
      BY <1>1 DEF OnSide
    <3>2. buf[q].head # nullptr
      BY <3>1, LevelHasHead
    <3> HIDE DEF q
    <3>3. q \notin i + 1 .. from
      BY <2>2, <3>2
    <3>4. q <= i
      BY <1>1, <2>2, <3>1, <3>3 DEF Prices
    <3> QED
      BY <3>4 DEF q
  <2>4. PICK a \in OnSide(blk, lv, "B") : TRUE
    BY <1>3
  <2>5. i \in Prices /\ i <= from
    BY <1>1, <2>2 DEF Prices
  <2>6. buf[i].head # nullptr
    <3>1. CASE i = 0
      <4>1. blk[a].raw.price = 0
        BY <1>1, <2>3, <2>4, <3>1 DEF Prices, OnSide
      <4>2. buf[blk[a].raw.price].head # nullptr
        BY LevelHasHead DEF OnSide
      <4> QED
        BY <3>1, <4>1, <4>2
    <3> QED
      BY <2>2, <3>1
  <2>7. buf[i].head \in lv /\ blk[buf[i].head].raw.price = i
    BY <2>5, <2>6 DEF Linked
  <2>8. buf[i].head \in OnSide(blk, lv, "B")
    <3>1. ~(i > from)
      BY <2>5, <1>1 DEF Prices
    <3> QED
      BY <2>7, <3>1 DEF OnSide
  <2> QED
    BY <1>3, <2>1, <2>3, <2>5, <2>7, <2>8 DEF NextBestBuy, IsBestBuy
<1> QED
  BY <1>2, <1>3
-----------------------------------------------------------------------------
(* The pool's invariant, from the pool's own proofs.                       *)
LEMMA PoolStarts == Pool!Init => PoolInv
  BY EngineAssumption, PoolProofs!InitPool
     DEF PoolInv, PoolProofs!Init, Pool!Init, Pool!PoolTypeOK, Pool!FreeListInv, PoolProofs!PoolTypeOK,
         PoolProofs!FreeListInv, Pool!Slots, PoolProofs!Slots, Slots,
         Pool!nullptr, PoolProofs!nullptr, Pool!Overwritten,
         PoolProofs!Overwritten

(* allocate returns a block that was not live.                             *)
LEMMA PoolAllocates ==
    ASSUME PoolInv, NEW s \in Slots, Pool!Allocate(s)
    PROVE  PoolInv' /\ s \notin live /\ live' = live \cup {s}
<1>1. PoolInv' /\ s \notin live
  BY EngineAssumption, PoolProofs!AllocatePool
     DEF PoolInv, PoolProofs!Allocate, Pool!Allocate, PoolProofs!full, Pool!full,
         Pool!PoolTypeOK, Pool!FreeListInv, PoolProofs!PoolTypeOK,
         PoolProofs!FreeListInv, Pool!Slots, PoolProofs!Slots, Slots,
         Pool!nullptr, PoolProofs!nullptr, Pool!Overwritten,
         PoolProofs!Overwritten
<1> QED
  BY <1>1 DEF Pool!Allocate

(* deallocate frees exactly the block it is given.                         *)
LEMMA PoolDeallocates ==
    ASSUME PoolInv, NEW s \in live, Pool!Deallocate(s)
    PROVE  PoolInv' /\ live' = live \ {s}
<1>1. PoolInv'
  BY EngineAssumption, PoolProofs!DeallocatePool
     DEF PoolInv, PoolProofs!Deallocate, Pool!Deallocate, Pool!PoolTypeOK, Pool!FreeListInv, PoolProofs!PoolTypeOK,
         PoolProofs!FreeListInv, Pool!Slots, PoolProofs!Slots, Slots,
         Pool!nullptr, PoolProofs!nullptr, Pool!Overwritten,
         PoolProofs!Overwritten
<1> QED
  BY <1>1 DEF Pool!Deallocate

(* The counts are of finite sets.                                          *)
LEMMA SidesFinite ==
    ASSUME NEW blk, NEW lv, lv \subseteq Slots, NEW side
    PROVE  /\ IsFiniteSet(OnSide(blk, lv, side))
           /\ Cardinality(OnSide(blk, lv, side)) \in Nat
           /\ Cardinality(OnSide(blk, lv, side)) = 0 <=> OnSide(blk, lv, side) = {}
<1>1. IsFiniteSet(Slots)
  BY EngineAssumption, FS_Interval DEF Slots
<1>2. OnSide(blk, lv, side) \in SUBSET Slots
  BY DEF OnSide
<1> QED
  BY <1>1, <1>2, FS_Subset, FS_CardinalityType, FS_EmptySet

(* A block taken out of a sound book.                                      *)
LEMMA SoundUnlinked ==
    ASSUME NEW blk, NEW buf, NEW lv, Sound(blk, buf, lv), NEW b \in lv,
           NEW new, new = Unlinked(blk, buf, b),
           NEW lev, lev = UnlinkedLevels(blk, buf, b)
    PROVE  /\ Sound(new, lev, lv \ {b})
           /\ \A c \in lv \ {b} : /\ new[c].id = blk[c].id
                                  /\ new[c].key = blk[c].key
                                  /\ new[c].curr_qty = blk[c].curr_qty
                                  /\ new[c].raw = blk[c].raw
           /\ \A side : OnSide(new, lv \ {b}, side) = OnSide(blk, lv, side) \ {b}
<1>1. /\ blk \in [Slots -> BlockType] /\ buf \in [Prices -> LevelType]
      /\ lv \subseteq Slots /\ Linked(blk, buf, lv)
  BY DEF Sound
<1>2. new \in [Slots -> BlockType] /\ lev \in [Prices -> LevelType]
  BY <1>1, UnlinkEffect
<1>3. \A c \in lv \ {b} : /\ new[c].id = blk[c].id
                          /\ new[c].key = blk[c].key
                          /\ new[c].curr_qty = blk[c].curr_qty
                          /\ new[c].raw = blk[c].raw
  <2>1. \A c \in Slots \ {b} : /\ new[c].id = blk[c].id
                               /\ new[c].key = blk[c].key
                               /\ new[c].curr_qty = blk[c].curr_qty
                               /\ new[c].raw = blk[c].raw
    BY <1>1, UnlinkEffect
  <2> QED
    BY <1>1, <2>1
<1>4. Linked(new, lev, lv \ {b})
  BY <1>1, UnlinkLinked
<1>5. Sound(new, lev, lv \ {b})
  BY <1>1, <1>2, <1>3, <1>4 DEF Sound
<1>6. \A side : OnSide(new, lv \ {b}, side) = OnSide(blk, lv, side) \ {b}
  BY <1>3 DEF OnSide
<1> QED
  BY <1>3, <1>5, <1>6

(* The newest order added to a sound book that it does not cross.          *)
Fits(blk, lv, nb) ==
    /\ nb \in BlockType
    /\ nb.raw.side \in {"B", "S"} /\ nb.key \in Keys /\ nb.curr_qty > 0
    /\ \A c \in lv : blk[c].id < nb.id
    /\ \A c \in lv : nb.raw.side = "B" /\ blk[c].raw.side = "S"
                        => nb.raw.price < blk[c].raw.price
    /\ \A c \in lv : nb.raw.side = "S" /\ blk[c].raw.side = "B"
                        => blk[c].raw.price < nb.raw.price

Joined(blk, new, lv, b, nb) ==
    /\ \A c \in lv : /\ new[c].id = blk[c].id
                     /\ new[c].key = blk[c].key
                     /\ new[c].curr_qty = blk[c].curr_qty
                     /\ new[c].raw = blk[c].raw
    /\ new[b].id = nb.id /\ new[b].key = nb.key
    /\ new[b].curr_qty = nb.curr_qty /\ new[b].raw = nb.raw
    /\ OnSide(new, lv \cup {b}, "B") = IF nb.raw.side = "B"
         THEN OnSide(blk, lv, "B") \cup {b} ELSE OnSide(blk, lv, "B")
    /\ OnSide(new, lv \cup {b}, "S") = IF nb.raw.side = "S"
         THEN OnSide(blk, lv, "S") \cup {b} ELSE OnSide(blk, lv, "S")

(* A new order that fits leaves the book sound.                            *)
LEMMA SoundAppended ==
    ASSUME NEW blk, NEW buf, NEW lv, Sound(blk, buf, lv),
           NEW b \in Slots \ lv, NEW nb, Fits(blk, lv, nb),
           NEW new, new = Appended(blk, buf, b, nb),
           NEW lev, lev = AppendedLevels(blk, buf, b, nb)
    PROVE  Sound(new, lev, lv \cup {b}) /\ Joined(blk, new, lv, b, nb)
<1>1. /\ blk \in [Slots -> BlockType] /\ buf \in [Prices -> LevelType]
      /\ lv \subseteq Slots /\ Linked(blk, buf, lv) /\ nb \in BlockType
      /\ \A c \in lv : blk[c].id < nb.id
  BY DEF Sound, Fits
<1>2. new \in [Slots -> BlockType] /\ lev \in [Prices -> LevelType]
  BY <1>1, AppendEffect
<1>3. \A c \in lv : /\ new[c].id = blk[c].id
                    /\ new[c].key = blk[c].key
                    /\ new[c].curr_qty = blk[c].curr_qty
                    /\ new[c].raw = blk[c].raw
  <2>1. \A c \in Slots \ {b} : /\ new[c].id = blk[c].id
                               /\ new[c].key = blk[c].key
                               /\ new[c].curr_qty = blk[c].curr_qty
                               /\ new[c].raw = blk[c].raw
    BY <1>1, AppendEffect
  <2> QED
    BY <1>1, <2>1
<1>4. /\ new[b].id = nb.id /\ new[b].key = nb.key
      /\ new[b].curr_qty = nb.curr_qty /\ new[b].raw = nb.raw
  BY <1>1, AppendEffect
<1>5. Linked(new, lev, lv \cup {b})
  BY <1>1, AppendLinked
<1>6. \A c, d \in lv \cup {b} : c # d => new[c].id # new[d].id
  <2>1. \A c \in lv : new[c].id # new[b].id
    <3>1. \A c \in lv : blk[c].id \in Nat /\ nb.id \in Nat
      BY <1>1 DEF BlockType
    <3> QED
      BY <1>1, <1>3, <1>4, <3>1
  <2>2. \A c, d \in lv : c # d => new[c].id # new[d].id
    BY <1>3 DEF Sound
  <2> QED
    BY <2>1, <2>2
<1>7. \A c, d \in lv \cup {b} : new[c].raw.side = "B" /\ new[d].raw.side = "S"
                                  => new[c].raw.price < new[d].raw.price
  <2>1. \A c, d \in lv : new[c].raw.side = "B" /\ new[d].raw.side = "S"
                           => new[c].raw.price < new[d].raw.price
    BY <1>3 DEF Sound
  <2> QED
    BY <1>3, <1>4, <2>1 DEF Fits
<1>8. \A c \in lv \cup {b} : /\ new[c].raw.side \in {"B", "S"}
                             /\ new[c].key \in Keys
                             /\ new[c].curr_qty > 0
  BY <1>3, <1>4 DEF Sound, Fits
<1>9. Sound(new, lev, lv \cup {b})
  BY <1>1, <1>2, <1>5, <1>6, <1>7, <1>8 DEF Sound
<1>10. /\ OnSide(new, lv \cup {b}, "B") = IF nb.raw.side = "B"
            THEN OnSide(blk, lv, "B") \cup {b} ELSE OnSide(blk, lv, "B")
       /\ OnSide(new, lv \cup {b}, "S") = IF nb.raw.side = "S"
            THEN OnSide(blk, lv, "S") \cup {b} ELSE OnSide(blk, lv, "S")
  BY <1>3, <1>4 DEF OnSide
<1> QED
  BY <1>3, <1>4, <1>9, <1>10 DEF Joined

(* A resting order reduced, but not to nothing.                            *)
Reduced(blk, b, q) == [blk EXCEPT ![b].curr_qty = q]

(* Reducing a quantity to a positive one leaves the book sound.            *)
LEMMA SoundReduced ==
    ASSUME NEW blk, NEW buf, NEW lv, Sound(blk, buf, lv), NEW b \in lv,
           NEW q \in Nat, q > 0,
           NEW new, new = Reduced(blk, b, q)
    PROVE  /\ Sound(new, buf, lv)
           /\ new[b].curr_qty = q
           /\ \A c \in lv \ {b} : new[c].curr_qty = blk[c].curr_qty
           /\ \A c \in lv : /\ new[c].id = blk[c].id
                            /\ new[c].key = blk[c].key
                            /\ new[c].raw = blk[c].raw
           /\ \A side : OnSide(new, lv, side) = OnSide(blk, lv, side)
<1>1. blk \in [Slots -> BlockType] /\ lv \subseteq Slots /\ b \in Slots
  BY DEF Sound
<1> USE DEF Reduced
<1>2. new \in [Slots -> BlockType]
  BY <1>1 DEF BlockType
<1>3. \A c \in Slots : /\ new[c].id = blk[c].id
                       /\ new[c].key = blk[c].key
                       /\ new[c].raw = blk[c].raw
                       /\ new[c].prev = blk[c].prev
                       /\ new[c].next = blk[c].next
                       /\ new[c].curr_qty = IF c = b THEN q ELSE blk[c].curr_qty
  <2>1. \A c \in Slots : blk[c] \in BlockType
    BY <1>1
  <2>2. new[b] = [blk[b] EXCEPT !.curr_qty = q]
    BY <1>1
  <2>3. \A c \in Slots \ {b} : new[c] = blk[c]
    BY <1>1
  <2> QED
    BY <1>1, <2>1, <2>2, <2>3 DEF BlockType
<1>4. Linked(new, buf, lv)
  <2>1. Linked(blk, buf, lv)
    BY DEF Sound
  <2>2. \A c \in lv : c \in Slots
    BY <1>1
  <2> QED
    BY <1>3, <2>1, <2>2 DEF Linked
<1>5. Sound(new, buf, lv)
  BY <1>1, <1>2, <1>3, <1>4 DEF Sound
<1>6. \A side : OnSide(new, lv, side) = OnSide(blk, lv, side)
  BY <1>1, <1>3 DEF OnSide
<1> QED
  BY <1>1, <1>3, <1>5, <1>6
-----------------------------------------------------------------------------
(* The empty book is sound.                                                *)
LEMMA StartInd == Init => IndInv
<1> SUFFICES ASSUME Init PROVE IndInv
  OBVIOUS
<1>1. live = {}
  BY DEF Init, Pool!Init
<1>2. BUFFER_SIZE \in Nat /\ BUFFER_SIZE > 0
  BY EngineAssumption
<1>3. FreshBlock \in BlockType /\ EmptyLevel \in LevelType
  BY <1>2 DEF FreshBlock, BlockType, Prices, Pointer, EmptyLevel, LevelType
<1>4. Linked(block, order_buffer, live)
  BY <1>1 DEF Init, Linked, EmptyLevel
<1>5. Sound(block, order_buffer, live)
  BY <1>1, <1>3, <1>4 DEF Sound, Init
<1>6. OnSide(block, live, "B") = {} /\ OnSide(block, live, "S") = {}
  BY <1>1 DEF OnSide
<1>7. CountsInv
  BY <1>2, <1>6, FS_EmptySet DEF CountsInv, IsBestBuy, IsBestSell, Init, Prices
<1>8. MapInv /\ PoolInv
  BY PoolStarts DEF Init, MapInv
<1>9. OrderInv
  BY <1>1 DEF OrderInv, Init, InHand
<1> QED
  BY <1>5, <1>7, <1>8, <1>9 DEF IndInv, BookInv

(* In a sound book an index on a side that has orders is on a level whose  *)
(* head is the oldest of them.                                             *)
LEMMA BestSellHead ==
    ASSUME BookInv, sell_orders # 0
    PROVE  LET h == order_buffer[best_sell_idx].head IN
           /\ best_sell_idx \in Prices
           /\ h \in live /\ PriceOf(h) = best_sell_idx /\ SideOf(h) = "S"
           /\ block[h].prev = nullptr
<1>1. /\ block \in [Slots -> BlockType] /\ live \subseteq Slots
      /\ Linked(block, order_buffer, live)
  BY DEF BookInv, Sound
<1>2. PICK a \in OnSide(block, live, "S") : PriceOf(a) = best_sell_idx
  BY <1>1, SidesFinite DEF BookInv, CountsInv, IsBestSell, PriceOf
<1>3. a \in live /\ SideOf(a) = "S" /\ a \in Slots
  BY <1>1 DEF OnSide, SideOf
<1>4. best_sell_idx \in Prices
  BY <1>1, <1>2, <1>3 DEF BlockType, PriceOf
<1>5. order_buffer[best_sell_idx].head # nullptr
  BY <1>1, <1>2, <1>3, LevelHasHead DEF PriceOf
<1> DEFINE h == order_buffer[best_sell_idx].head
<1>6. h \in live /\ PriceOf(h) = best_sell_idx /\ block[h].prev = nullptr
  BY <1>1, <1>4, <1>5 DEF Linked, PriceOf
<1>7. SideOf(h) = "S"
  <2>1. SideOf(h) = "B" => PriceOf(h) < PriceOf(a)
    BY <1>3, <1>6 DEF BookInv, Sound, SideOf, PriceOf
  <2>2. PriceOf(h) = PriceOf(a) /\ PriceOf(a) \in Int
    BY <1>2, <1>4, <1>6, EngineAssumption DEF Prices
  <2>3. SideOf(h) \in {"B", "S"}
    BY <1>6 DEF BookInv, Sound, SideOf
  <2> QED
    BY <2>1, <2>2, <2>3
<1> QED
  BY <1>4, <1>6, <1>7

(* best_buy_idx leads to a live buy order of that price.                   *)
LEMMA BestBuyHead ==
    ASSUME BookInv, buy_orders # 0
    PROVE  LET h == order_buffer[best_buy_idx].head IN
           /\ best_buy_idx \in Prices
           /\ h \in live /\ PriceOf(h) = best_buy_idx /\ SideOf(h) = "B"
           /\ block[h].prev = nullptr /\ h # nullptr
<1>1. /\ block \in [Slots -> BlockType] /\ live \subseteq Slots
      /\ Linked(block, order_buffer, live)
  BY DEF BookInv, Sound
<1>2. PICK a \in OnSide(block, live, "B") : PriceOf(a) = best_buy_idx
  BY <1>1, SidesFinite DEF BookInv, CountsInv, IsBestBuy, PriceOf
<1>3. a \in live /\ SideOf(a) = "B" /\ a \in Slots
  BY <1>1 DEF OnSide, SideOf
<1>4. best_buy_idx \in Prices
  BY <1>1, <1>2, <1>3 DEF BlockType, PriceOf
<1>5. order_buffer[best_buy_idx].head # nullptr
  BY <1>1, <1>2, <1>3, LevelHasHead DEF PriceOf
<1> DEFINE h == order_buffer[best_buy_idx].head
<1>6. h \in live /\ PriceOf(h) = best_buy_idx /\ block[h].prev = nullptr
  BY <1>1, <1>4, <1>5 DEF Linked, PriceOf
<1>7. SideOf(h) = "B"
  <2>1. SideOf(h) = "S" => PriceOf(a) < PriceOf(h)
    BY <1>3, <1>6 DEF BookInv, Sound, SideOf, PriceOf
  <2>2. PriceOf(h) = PriceOf(a) /\ PriceOf(a) \in Int
    BY <1>2, <1>4, <1>6, EngineAssumption DEF Prices
  <2>3. SideOf(h) \in {"B", "S"}
    BY <1>6 DEF BookInv, Sound, SideOf
  <2> QED
    BY <2>1, <2>2, <2>3
<1> QED
  BY <1>4, <1>5, <1>6, <1>7

(* A matching loop that goes on trades with a live block of the other side *)
(* at the best price, and trades something.                                *)
LEMMA FrontIs ==
    ASSUME IndInv, InHand, Matches
    PROVE  /\ Front \in live /\ Idx \in Prices /\ PriceOf(Front) = Idx
           /\ SideOf(Front) = (IF order.side = "B" THEN "S" ELSE "B")
           /\ block[Front].prev = nullptr
           /\ block[Front].curr_qty \in Nat /\ block[Front].curr_qty > 0
           /\ order.curr_qty \in Nat /\ order.curr_qty > 0
           /\ order \in OrderType
<1>1. /\ order \in OrderType /\ order.side \in {"B", "S"} /\ order.curr_qty \in Nat
      /\ BookInv
  BY DEF IndInv, OrderInv, OrderType
<1>2. order.curr_qty > 0
  BY DEF Matches, BuyMatches, SellMatches
<1>3. /\ Front \in live /\ Idx \in Prices /\ PriceOf(Front) = Idx
      /\ SideOf(Front) = (IF order.side = "B" THEN "S" ELSE "B")
      /\ block[Front].prev = nullptr
  <2>1. CASE order.side = "B"
    <3>1. sell_orders # 0 /\ Idx = best_sell_idx
      BY <2>1 DEF Matches, BuyMatches, Idx
    <3> QED
      BY <1>1, <2>1, <3>1, BestSellHead DEF Front
  <2>2. CASE order.side # "B"
    <3>1. buy_orders # 0 /\ Idx = best_buy_idx
      BY <2>2 DEF Matches, SellMatches, Idx
    <3> QED
      BY <1>1, <2>2, <3>1, BestBuyHead DEF Front
  <2> QED
    BY <2>1, <2>2
<1>4. block[Front].curr_qty \in Nat /\ block[Front].curr_qty > 0
  BY <1>1, <1>3 DEF BookInv, Sound, BlockType
<1> QED
  BY <1>1, <1>2, <1>3, <1>4

(* When the loop stops with something left of a limit order, nothing that  *)
(* rests crosses it.                                                       *)
LEMMA NothingCrosses ==
    ASSUME IndInv, at = "match", ~Matches, order.curr_qty > 0,
           order.price # MARKETPRICE
    PROVE  /\ order.price \in Prices
           /\ \A c \in live : order.side = "B" /\ SideOf(c) = "S"
                                => order.price < PriceOf(c)
           /\ \A c \in live : order.side = "S" /\ SideOf(c) = "B"
                                => PriceOf(c) < order.price
<1>1. order \in OrderType /\ BookInv
  BY DEF IndInv, OrderInv, InHand
<1>2. order.price \in Prices
  BY <1>1 DEF OrderType
<1>3. \A n \in Prices : n \in Int
  BY EngineAssumption DEF Prices
<1>4. /\ live \subseteq Slots
      /\ \A c \in live : PriceOf(c) \in Prices
  BY <1>1 DEF BookInv, Sound, BlockType, PriceOf
<1>5. ASSUME NEW c \in live, order.side = "B", SideOf(c) = "S"
      PROVE  order.price < PriceOf(c)
  <2>1. c \in OnSide(block, live, "S")
    BY <1>5 DEF OnSide, SideOf
  <2>2. sell_orders \in Nat /\ sell_orders # 0
    BY <1>1, <1>4, <2>1, SidesFinite DEF BookInv, CountsInv
  <2>3. PriceOf(c) >= best_sell_idx
    BY <1>1, <2>1 DEF BookInv, CountsInv, IsBestSell, PriceOf
  <2>4. best_sell_idx \in Prices
    BY <1>1, <2>2, BestSellHead
  <2>5. best_sell_idx < BUFFER_SIZE
    BY <2>4, EngineAssumption DEF Prices
  <2>6. ~(best_sell_idx <= order.price)
    BY <1>5, <2>2, <2>5 DEF Matches, BuyMatches
  <2> QED
    BY <1>2, <1>3, <1>4, <2>3, <2>4, <2>6
<1>6. ASSUME NEW c \in live, order.side = "S", SideOf(c) = "B"
      PROVE  PriceOf(c) < order.price
  <2>1. c \in OnSide(block, live, "B")
    BY <1>6 DEF OnSide, SideOf
  <2>2. buy_orders \in Nat /\ buy_orders # 0
    BY <1>1, <1>4, <2>1, SidesFinite DEF BookInv, CountsInv
  <2>3. PriceOf(c) <= best_buy_idx
    BY <1>1, <2>1 DEF BookInv, CountsInv, IsBestBuy, PriceOf
  <2>4. best_buy_idx \in Prices /\ order_buffer[best_buy_idx].head # nullptr
    BY <1>1, <2>2, BestBuyHead
  <2>5. ~(best_buy_idx >= order.price)
    BY <1>6, <2>2, <2>4 DEF Matches, SellMatches, SellLimit
  <2> QED
    BY <1>2, <1>3, <1>4, <2>3, <2>4, <2>5
<1> QED
  BY <1>2, <1>5, <1>6
-----------------------------------------------------------------------------
(* The removal that a full fill and a cancel share: unlink, deallocate and *)
(* erase.                                                                  *)
Removes(b) == /\ block' = Unlinked(block, order_buffer, b)
              /\ order_buffer' = UnlinkedLevels(block, order_buffer, b)
              /\ Pool!Deallocate(b)
              /\ order_blocks_map' = Erase(order_blocks_map, block[b].key)

(* Removing an order leaves the lists and the map sound.                   *)
LEMMA RemovedSound ==
    ASSUME BookInv, NEW b \in live, Removes(b)
    PROVE  /\ live' = live \ {b}
           /\ Sound(block', order_buffer', live')
           /\ MapInv'
           /\ PoolInv'
           /\ \A c \in live' : /\ block'[c].id = block[c].id
                               /\ block'[c].key = block[c].key
                               /\ block'[c].curr_qty = block[c].curr_qty
                               /\ block'[c].raw = block[c].raw
           /\ \A side : OnSide(block', live', side) = OnSide(block, live, side) \ {b}
           /\ DOMAIN order_blocks_map' = DOMAIN order_blocks_map \ {block[b].key}
           /\ \A k \in DOMAIN order_blocks_map' :
                order_blocks_map'[k] = order_blocks_map[k]
<1>1. PoolInv' /\ live' = live \ {b}
  BY PoolDeallocates DEF BookInv, Removes
<1>2. /\ Sound(block', order_buffer', live')
      /\ \A c \in live' : /\ block'[c].id = block[c].id
                          /\ block'[c].key = block[c].key
                          /\ block'[c].curr_qty = block[c].curr_qty
                          /\ block'[c].raw = block[c].raw
      /\ \A side : OnSide(block', live', side) = OnSide(block, live, side) \ {b}
  BY <1>1, SoundUnlinked DEF BookInv, Removes
<1>3. /\ DOMAIN order_blocks_map' = DOMAIN order_blocks_map \ {block[b].key}
      /\ \A k \in DOMAIN order_blocks_map' :
           order_blocks_map'[k] = order_blocks_map[k]
  BY DEF Removes, Erase, Restrict
<1>4. MapInv'
  <2>1. DOMAIN order_blocks_map' \subseteq Keys
    BY <1>3 DEF BookInv, MapInv
  <2>2. ASSUME NEW k \in DOMAIN order_blocks_map'
        PROVE  /\ order_blocks_map'[k] \in live'
               /\ block'[order_blocks_map'[k]].key = k
    <3>1. /\ order_blocks_map'[k] \in live /\ k # block[b].key
          /\ block[order_blocks_map'[k]].key = k
      BY <1>3 DEF BookInv, MapInv
    <3> QED
      BY <1>1, <1>2, <3>1
  <2> QED
    BY <2>1, <2>2 DEF MapInv
<1> QED
  BY <1>1, <1>2, <1>3, <1>4

(* An ask removed: its count and index, when the index is moved on from    *)
(* its level or stays where it was because another block is as good.       *)
LEMMA RemovedAsk ==
    ASSUME BookInv, NEW b \in live, Removes(b), SideOf(b) = "S",
           sell_orders' = sell_orders - 1, UNCHANGED <<buy_orders, best_buy_idx>>,
           \/ best_sell_idx' = NextBestSell(order_buffer', sell_orders', best_sell_idx)
           \/ /\ ~(/\ order_buffer'[PriceOf(b)].head = nullptr
                   /\ PriceOf(b) = best_sell_idx)
              /\ best_sell_idx' = best_sell_idx
    PROVE  BookInv'
<1>1. /\ live' = live \ {b} /\ Sound(block', order_buffer', live')
      /\ MapInv' /\ PoolInv'
      /\ \A c \in live' : block'[c].raw = block[c].raw
      /\ OnSide(block', live', "S") = OnSide(block, live, "S") \ {b}
      /\ OnSide(block', live', "B") = OnSide(block, live, "B") \ {b}
  BY RemovedSound
<1>2. b \in OnSide(block, live, "S") /\ b \notin OnSide(block, live, "B")
  BY DEF OnSide, SideOf
<1>3. /\ buy_orders' = Cardinality(OnSide(block', live', "B"))
      /\ OnSide(block', live', "B") = OnSide(block, live, "B")
  <2>1. OnSide(block', live', "B") = OnSide(block, live, "B")
    BY <1>1, <1>2
  <2> QED
    BY <2>1 DEF BookInv, CountsInv
<1>4. live \subseteq Slots /\ live' \subseteq Slots
  BY <1>1 DEF BookInv, Sound
<1>5. sell_orders' = Cardinality(OnSide(block', live', "S"))
  <2>1. IsFiniteSet(OnSide(block, live, "S"))
    BY <1>4, SidesFinite
  <2> QED
    BY <1>1, <1>2, <2>1, FS_RemoveElement DEF BookInv, CountsInv
<1>6. IsBestBuy(block', live', best_buy_idx')
  <2>1. \A c \in OnSide(block, live, "B") : block'[c].raw = block[c].raw
    BY <1>1, <1>3 DEF OnSide
  <2> QED
    BY <1>3, <2>1 DEF BookInv, CountsInv, IsBestBuy
<1>7. IsBestSell(block', live', best_sell_idx')
  <2>0. /\ block' \in [Slots -> BlockType]
        /\ Linked(block', order_buffer', live')
        /\ \A c \in live' : block'[c].raw.side \in {"B", "S"}
    BY <1>1 DEF Sound
  <2>1. sell_orders # 0
    BY <1>2, <1>4, SidesFinite DEF BookInv, CountsInv
  <2>2. best_sell_idx \in Prices /\ best_sell_idx \in 0 .. BUFFER_SIZE
    BY <2>1, BestSellHead DEF BookInv, CountsInv, IsBestSell
  <2>3. PICK a \in live : SideOf(a) = "S" /\ PriceOf(a) = best_sell_idx
    BY <2>1, BestSellHead
  <2>4. ASSUME NEW c \in live'
        PROVE  \/ block'[c].raw.side = "S" /\ block'[c].raw.price >= best_sell_idx
               \/ block'[c].raw.side = "B" /\ block'[c].raw.price < best_sell_idx
    <3>1. c \in live /\ block'[c].raw = block[c].raw
      BY <1>1
    <3>2. block[c].raw.side = "B" => block[c].raw.price < best_sell_idx
      BY <2>3, <3>1 DEF BookInv, Sound, SideOf, PriceOf
    <3>3. block[c].raw.side = "S" => block[c].raw.price >= best_sell_idx
      BY <3>1 DEF BookInv, CountsInv, IsBestSell, OnSide
    <3> QED
      BY <2>0, <3>1, <3>2, <3>3
  <2>5. sell_orders' = 0 <=> OnSide(block', live', "S") = {}
    BY <1>4, <1>5, SidesFinite
  <2>6. CASE best_sell_idx' = NextBestSell(order_buffer', sell_orders', best_sell_idx)
    BY <1>4, <2>0, <2>2, <2>4, <2>5, <2>6, NextBestSellIs
  <2>7. CASE /\ ~(/\ order_buffer'[PriceOf(b)].head = nullptr
                  /\ PriceOf(b) = best_sell_idx)
             /\ best_sell_idx' = best_sell_idx
    <3>1. PICK c \in live' : block'[c].raw.price = best_sell_idx
      <4>1. CASE PriceOf(b) # best_sell_idx
        <5>1. a \in live' /\ block'[a].raw = block[a].raw
          BY <1>1, <2>3, <4>1
        <5> QED
          BY <2>3, <5>1 DEF PriceOf
      <4>2. CASE PriceOf(b) = best_sell_idx
        <5>1. order_buffer'[best_sell_idx].head # nullptr
          BY <2>7, <4>2
        <5> QED
          BY <2>0, <2>2, <5>1 DEF Linked
      <4> QED
        BY <4>1, <4>2
    <3>2. block'[c].raw.side = "S"
      <4>1. ~(best_sell_idx < best_sell_idx)
        BY <2>2, EngineAssumption DEF Prices
      <4> QED
        BY <2>4, <3>1, <4>1
    <3>3. c \in OnSide(block', live', "S")
      BY <3>2 DEF OnSide
    <3>4. \A d \in OnSide(block', live', "S") : block'[d].raw.price >= best_sell_idx
      BY <2>4 DEF OnSide
    <3> QED
      BY <2>2, <2>7, <3>1, <3>3, <3>4 DEF IsBestSell
  <2> QED
    BY <2>6, <2>7
<1> QED
  BY <1>1, <1>3, <1>5, <1>6, <1>7 DEF BookInv, CountsInv

(* The same for a bid.                                                     *)
LEMMA RemovedBid ==
    ASSUME BookInv, NEW b \in live, Removes(b), SideOf(b) = "B",
           buy_orders' = buy_orders - 1, UNCHANGED <<sell_orders, best_sell_idx>>,
           \/ best_buy_idx' = NextBestBuy(order_buffer', buy_orders', best_buy_idx)
           \/ /\ ~(/\ order_buffer'[PriceOf(b)].head = nullptr
                   /\ PriceOf(b) = best_buy_idx)
              /\ best_buy_idx' = best_buy_idx
    PROVE  BookInv'
<1>1. /\ live' = live \ {b} /\ Sound(block', order_buffer', live')
      /\ MapInv' /\ PoolInv'
      /\ \A c \in live' : block'[c].raw = block[c].raw
      /\ OnSide(block', live', "S") = OnSide(block, live, "S") \ {b}
      /\ OnSide(block', live', "B") = OnSide(block, live, "B") \ {b}
  BY RemovedSound
<1>2. b \in OnSide(block, live, "B") /\ b \notin OnSide(block, live, "S")
  BY DEF OnSide, SideOf
<1>3. /\ sell_orders' = Cardinality(OnSide(block', live', "S"))
      /\ OnSide(block', live', "S") = OnSide(block, live, "S")
  <2>1. OnSide(block', live', "S") = OnSide(block, live, "S")
    BY <1>1, <1>2
  <2> QED
    BY <2>1 DEF BookInv, CountsInv
<1>4. live \subseteq Slots /\ live' \subseteq Slots
  BY <1>1 DEF BookInv, Sound
<1>5. buy_orders' = Cardinality(OnSide(block', live', "B"))
  <2>1. IsFiniteSet(OnSide(block, live, "B"))
    BY <1>4, SidesFinite
  <2> QED
    BY <1>1, <1>2, <2>1, FS_RemoveElement DEF BookInv, CountsInv
<1>6. IsBestSell(block', live', best_sell_idx')
  <2>1. \A c \in OnSide(block, live, "S") : block'[c].raw = block[c].raw
    BY <1>1, <1>3 DEF OnSide
  <2> QED
    BY <1>3, <2>1 DEF BookInv, CountsInv, IsBestSell
<1>7. IsBestBuy(block', live', best_buy_idx')
  <2>0. /\ block' \in [Slots -> BlockType]
        /\ Linked(block', order_buffer', live')
        /\ \A c \in live' : block'[c].raw.side \in {"B", "S"}
    BY <1>1 DEF Sound
  <2>1. buy_orders # 0
    BY <1>2, <1>4, SidesFinite DEF BookInv, CountsInv
  <2>2. best_buy_idx \in Prices
    BY <2>1, BestBuyHead
  <2>3. PICK a \in live : SideOf(a) = "B" /\ PriceOf(a) = best_buy_idx
    BY <2>1, BestBuyHead
  <2>4. ASSUME NEW c \in live'
        PROVE  \/ block'[c].raw.side = "B" /\ block'[c].raw.price <= best_buy_idx
               \/ block'[c].raw.side = "S" /\ block'[c].raw.price > best_buy_idx
    <3>1. c \in live /\ block'[c].raw = block[c].raw
      BY <1>1
    <3>2. block[c].raw.side = "S" => block[c].raw.price > best_buy_idx
      <4>1. block[c].raw.side = "S" => best_buy_idx < block[c].raw.price
        BY <2>3, <3>1 DEF BookInv, Sound, SideOf, PriceOf
      <4> QED
        BY <4>1
    <3>3. block[c].raw.side = "B" => block[c].raw.price <= best_buy_idx
      BY <3>1 DEF BookInv, CountsInv, IsBestBuy, OnSide
    <3> QED
      BY <2>0, <3>1, <3>2, <3>3
  <2>5. buy_orders' = 0 <=> OnSide(block', live', "B") = {}
    BY <1>4, <1>5, SidesFinite
  <2>6. CASE best_buy_idx' = NextBestBuy(order_buffer', buy_orders', best_buy_idx)
    BY <1>4, <2>0, <2>2, <2>4, <2>5, <2>6, NextBestBuyIs
  <2>7. CASE /\ ~(/\ order_buffer'[PriceOf(b)].head = nullptr
                  /\ PriceOf(b) = best_buy_idx)
             /\ best_buy_idx' = best_buy_idx
    <3>1. PICK c \in live' : block'[c].raw.price = best_buy_idx
      <4>1. CASE PriceOf(b) # best_buy_idx
        <5>1. a \in live' /\ block'[a].raw = block[a].raw
          BY <1>1, <2>3, <4>1
        <5> QED
          BY <2>3, <5>1 DEF PriceOf
      <4>2. CASE PriceOf(b) = best_buy_idx
        <5>1. order_buffer'[best_buy_idx].head # nullptr
          BY <2>7, <4>2
        <5> QED
          BY <2>0, <2>2, <5>1 DEF Linked
      <4> QED
        BY <4>1, <4>2
    <3>2. block'[c].raw.side = "B"
      <4>1. ~(best_buy_idx > best_buy_idx)
        BY <2>2, EngineAssumption DEF Prices
      <4> QED
        BY <2>4, <3>1, <4>1
    <3>3. c \in OnSide(block', live', "B")
      BY <3>2 DEF OnSide
    <3>4. \A d \in OnSide(block', live', "B") : block'[d].raw.price <= best_buy_idx
      BY <2>4 DEF OnSide
    <3> QED
      BY <2>2, <2>7, <3>1, <3>3, <3>4 DEF IsBestBuy
  <2> QED
    BY <2>6, <2>7
<1> QED
  BY <1>1, <1>3, <1>5, <1>6, <1>7 DEF BookInv, CountsInv
-----------------------------------------------------------------------------
(* A step that touches neither book nor pool.                              *)
LEMMA BookKept ==
    ASSUME BookInv, UNCHANGED <<bookVars, poolVars>>
    PROVE  BookInv'
<1>1. /\ UNCHANGED <<block, order_buffer, order_blocks_map, buy_orders, sell_orders,
                     best_buy_idx, best_sell_idx>>
      /\ UNCHANGED <<free_head, next, live, free_list>>
  BY DEF bookVars, poolVars
<1>2. Sound(block', order_buffer', live') /\ CountsInv' /\ MapInv'
  BY <1>1 DEF BookInv, CountsInv, MapInv
<1>3. PoolInv'
  BY <1>1 DEF BookInv, PoolInv, Pool!PoolTypeOK, Pool!FreeListInv, Pool!Slots,
              Pool!nullptr, Pool!Overwritten
<1> QED
  BY <1>2, <1>3 DEF BookInv

(* A partial fill or a reducing cancel.                                    *)
LEMMA BookReduced ==
    ASSUME BookInv, NEW b \in live, NEW q \in Nat, q > 0,
           block' = Reduced(block, b, q),
           UNCHANGED <<order_buffer, order_blocks_map, buy_orders, sell_orders,
                       best_buy_idx, best_sell_idx, poolVars>>
    PROVE  /\ BookInv'
           /\ block'[b].curr_qty = q
           /\ \A c \in live \ {b} : block'[c].curr_qty = block[c].curr_qty
           /\ \A c \in live : /\ block'[c].id = block[c].id
                              /\ block'[c].key = block[c].key
                              /\ block'[c].raw = block[c].raw
<1>1. UNCHANGED <<free_head, next, live, free_list>>
  BY DEF poolVars
<1>2. /\ Sound(block', order_buffer, live)
      /\ block'[b].curr_qty = q
      /\ \A c \in live \ {b} : block'[c].curr_qty = block[c].curr_qty
      /\ \A c \in live : /\ block'[c].id = block[c].id
                         /\ block'[c].key = block[c].key
                         /\ block'[c].raw = block[c].raw
      /\ \A side : OnSide(block', live, side) = OnSide(block, live, side)
  <2>1. Sound(block, order_buffer, live)
    BY DEF BookInv
  <2>2. PICK new : new = block'
    OBVIOUS
  <2>3. /\ Sound(new, order_buffer, live)
        /\ new[b].curr_qty = q
        /\ \A c \in live \ {b} : new[c].curr_qty = block[c].curr_qty
        /\ \A c \in live : /\ new[c].id = block[c].id
                           /\ new[c].key = block[c].key
                           /\ new[c].raw = block[c].raw
        /\ \A side : OnSide(new, live, side) = OnSide(block, live, side)
    BY <2>1, <2>2, SoundReduced
  <2> QED
    BY <2>2, <2>3
<1>3. CountsInv'
  <2>1. /\ \A c \in OnSide(block, live, "B") : block'[c].raw = block[c].raw
        /\ \A c \in OnSide(block, live, "S") : block'[c].raw = block[c].raw
    BY <1>2 DEF OnSide
  <2>2. IsBestBuy(block', live', best_buy_idx')
    BY <1>1, <1>2, <2>1 DEF BookInv, CountsInv, IsBestBuy
  <2>3. IsBestSell(block', live', best_sell_idx')
    BY <1>1, <1>2, <2>1 DEF BookInv, CountsInv, IsBestSell
  <2> QED
    BY <1>1, <1>2, <2>2, <2>3 DEF BookInv, CountsInv
<1>4. MapInv'
  BY <1>1, <1>2 DEF BookInv, MapInv
<1>5. PoolInv'
  BY <1>1 DEF BookInv, PoolInv, Pool!PoolTypeOK, Pool!FreeListInv, Pool!Slots,
              Pool!nullptr, Pool!Overwritten
<1> QED
  BY <1>1, <1>2, <1>3, <1>4, <1>5 DEF BookInv

(* What is left of an order joins the book.                                *)
Rests(b) ==
    /\ block' = Appended(block, order_buffer, b, NewBlock)
    /\ order_buffer' = AppendedLevels(block, order_buffer, b, NewBlock)
    /\ Pool!Allocate(b)
    /\ order_blocks_map' =
         [k \in DOMAIN order_blocks_map \cup {OrderKey} |->
            IF k = OrderKey THEN b ELSE order_blocks_map[k]]

(* The block of the order in hand has the order's own data.                *)
LEMMA NewBlockIs ==
    ASSUME IndInv, at = "match", order.price # MARKETPRICE
    PROVE  /\ NewBlock \in BlockType /\ NewBlock.key = OrderKey /\ OrderKey \in Keys
           /\ NewBlock.raw.side = order.side /\ order.side \in {"B", "S"}
           /\ NewBlock.raw.price = order.price /\ order.price \in Prices
           /\ NewBlock.curr_qty = order.curr_qty /\ order.curr_qty \in Nat
           /\ NewBlock.id = counter
<1>1. order \in OrderType /\ order.id = counter
  BY DEF IndInv, OrderInv, InHand
<1>2. OrderKey \in Keys
  BY <1>1 DEF OrderType, OrderKey, order_key, Keys
<1>3. order.price \in Prices
  BY <1>1 DEF OrderType
<1>4. /\ order.id \in Nat /\ order.curr_qty \in Nat /\ order.side \in {"B", "S"}
      /\ nullptr \in Pointer
  BY <1>1 DEF OrderType, Pointer
<1> QED
  BY <1>1, <1>2, <1>3, <1>4 DEF NewBlock, BlockType

(* Resting the order in hand leaves the lists and the map sound.           *)
LEMMA RestsSound ==
    ASSUME IndInv, at = "match", ~Matches, order.curr_qty > 0,
           order.price # MARKETPRICE, NEW b \in Slots, Rests(b)
    PROVE  /\ b \notin live /\ live' = live \cup {b}
           /\ Sound(block', order_buffer', live')
           /\ MapInv'
           /\ PoolInv'
           /\ \A c \in live : /\ block'[c].id = block[c].id
                              /\ block'[c].key = block[c].key
                              /\ block'[c].curr_qty = block[c].curr_qty
                              /\ block'[c].raw = block[c].raw
           /\ block'[b].id = counter /\ block'[b].key = OrderKey
           /\ block'[b].curr_qty = order.curr_qty
           /\ block'[b].raw.side = order.side /\ block'[b].raw.price = order.price
           /\ OnSide(block', live', "B") = IF order.side = "B"
                THEN OnSide(block, live, "B") \cup {b} ELSE OnSide(block, live, "B")
           /\ OnSide(block', live', "S") = IF order.side = "S"
                THEN OnSide(block, live, "S") \cup {b} ELSE OnSide(block, live, "S")
<1>0. /\ NewBlock \in BlockType /\ NewBlock.key = OrderKey /\ OrderKey \in Keys
      /\ NewBlock.raw.side = order.side /\ order.side \in {"B", "S"}
      /\ NewBlock.raw.price = order.price /\ order.price \in Prices
      /\ NewBlock.curr_qty = order.curr_qty /\ order.curr_qty \in Nat
      /\ NewBlock.id = counter
  BY NewBlockIs
<1>1. PoolInv' /\ b \notin live /\ live' = live \cup {b}
  BY PoolAllocates DEF Rests, IndInv, BookInv
<1>2. \A c \in live : block[c].id < counter
  BY DEF IndInv, OrderInv, InHand
<1>3. /\ \A c \in live : order.side = "B" /\ block[c].raw.side = "S"
                           => order.price < block[c].raw.price
      /\ \A c \in live : order.side = "S" /\ block[c].raw.side = "B"
                           => block[c].raw.price < order.price
  BY NothingCrosses DEF SideOf, PriceOf
<1>4. Sound(block, order_buffer, live)
  BY DEF IndInv, BookInv
<1>5. PICK nb : nb = NewBlock
  OBVIOUS
<1>6. /\ Sound(block', order_buffer', live')
      /\ \A c \in live : /\ block'[c].id = block[c].id
                         /\ block'[c].key = block[c].key
                         /\ block'[c].curr_qty = block[c].curr_qty
                         /\ block'[c].raw = block[c].raw
      /\ block'[b].id = nb.id /\ block'[b].key = nb.key
      /\ block'[b].curr_qty = nb.curr_qty /\ block'[b].raw = nb.raw
      /\ OnSide(block', live', "B") = IF nb.raw.side = "B"
           THEN OnSide(block, live, "B") \cup {b} ELSE OnSide(block, live, "B")
      /\ OnSide(block', live', "S") = IF nb.raw.side = "S"
           THEN OnSide(block, live, "S") \cup {b} ELSE OnSide(block, live, "S")
  <2>1. Fits(block, live, nb) /\ b \in Slots \ live
    BY <1>0, <1>1, <1>2, <1>3, <1>5 DEF Fits
  <2>2. /\ block' = Appended(block, order_buffer, b, nb)
        /\ order_buffer' = AppendedLevels(block, order_buffer, b, nb)
    BY <1>5 DEF Rests
  <2>3. live' = live \cup {b}
    BY <1>1
  <2> QED
    <3>1. PICK new, lev : new = block' /\ lev = order_buffer'
      OBVIOUS
    <3>2. /\ new = Appended(block, order_buffer, b, nb)
          /\ lev = AppendedLevels(block, order_buffer, b, nb)
      BY <2>2, <3>1
    <3>3. Sound(new, lev, live \cup {b}) /\ Joined(block, new, live, b, nb)
      BY <1>4, <2>1, <3>2, SoundAppended
    <3> QED
      BY <2>3, <3>1, <3>3 DEF Joined
<1>7. MapInv'
  <2>1. /\ DOMAIN order_blocks_map' = DOMAIN order_blocks_map \cup {OrderKey}
        /\ \A k \in DOMAIN order_blocks_map' :
             order_blocks_map'[k] = IF k = OrderKey THEN b ELSE order_blocks_map[k]
    BY DEF Rests
  <2>2. /\ DOMAIN order_blocks_map \subseteq Keys
        /\ \A k \in DOMAIN order_blocks_map :
             /\ order_blocks_map[k] \in live
             /\ block[order_blocks_map[k]].key = k
    BY DEF IndInv, BookInv, MapInv
  <2> QED
    BY <1>0, <1>1, <1>5, <1>6, <2>1, <2>2 DEF MapInv
<1> QED
  BY <1>0, <1>1, <1>5, <1>6, <1>7

(* The counts and indices after an order has come to rest.                 *)
LEMMA BookRested ==
    ASSUME IndInv, at = "match", ~Matches, order.curr_qty > 0,
           order.price # MARKETPRICE, NEW b \in Slots, Rests(b),
           IF order.side = "B"
           THEN /\ best_buy_idx' = IF order.price > best_buy_idx
                                   THEN order.price ELSE best_buy_idx
                /\ buy_orders' = buy_orders + 1
                /\ UNCHANGED <<best_sell_idx, sell_orders>>
           ELSE /\ best_sell_idx' = IF order.price < best_sell_idx
                                    THEN order.price ELSE best_sell_idx
                /\ sell_orders' = sell_orders + 1
                /\ UNCHANGED <<best_buy_idx, buy_orders>>
    PROVE  BookInv'
<1>1. /\ b \notin live /\ live' = live \cup {b}
      /\ Sound(block', order_buffer', live') /\ MapInv' /\ PoolInv'
      /\ \A c \in live : block'[c].raw = block[c].raw
      /\ block'[b].raw.side = order.side /\ block'[b].raw.price = order.price
  BY RestsSound
<1>9. /\ OnSide(block', live', "B") = IF order.side = "B"
           THEN OnSide(block, live, "B") \cup {b} ELSE OnSide(block, live, "B")
      /\ OnSide(block', live', "S") = IF order.side = "S"
           THEN OnSide(block, live, "S") \cup {b} ELSE OnSide(block, live, "S")
  BY RestsSound
<1>2. live \subseteq Slots /\ CountsInv
  BY DEF IndInv, BookInv, Sound
<1>3. order.side \in {"B", "S"} /\ order.price \in Prices
  BY NewBlockIs
<1>4. /\ best_buy_idx \in Prices /\ best_sell_idx \in 0 .. BUFFER_SIZE
      /\ BUFFER_SIZE \in Nat
  BY <1>2, EngineAssumption DEF CountsInv, IsBestBuy, IsBestSell
<1>5. /\ IsFiniteSet(OnSide(block, live, "B")) /\ IsFiniteSet(OnSide(block, live, "S"))
      /\ b \notin OnSide(block, live, "B") /\ b \notin OnSide(block, live, "S")
  <2>1. b \notin OnSide(block, live, "B") /\ b \notin OnSide(block, live, "S")
    BY <1>1 DEF OnSide
  <2> QED
    BY <1>2, <2>1, SidesFinite
<1>6. /\ \A c \in OnSide(block, live, "B") : /\ block'[c].raw = block[c].raw
                                             /\ block[c].raw.price \in Prices
      /\ \A c \in OnSide(block, live, "S") : /\ block'[c].raw = block[c].raw
                                             /\ block[c].raw.price \in Prices
  BY <1>1 DEF OnSide, IndInv, BookInv, Sound, BlockType
<1>7. CASE order.side = "B"
  <2>1. /\ OnSide(block', live', "B") = OnSide(block, live, "B") \cup {b}
        /\ OnSide(block', live', "S") = OnSide(block, live, "S")
    BY <1>7, <1>9
  <2>2. /\ buy_orders' = Cardinality(OnSide(block', live', "B"))
        /\ sell_orders' = Cardinality(OnSide(block', live', "S"))
    BY <1>2, <1>5, <1>7, <2>1, FS_AddElement DEF CountsInv
  <2>3. IsBestSell(block', live', best_sell_idx')
    BY <1>2, <1>6, <1>7, <2>1 DEF CountsInv, IsBestSell
  <2>4. best_buy_idx' \in Prices /\ best_buy_idx' >= best_buy_idx /\ best_buy_idx' >= order.price
    BY <1>3, <1>4, <1>7 DEF Prices
  <2>5. ASSUME NEW c \in OnSide(block', live', "B")
        PROVE  block'[c].raw.price <= best_buy_idx'
    <3>1. CASE c = b
      BY <1>1, <1>3, <2>4, <3>1 DEF Prices
    <3>2. CASE c # b
      <4>1. c \in OnSide(block, live, "B")
        BY <2>1, <3>2
      <4>2. block[c].raw.price <= best_buy_idx /\ block[c].raw.price \in Prices
        BY <1>2, <1>6, <4>1 DEF CountsInv, IsBestBuy
      <4>3. block'[c].raw = block[c].raw
        BY <1>6, <4>1
      <4> QED
        BY <1>4, <2>4, <4>2, <4>3 DEF Prices
    <3> QED
      BY <3>1, <3>2
  <2>6. \E c \in OnSide(block', live', "B") : block'[c].raw.price = best_buy_idx'
    <3>1. CASE best_buy_idx' = order.price
      BY <1>1, <2>1, <3>1
    <3>2. CASE best_buy_idx' # order.price
      <4>1. best_buy_idx' = best_buy_idx /\ order.price <= best_buy_idx
        BY <1>3, <1>4, <1>7, <3>2 DEF Prices
      <4>2. OnSide(block, live, "B") # {}
        <5>1. ASSUME OnSide(block, live, "B") = {} PROVE FALSE
          <6>1. best_buy_idx = 0
            BY <1>2, <5>1 DEF CountsInv, IsBestBuy
          <6> QED
            BY <1>3, <3>2, <4>1, <6>1 DEF Prices
        <5> QED
          BY <5>1
      <4>3. PICK c \in OnSide(block, live, "B") : block[c].raw.price = best_buy_idx
        BY <1>2, <4>2 DEF CountsInv, IsBestBuy
      <4> QED
        BY <1>6, <2>1, <4>1, <4>3
    <3> QED
      BY <3>1, <3>2
  <2>7. IsBestBuy(block', live', best_buy_idx')
    BY <2>1, <2>4, <2>5, <2>6 DEF IsBestBuy
  <2> QED
    BY <1>1, <2>2, <2>3, <2>7 DEF BookInv, CountsInv
<1>8. CASE order.side = "S"
  <2>1. /\ OnSide(block', live', "S") = OnSide(block, live, "S") \cup {b}
        /\ OnSide(block', live', "B") = OnSide(block, live, "B")
    BY <1>8, <1>9
  <2>2. /\ buy_orders' = Cardinality(OnSide(block', live', "B"))
        /\ sell_orders' = Cardinality(OnSide(block', live', "S"))
    BY <1>2, <1>5, <1>8, <2>1, FS_AddElement DEF CountsInv
  <2>3. IsBestBuy(block', live', best_buy_idx')
    BY <1>2, <1>6, <1>8, <2>1 DEF CountsInv, IsBestBuy
  <2>4. /\ best_sell_idx' \in 0 .. BUFFER_SIZE
        /\ best_sell_idx' <= best_sell_idx /\ best_sell_idx' <= order.price
    BY <1>3, <1>4, <1>8 DEF Prices
  <2>5. ASSUME NEW c \in OnSide(block', live', "S")
        PROVE  block'[c].raw.price >= best_sell_idx'
    <3>1. CASE c = b
      BY <1>1, <1>3, <2>4, <3>1 DEF Prices
    <3>2. CASE c # b
      <4>1. c \in OnSide(block, live, "S")
        BY <2>1, <3>2
      <4>2. block[c].raw.price >= best_sell_idx /\ block[c].raw.price \in Prices
        BY <1>2, <1>6, <4>1 DEF CountsInv, IsBestSell
      <4>3. block'[c].raw = block[c].raw
        BY <1>6, <4>1
      <4> QED
        BY <1>4, <2>4, <4>2, <4>3 DEF Prices
    <3> QED
      BY <3>1, <3>2
  <2>6. \E c \in OnSide(block', live', "S") : block'[c].raw.price = best_sell_idx'
    <3>1. CASE best_sell_idx' = order.price
      BY <1>1, <2>1, <3>1
    <3>2. CASE best_sell_idx' # order.price
      <4>1. best_sell_idx' = best_sell_idx /\ order.price >= best_sell_idx
        BY <1>3, <1>4, <1>8, <3>2 DEF Prices
      <4>2. OnSide(block, live, "S") # {}
        <5>1. ASSUME OnSide(block, live, "S") = {} PROVE FALSE
          <6>1. best_sell_idx = BUFFER_SIZE
            BY <1>2, <5>1 DEF CountsInv, IsBestSell
          <6> QED
            BY <1>3, <1>4, <4>1, <6>1 DEF Prices
        <5> QED
          BY <5>1
      <4>3. PICK c \in OnSide(block, live, "S") : block[c].raw.price = best_sell_idx
        BY <1>2, <4>2 DEF CountsInv, IsBestSell
      <4> QED
        BY <1>6, <2>1, <4>1, <4>3
    <3> QED
      BY <3>1, <3>2
  <2>7. IsBestSell(block', live', best_sell_idx')
    BY <2>1, <2>4, <2>5, <2>6 DEF IsBestSell
  <2> QED
    BY <1>1, <2>2, <2>3, <2>7 DEF BookInv, CountsInv
<1> QED
  BY <1>3, <1>7, <1>8
-----------------------------------------------------------------------------
(* What each step that changes the book does to it.                        *)
LEMMA FullFillIs ==
    ASSUME IndInv, at = "fill", FullFill
    PROVE  Front \in live /\ Removes(Front) /\ BookInv'
<1>1. InHand /\ Matches /\ BookInv
  BY DEF IndInv, OrderInv, InHand
<1>2. /\ Front \in live /\ Idx \in Prices /\ PriceOf(Front) = Idx
      /\ SideOf(Front) = (IF order.side = "B" THEN "S" ELSE "B")
  BY <1>1, FrontIs
<1>3. Removes(Front)
  BY <1>2 DEF FullFill, Removes, Unlinked, UnlinkedLevels, PriceOf
<1>4. CASE order.side = "B"
  <2>1. /\ sell_orders' = sell_orders - 1
        /\ best_sell_idx' = NextBestSell(order_buffer', sell_orders', best_sell_idx)
        /\ UNCHANGED <<buy_orders, best_buy_idx>>
    BY <1>4 DEF FullFill
  <2>2. SideOf(Front) = "S"
    BY <1>2, <1>4
  <2> QED
    BY <1>1, <1>2, <1>3, <2>1, <2>2, RemovedAsk
<1>5. CASE order.side # "B"
  <2>1. /\ buy_orders' = buy_orders - 1
        /\ best_buy_idx' = NextBestBuy(order_buffer', buy_orders', best_buy_idx)
        /\ UNCHANGED <<sell_orders, best_sell_idx>>
    BY <1>5 DEF FullFill
  <2>2. SideOf(Front) = "B"
    BY <1>2, <1>5
  <2> QED
    BY <1>1, <1>2, <1>3, <2>1, <2>2, RemovedBid
<1> QED
  BY <1>2, <1>3, <1>4, <1>5

(* A cancel that removes takes the client's own live order.                *)
LEMMA CancelRemovedIs ==
    ASSUME IndInv, NEW a \in Accounts, NEW r \in UserRefNums, NEW q,
           CancelRemoved(a, r, q)
    PROVE  LET b == order_blocks_map[order_key(a, r)] IN
           /\ b \in live /\ block[b].key = order_key(a, r)
           /\ Removes(b) /\ BookInv'
<1> DEFINE k == order_key(a, r)
<1>1. BookInv /\ k \in DOMAIN order_blocks_map
  BY DEF IndInv, CancelRemoved
<1>2. PICK b \in live : b = order_blocks_map[k] /\ block[b].key = k
  BY <1>1, SMTT(30) DEF BookInv, MapInv
<1>3. Removes(b)
  BY <1>2 DEF CancelRemoved, Removes, Unlinked, UnlinkedLevels
<1>4. SideOf(b) \in {"B", "S"}
  BY <1>1, <1>2 DEF BookInv, Sound, SideOf
<1>5. CASE SideOf(b) = "S"
  <2>1. /\ sell_orders' = sell_orders - 1
        /\ UNCHANGED <<buy_orders, best_buy_idx>>
        /\ best_sell_idx' =
             IF order_buffer'[PriceOf(b)].head = nullptr /\ PriceOf(b) = best_sell_idx
             THEN NextBestSell(order_buffer', sell_orders', PriceOf(b))
             ELSE best_sell_idx
    BY <1>2, <1>5 DEF CancelRemoved, SideOf, PriceOf
  <2>2. \/ best_sell_idx' = NextBestSell(order_buffer', sell_orders', best_sell_idx)
        \/ /\ ~(/\ order_buffer'[PriceOf(b)].head = nullptr
                /\ PriceOf(b) = best_sell_idx)
           /\ best_sell_idx' = best_sell_idx
    BY <2>1
  <2> QED
    BY <1>1, <1>2, <1>3, <1>5, <2>1, <2>2, RemovedAsk
<1>6. CASE SideOf(b) = "B"
  <2>1. /\ buy_orders' = buy_orders - 1
        /\ UNCHANGED <<sell_orders, best_sell_idx>>
        /\ best_buy_idx' =
             IF order_buffer'[PriceOf(b)].head = nullptr /\ PriceOf(b) = best_buy_idx
             THEN NextBestBuy(order_buffer', buy_orders', PriceOf(b))
             ELSE best_buy_idx
    BY <1>2, <1>6 DEF CancelRemoved, SideOf, PriceOf
  <2>2. \/ best_buy_idx' = NextBestBuy(order_buffer', buy_orders', best_buy_idx)
        \/ /\ ~(/\ order_buffer'[PriceOf(b)].head = nullptr
                /\ PriceOf(b) = best_buy_idx)
           /\ best_buy_idx' = best_buy_idx
    BY <2>1
  <2> QED
    BY <1>1, <1>2, <1>3, <1>6, <2>1, <2>2, RemovedBid
<1> QED
  BY <1>2, <1>3, <1>4, <1>5, <1>6, SMTT(30)

(* A partial fill reduces the front order and moves no other.              *)
LEMMA PartialFillIs ==
    ASSUME IndInv, at = "fill", PartialFill
    PROVE  /\ Front \in live
           /\ BookInv' /\ UNCHANGED <<live, order_blocks_map>>
           /\ block'[Front].curr_qty = block[Front].curr_qty - order.curr_qty
           /\ \A c \in live \ {Front} : block'[c].curr_qty = block[c].curr_qty
           /\ \A c \in live : /\ block'[c].id = block[c].id
                              /\ block'[c].key = block[c].key
                              /\ block'[c].raw = block[c].raw
<1>1. InHand /\ Matches /\ BookInv
  BY DEF IndInv, OrderInv, InHand
<1>2. /\ Front \in live /\ block[Front].curr_qty \in Nat
      /\ order.curr_qty \in Nat
  BY <1>1, FrontIs
<1>3. PICK b \in live : b = Front
  BY <1>2
<1>4. PICK q \in Nat : q > 0 /\ q = block[Front].curr_qty - order.curr_qty
  BY <1>2 DEF PartialFill
<1>5. /\ block' = Reduced(block, b, q)
      /\ UNCHANGED <<order_buffer, order_blocks_map, buy_orders, sell_orders,
                     best_buy_idx, best_sell_idx, poolVars>>
  BY <1>3, <1>4 DEF PartialFill, Reduced
<1>6. /\ BookInv'
      /\ block'[b].curr_qty = q
      /\ \A c \in live \ {b} : block'[c].curr_qty = block[c].curr_qty
      /\ \A c \in live : /\ block'[c].id = block[c].id
                         /\ block'[c].key = block[c].key
                         /\ block'[c].raw = block[c].raw
  BY <1>1, <1>4, <1>5, BookReduced
<1> QED
  BY <1>3, <1>4, <1>5, <1>6 DEF poolVars

(* A cancel that reduces changes the client's own live order only.         *)
LEMMA CancelReducedIs ==
    ASSUME IndInv, NEW a \in Accounts, NEW r \in UserRefNums,
           NEW q \in Quantities \cup {0}, CancelReduced(a, r, q)
    PROVE  LET b == order_blocks_map[order_key(a, r)] IN
           /\ b \in live /\ block[b].key = order_key(a, r)
           /\ BookInv' /\ UNCHANGED <<live, order_blocks_map>>
           /\ block'[b].curr_qty = q
           /\ \A c \in live \ {b} : block'[c].curr_qty = block[c].curr_qty
           /\ \A c \in live : /\ block'[c].id = block[c].id
                              /\ block'[c].key = block[c].key
                              /\ block'[c].raw = block[c].raw
<1>1. /\ BookInv /\ order_key(a, r) \in DOMAIN order_blocks_map /\ q \in Nat /\ q > 0
  BY EngineAssumption DEF IndInv, CancelReduced
<1>2. PICK b \in live : /\ b = order_blocks_map[order_key(a, r)]
                        /\ block[b].key = order_key(a, r)
  BY <1>1 DEF BookInv, MapInv
<1>3. /\ block' = Reduced(block, b, q)
      /\ UNCHANGED <<order_buffer, order_blocks_map, buy_orders, sell_orders,
                     best_buy_idx, best_sell_idx, poolVars>>
  BY <1>2 DEF CancelReduced, Reduced
<1>4. /\ BookInv'
      /\ block'[b].curr_qty = q
      /\ \A c \in live \ {b} : block'[c].curr_qty = block[c].curr_qty
      /\ \A c \in live : /\ block'[c].id = block[c].id
                         /\ block'[c].key = block[c].key
                         /\ block'[c].raw = block[c].raw
  BY <1>1, <1>3, BookReduced
<1> QED
  BY <1>2, <1>3, <1>4 DEF poolVars

(* Resting uses a free block and leaves the book sound.                    *)
LEMMA RestOrderIs ==
    ASSUME IndInv, RestOrder
    PROVE  \E b \in Slots : Rests(b) /\ BookInv'
<1>1. /\ at = "match" /\ ~Matches /\ order.curr_qty > 0
      /\ order.price # MARKETPRICE
  BY DEF RestOrder
<1>2. NewBlock.key = OrderKey /\ NewBlock.raw.price = order.price
  BY DEF NewBlock
<1>3. PICK b \in Slots :
         /\ Pool!Allocate(b)
         /\ LET l == append_list([block EXCEPT ![b] = NewBlock],
                                 order_buffer[order.price], b)
            IN /\ block' = l.blocks
               /\ order_buffer' = [order_buffer EXCEPT ![order.price] = l.level]
         /\ order_blocks_map' =
              [k \in DOMAIN order_blocks_map \cup {NewBlock.key} |->
                 IF k = NewBlock.key THEN b ELSE order_blocks_map[k]]
  BY DEF RestOrder
<1>4. Rests(b)
  BY <1>2, <1>3 DEF Rests, Appended, AppendedLevels
<1>5. IF order.side = "B"
      THEN /\ best_buy_idx' = IF order.price > best_buy_idx
                              THEN order.price ELSE best_buy_idx
           /\ buy_orders' = buy_orders + 1
           /\ UNCHANGED <<best_sell_idx, sell_orders>>
      ELSE /\ best_sell_idx' = IF order.price < best_sell_idx
                               THEN order.price ELSE best_sell_idx
           /\ sell_orders' = sell_orders + 1
           /\ UNCHANGED <<best_buy_idx, buy_orders>>
  BY DEF RestOrder
<1>6. BookInv'
  BY <1>1, <1>4, <1>5, BookRested
<1> QED
  BY <1>4, <1>6
-----------------------------------------------------------------------------
(* A new request is numbered after everything that rests.                  *)
LEMMA InsertOrderInd ==
    ASSUME IndInv, NEW o \in EnterRequest, InsertOrder(o)
    PROVE  IndInv'
<1>1. BookInv'
  BY BookKept DEF InsertOrder, IndInv
<1>2. /\ at' = "match" /\ counter' = counter + 1 /\ counter \in Nat
      /\ UNCHANGED <<block, live>>
      /\ order' = [account |-> o.account, ref |-> o.ref, side |-> o.side,
                   price |-> o.price, id |-> counter', curr_qty |-> o.qty]
      /\ o.side \in {"B", "S"}
  BY DEF InsertOrder, IndInv, OrderInv, bookVars, poolVars
<1>3. /\ o.account \in Accounts /\ o.ref \in UserRefNums
      /\ o.price \in Prices \cup {MARKETPRICE} /\ o.qty \in Nat
  BY EngineAssumption DEF EnterRequest
<1>4. order' \in OrderType /\ order'.id = counter'
  BY <1>2, <1>3 DEF OrderType
<1>5. \A b \in live : block[b].id <= counter /\ block[b].id \in Nat
  BY DEF IndInv, OrderInv, BookInv, Sound, BlockType
<1>6. \A b \in live' : block'[b].id <= counter' /\ block'[b].id < counter'
  BY <1>2, <1>5
<1> QED
  BY <1>1, <1>2, <1>4, <1>6 DEF IndInv, OrderInv, InHand

(* Steps that leave the book alone and keep or drop the request in hand.   *)
LEMMA FillIncomingInd ==
    ASSUME IndInv, FillIncoming
    PROVE  IndInv'
<1>1. BookInv'
  BY BookKept DEF FillIncoming, IndInv
<1>2. /\ UNCHANGED <<block, order_buffer, buy_orders, sell_orders, best_buy_idx,
                     best_sell_idx, live, counter, order>>
      /\ at = "match" /\ at' = "fill" /\ Matches
  BY DEF FillIncoming, bookVars, poolVars
<1>3. Matches'
  BY <1>2 DEF Matches, BuyMatches, SellMatches, SellLimit
<1> QED
  BY <1>1, <1>2, <1>3 DEF IndInv, OrderInv, InHand

(* A return of insert_order that leaves the book alone.                    *)
LEMMA ReturnInd ==
    ASSUME IndInv, at = "match", Return, UNCHANGED <<bookVars, poolVars>>
    PROVE  IndInv'
<1>1. BookInv'
  BY BookKept DEF IndInv
<1>2. UNCHANGED <<block, live, counter>> /\ at' = "idle" /\ order' = NoOrder
  BY DEF Return, bookVars, poolVars, counters
<1> QED
  BY <1>1, <1>2 DEF IndInv, OrderInv, InHand

(* A fill.                                                                 *)
LEMMA FillRestingInd ==
    ASSUME IndInv, FillResting
    PROVE  IndInv'
<1>1. /\ at = "fill" /\ at' = "match" /\ UNCHANGED counter
      /\ InHand /\ Matches /\ InHand'
  BY DEF FillResting, counters, IndInv, OrderInv, InHand
<1>2. /\ block[Front].curr_qty \in Nat /\ order.curr_qty \in Nat
      /\ order \in OrderType /\ order.id = counter
  BY <1>1, FrontIs DEF IndInv, OrderInv
<1>3. \A b \in live : block[b].id <= counter /\ block[b].id < counter
  BY <1>1 DEF IndInv, OrderInv
<1>4. CASE PartialFill
  <2>1. BookInv' /\ live' = live /\ \A c \in live : block'[c].id = block[c].id
    BY <1>1, <1>4, PartialFillIs
  <2>2. order' \in OrderType /\ order'.id = counter
    BY <1>2, <1>4 DEF PartialFill, OrderType
  <2> QED
    BY <1>1, <1>2, <1>3, <2>1, <2>2 DEF IndInv, OrderInv, InHand
<1>5. CASE FullFill
  <2>1. Front \in live /\ Removes(Front) /\ BookInv' /\ BookInv
    BY <1>1, <1>5, FullFillIs DEF IndInv
  <2>2. live' = live \ {Front} /\ \A c \in live' : block'[c].id = block[c].id
    BY <2>1, RemovedSound
  <2>3. order' \in OrderType /\ order'.id = counter
    BY <1>2, <1>5 DEF FullFill, OrderType
  <2> QED
    BY <1>1, <1>2, <1>3, <2>1, <2>2, <2>3 DEF IndInv, OrderInv, InHand
<1> QED
  BY <1>4, <1>5 DEF FillResting

(* An order comes to rest.                                                 *)
LEMMA RestOrderInd ==
    ASSUME IndInv, RestOrder
    PROVE  IndInv'
<1>1. /\ at = "match" /\ ~Matches /\ order.curr_qty > 0
      /\ order.price # MARKETPRICE
      /\ at' = "idle" /\ order' = NoOrder /\ UNCHANGED counter
  BY DEF RestOrder, Return, counters
<1>2. PICK b \in Slots : Rests(b) /\ BookInv'
  BY RestOrderIs
<1>3. /\ live' = live \cup {b} /\ block'[b].id = counter
      /\ \A c \in live : block'[c].id = block[c].id
  BY <1>1, <1>2, RestsSound
<1>4. counter \in Nat /\ \A c \in live : block[c].id <= counter
  BY DEF IndInv, OrderInv
<1>5. \A c \in live' : block'[c].id <= counter'
  BY <1>1, <1>3, <1>4
<1> QED
  BY <1>1, <1>2, <1>4, <1>5 DEF IndInv, OrderInv, InHand

(* A cancel.                                                               *)
LEMMA CancelInd ==
    ASSUME IndInv, NEW a \in Accounts, NEW r \in UserRefNums,
           NEW q \in Quantities \cup {0},
           CancelRejected(a, r, q) \/ CancelReduced(a, r, q) \/ CancelRemoved(a, r, q)
    PROVE  IndInv'
<1>1. /\ at = "idle" /\ at' = at /\ order' = order /\ UNCHANGED counter
      /\ counter \in Nat /\ order = NoOrder
      /\ \A c \in live : block[c].id <= counter
  BY DEF CancelRejected, CancelReduced, CancelRemoved, counters, IndInv, OrderInv, InHand
<1>2. BookInv' /\ live' \subseteq live /\ \A c \in live' : block'[c].id = block[c].id
  <2>1. CASE CancelRejected(a, r, q)
    <3>1. UNCHANGED <<bookVars, poolVars>>
      BY <2>1 DEF CancelRejected
    <3> QED
      BY <3>1, BookKept DEF IndInv, bookVars, poolVars
  <2>2. CASE CancelReduced(a, r, q)
    BY <2>2, CancelReducedIs
  <2>3. CASE CancelRemoved(a, r, q)
    <3>1. PICK b \in live : Removes(b) /\ BookInv'
      BY <2>3, CancelRemovedIs
    <3>2. live' = live \ {b} /\ \A c \in live' : block'[c].id = block[c].id
      BY <3>1, RemovedSound DEF IndInv
    <3> QED
      BY <3>1, <3>2
  <2> QED
    BY <2>1, <2>2, <2>3
<1> QED
  BY <1>1, <1>2 DEF IndInv, OrderInv, InHand

(* Every step keeps the invariant.                                         *)
LEMMA StepInd == IndInv /\ [Next]_vars => IndInv'
<1> SUFFICES ASSUME IndInv, [Next]_vars PROVE IndInv'
  OBVIOUS
<1>1. ASSUME NEW o \in EnterRequest, InsertOrder(o) PROVE IndInv'
  BY <1>1, InsertOrderInd
<1>2. ASSUME NEW o \in EnterRequest, InvalidSide(o) PROVE IndInv'
  <2>1. BookInv'
    BY <1>2, BookKept DEF InvalidSide, IndInv
  <2>2. UNCHANGED <<block, live, counter, order>> /\ at = "idle" /\ at' = "terminated"
    BY <1>2 DEF InvalidSide, bookVars, poolVars, counters
  <2> QED
    BY <2>1, <2>2 DEF IndInv, OrderInv, InHand
<1>3. CASE Filled
  BY <1>3, ReturnInd DEF Filled
<1>4. CASE CancelMarketRest
  BY <1>4, ReturnInd DEF CancelMarketRest
<1>5. CASE CancelPoolFull
  <2>1. UNCHANGED poolVars
    BY <1>5 DEF CancelPoolFull, Pool!AllocateFails, Pool!poolVars, poolVars
  <2> QED
    BY <1>5, <2>1, ReturnInd DEF CancelPoolFull
<1>6. CASE CancelOrder
  BY <1>6, CancelInd DEF CancelOrder
<1>7. CASE UNCHANGED vars
  <2>1. /\ UNCHANGED <<bookVars, poolVars, counters, at, order>>
        /\ UNCHANGED <<block, order_buffer, buy_orders, sell_orders, best_buy_idx,
                       best_sell_idx, live, counter>>
    BY <1>7 DEF vars, bookVars, poolVars, counters
  <2>2. BookInv'
    BY <2>1, BookKept DEF IndInv
  <2>3. Matches' <=> Matches
    BY <2>1 DEF Matches, BuyMatches, SellMatches, SellLimit
  <2> QED
    BY <2>1, <2>2, <2>3 DEF IndInv, OrderInv, InHand
<1>8. CASE Terminated
  BY <1>7, <1>8 DEF Terminated
<1> QED
  BY <1>1, <1>2, <1>3, <1>4, <1>5, <1>6, <1>7, <1>8, FillIncomingInd,
     FillRestingInd, RestOrderInd DEF Next

(* The inductive invariant holds throughout.                               *)
LEMMA Inductive == Spec => []IndInv
  BY StartInd, StepInd, PTL DEF Spec
-----------------------------------------------------------------------------
(* Every level's list holds exactly the live blocks of its price, linked   *)
(* both ways in order of arrival, after any sequence of fills, rests and   *)
(* cancels.                                                                *)
THEOREM LevelsCorrect == Spec => []LevelsInv
<1>1. IndInv => LevelsInv
  <2> SUFFICES ASSUME IndInv PROVE LevelsInv
    OBVIOUS
  <2>1. /\ Sound(block, order_buffer, live) /\ CountsInv /\ MapInv /\ PoolInv
        /\ OrderInv
    BY DEF IndInv, BookInv
  <2>2. EngineTypeOK
    <3>1. /\ \A s \in Slots : /\ block[s].curr_qty \in Nat
                              /\ block[s].prev \in Slots \cup {nullptr}
                              /\ block[s].next \in Slots \cup {nullptr}
                              /\ PriceOf(s) \in Prices
      BY <2>1 DEF Sound, BlockType, Pointer, PriceOf
    <3>2. order_buffer \in [Prices -> [head : Slots \cup {nullptr},
                                       tail : Slots \cup {nullptr}]]
      BY <2>1 DEF Sound, LevelType, Pointer
    <3>3. buy_orders \in Nat /\ sell_orders \in Nat
      BY <2>1, SidesFinite DEF Sound, CountsInv
    <3> QED
      BY <2>1, <3>1, <3>2, <3>3
         DEF EngineTypeOK, CountsInv, IsBestBuy, IsBestSell, MapInv, PoolInv, OrderInv
  <2>3. Linked(block, order_buffer, live)
    BY <2>1 DEF Sound
  <2> QED
    BY <2>2, <2>3 DEF LevelsInv, Linked, PriceOf
<1> QED
  BY <1>1, Inductive, PTL

(* The best indices and the counts are what a scan of the book would say.  *)
THEOREM BestCorrect == Spec => []BestInv
<1>1. IndInv => BestInv
  BY DEF IndInv, BookInv, CountsInv, IsBestBuy, IsBestSell, OnSide, BestInv, Bids,
         Asks, SideOf, PriceOf
<1> QED
  BY <1>1, Inductive, PTL

(* The book never rests crossed, so both sides can share one array.        *)
THEOREM UncrossedCorrect == Spec => []Uncrossed
<1>1. IndInv => Uncrossed
  BY DEF IndInv, BookInv, Sound, Uncrossed, Bids, Asks, SideOf, PriceOf
<1> QED
  BY <1>1, Inductive, PTL

(* No freed block is reached: not through the free list, which is disjoint *)
(* from the blocks in use, not through the cancel map, reused keys or not, *)
(* and not through a best index, which leads a matching loop to a block in *)
(* use of the other side at the price of the trade.                        *)
THEOREM NoUseAfterFreeCorrect == Spec => []NoUseAfterFree
<1>1. IndInv => NoUseAfterFree
  <2> SUFFICES ASSUME IndInv PROVE NoUseAfterFree
    OBVIOUS
  <2>1. Pool!FreeListInv
    BY DEF IndInv, BookInv, PoolInv
  <2>2. at = "fill" => Matches
    BY DEF IndInv, OrderInv
  <2>3. at \in {"match", "fill"} /\ Matches =>
          /\ Front \in live /\ PriceOf(Front) = Idx
          /\ SideOf(Front) = (IF order.side = "B" THEN "S" ELSE "B")
    BY FrontIs DEF InHand
  <2>4. \A k \in DOMAIN order_blocks_map :
          order_blocks_map[k] \in live /\ block[order_blocks_map[k]].key = k
    BY DEF IndInv, BookInv, MapInv
  <2> QED
    BY <2>1, <2>2, <2>3, <2>4 DEF NoUseAfterFree
<1> QED
  BY <1>1, Inductive, PTL

(* Each turn of a matching loop trades something, so every insert ends.    *)
THEOREM InsertAdvancesCorrect == Spec => InsertAdvances
<1>1. IndInv /\ [Next]_vars => [at = "fill" => order'.curr_qty < order.curr_qty]_vars
  <2> SUFFICES ASSUME IndInv, Next, at = "fill"
               PROVE  order'.curr_qty < order.curr_qty
    BY DEF vars
  <2>1. FillResting
    BY DEF Next, InsertOrder, InvalidSide, FillIncoming, Filled, CancelMarketRest,
           CancelPoolFull, RestOrder, CancelOrder, CancelRejected, CancelReduced,
           CancelRemoved, Terminated
  <2>2. /\ block[Front].curr_qty \in Nat /\ block[Front].curr_qty > 0
        /\ order.curr_qty \in Nat /\ order.curr_qty > 0 /\ order \in OrderType
    BY FrontIs DEF IndInv, OrderInv, InHand
  <2>3. PartialFill => order'.curr_qty = 0
    BY <2>2 DEF PartialFill, OrderType
  <2>4. FullFill => order'.curr_qty = order.curr_qty - block[Front].curr_qty
    BY <2>2 DEF FullFill, OrderType
  <2> QED
    BY <2>1, <2>2, <2>3, <2>4 DEF FillResting
<1> QED
  BY <1>1, Inductive, PTL DEF Spec, InsertAdvances
-----------------------------------------------------------------------------
(* The quantities are integers, and a key that is not resting has none on  *)
(* the book.                                                               *)
LEMMA QtyTypes ==
    ASSUME IndInv
    PROVE  /\ \A k : OnBookQty(k) \in Int /\ InHandQty(k) \in Int
           /\ \A k : (\A b \in live : block[b].key # k) => k \notin DOMAIN order_blocks_map
<1>1. /\ \A b \in live : block[b].curr_qty \in Nat
      /\ \A k \in DOMAIN order_blocks_map :
           order_blocks_map[k] \in live /\ block[order_blocks_map[k]].key = k
  BY DEF IndInv, BookInv, Sound, BlockType, MapInv
<1>2. InHand => order.curr_qty \in Nat
  BY DEF IndInv, OrderInv, OrderType
<1>3. at = "fill" => FillQty \in Nat
  <2>1. at = "fill" => block[Front].curr_qty \in Nat /\ order.curr_qty \in Nat
    BY FrontIs DEF IndInv, OrderInv, InHand
  <2> QED
    BY <2>1 DEF FillQty
<1>4. \A k : OnBookQty(k) \in Int
  BY <1>1 DEF OnBookQty
<1>5. \A k : InHandQty(k) \in Int
  BY <1>2, <1>3 DEF InHandQty
<1> QED
  BY <1>1, <1>4, <1>5

(* The messages for key k: open changes by delta for k and for no other.   *)
LEMMA Publishes ==
    ASSUME NEW k, NEW delta, publish(k, delta), k \in DOMAIN open,
           \A x \in DOMAIN open : open[x] \in Int
    PROVE  /\ DOMAIN open' = DOMAIN open
           /\ open'[k] = open[k] + delta
           /\ \A x \in DOMAIN open : x # k => open'[x] = open[x]
  BY DEF publish

(* An accepted order is open with its whole quantity.                      *)
LEMMA InsertOrderClient ==
    ASSUME DistinctRefs, IndInv, ClientInv, NEW o \in EnterRequest, InsertOrder(o)
    PROVE  ClientInv'
<1> DEFINE k == order_key(o.account, o.ref)
<1>1. /\ k \notin DOMAIN open /\ publish(k, o.qty) /\ ~InHand /\ at' = "match"
      /\ UNCHANGED <<block, live, order_blocks_map>>
      /\ order' = [account |-> o.account, ref |-> o.ref, side |-> o.side,
                   price |-> o.price, id |-> counter', curr_qty |-> o.qty]
  BY DEF InsertOrder, send_accepted, InHand, bookVars, poolVars
<1>2. o.qty \in Nat
  BY EngineAssumption DEF EnterRequest
<1>3. OrderKey' = k /\ order'.curr_qty = o.qty
  BY <1>1 DEF OrderKey
<1>4. \A b \in live : block[b].key # k
  BY <1>1 DEF ClientInv
<1>5. k \notin DOMAIN order_blocks_map
  BY <1>4, QtyTypes
<1>6. \A x : OnBookQty(x)' = OnBookQty(x)
  BY <1>1 DEF OnBookQty
<1>7. /\ \A x : InHandQty(x) = 0
      /\ \A x : InHandQty(x)' = IF x = k THEN o.qty ELSE 0
  BY <1>1, <1>3 DEF InHandQty, InHand
<1>8. \A x \in DOMAIN open : open[x] = OnBookQty(x) /\ OnBookQty(x) \in Int
  <2>1. \A x \in DOMAIN open : open[x] = OnBookQty(x) + InHandQty(x)
    BY DEF ClientInv
  <2> QED
    BY <1>7, <2>1, QtyTypes
<1>9. OnBookQty(k) = 0
  BY <1>5 DEF OnBookQty
<1> HIDE DEF k
<1>10. DOMAIN open' = DOMAIN open \cup {k}
  BY <1>1 DEF publish
<1>11. ASSUME NEW x \in DOMAIN open' PROVE open'[x] = OnBookQty(x)' + InHandQty(x)'
  <2>1. open'[x] = (IF x \in DOMAIN open THEN open[x] ELSE 0)
                   + (IF x = k THEN o.qty ELSE 0)
    BY <1>1, <1>10 DEF publish
  <2>2. CASE x = k
    BY <1>1, <1>2, <1>6, <1>7, <1>9, <2>1, <2>2
  <2>3. CASE x # k
    BY <1>6, <1>7, <1>8, <1>10, <2>1, <2>3
  <2> QED
    BY <2>2, <2>3
<1>12. \A b \in live' : /\ block'[b].key \in DOMAIN open'
                        /\ block'[b].key \in DOMAIN order_blocks_map'
                        /\ order_blocks_map'[block'[b].key] = b
                        /\ block'[b].key # OrderKey'
  BY <1>1, <1>3, <1>4, <1>10 DEF ClientInv
<1>13. OrderKey' \in DOMAIN open'
  BY <1>3, <1>10
<1> QED
  BY <1>11, <1>12, <1>13 DEF ClientInv

(* Open quantities and keys known to clients, as facts to cite.            *)
LEMMA ClientFacts ==
    ASSUME IndInv, ClientInv
    PROVE  /\ \A x \in DOMAIN open : open[x] = OnBookQty(x) + InHandQty(x)
           /\ \A x \in DOMAIN open : open[x] \in Int
           /\ InHand => /\ OrderKey \in DOMAIN open
                        /\ OrderKey \notin DOMAIN order_blocks_map
                        /\ OnBookQty(OrderKey) = 0
<1>1. \A x \in DOMAIN open : open[x] = OnBookQty(x) + InHandQty(x)
  BY DEF ClientInv
<1>2. \A x \in DOMAIN open : open[x] \in Int
  <2>1. \A x : OnBookQty(x) \in Int /\ InHandQty(x) \in Int
    BY QtyTypes
  <2> QED
    BY <1>1, <2>1
<1>3. InHand => /\ OrderKey \in DOMAIN open
                /\ OrderKey \notin DOMAIN order_blocks_map
  BY QtyTypes DEF ClientInv
<1> QED
  BY <1>1, <1>2, <1>3 DEF OnBookQty

(* The taker is told of a fill before its own quantity drops.              *)
LEMMA FillIncomingClient ==
    ASSUME IndInv, ClientInv, FillIncoming
    PROVE  ClientInv'
<1>1. /\ UNCHANGED <<block, order_buffer, best_buy_idx, best_sell_idx, live,
                     order_blocks_map, order>>
      /\ at = "match" /\ at' = "fill" /\ Matches /\ publish(OrderKey, -FillQty)
      /\ InHand /\ InHand'
  BY DEF FillIncoming, send_executed, bookVars, poolVars, InHand
<1>2. OrderKey' = OrderKey /\ FillQty' = FillQty
  BY <1>1 DEF OrderKey, FillQty, Front, Idx
<1>3. FillQty \in Int /\ order.curr_qty \in Int
  BY <1>1, FrontIs DEF FillQty
<1>4. /\ DOMAIN open' = DOMAIN open
      /\ open'[OrderKey] = open[OrderKey] + (-FillQty)
      /\ \A x \in DOMAIN open : x # OrderKey => open'[x] = open[x]
  BY <1>1, Publishes, ClientFacts
<1>5. \A x : OnBookQty(x)' = OnBookQty(x)
  BY <1>1 DEF OnBookQty
<1>6. /\ InHandQty(OrderKey) = order.curr_qty
      /\ InHandQty(OrderKey)' = order.curr_qty - FillQty
      /\ \A x : x # OrderKey => InHandQty(x) = 0 /\ InHandQty(x)' = 0
  BY <1>1, <1>2 DEF InHandQty
<1>7. ASSUME NEW x \in DOMAIN open' PROVE open'[x] = OnBookQty(x)' + InHandQty(x)'
  <2>1. x \in DOMAIN open /\ open[x] = OnBookQty(x) + InHandQty(x) /\ OnBookQty(x) \in Int
    BY <1>4, ClientFacts, QtyTypes
  <2>2. CASE x = OrderKey
    <3>1. open'[x] = open[x] - FillQty
      BY <1>3, <1>4, <2>1, <2>2, ClientFacts
    <3>2. OnBookQty(x)' = OnBookQty(x)
      BY <1>5
    <3>3. InHandQty(x) = order.curr_qty /\ InHandQty(x)' = order.curr_qty - FillQty
      <4>1. InHandQty(x) = order.curr_qty
        BY <1>1, <2>2 DEF InHandQty
      <4>2. InHandQty(x)' = order.curr_qty - FillQty
        BY <1>1, <1>2, <2>2 DEF InHandQty
      <4> QED
        BY <4>1, <4>2
    <3> QED
      BY <1>3, <2>1, <3>1, <3>2, <3>3
  <2>3. CASE x # OrderKey
    BY <1>4, <1>5, <1>6, <2>1, <2>3
  <2> QED
    BY <2>2, <2>3
<1>8. \A b \in live' : /\ block'[b].key \in DOMAIN open'
                       /\ block'[b].key \in DOMAIN order_blocks_map'
                       /\ order_blocks_map'[block'[b].key] = b
                       /\ block'[b].key # OrderKey'
  BY <1>1, <1>2, <1>4 DEF ClientInv
<1>9. OrderKey' \in DOMAIN open'
  BY <1>1, <1>2, <1>4, ClientFacts
<1> QED
  BY <1>7, <1>8, <1>9 DEF ClientInv

(* The maker is told of a fill as its quantity drops.                      *)
LEMMA FillRestingClient ==
    ASSUME IndInv, ClientInv, FillResting
    PROVE  ClientInv'
<1>1. /\ at = "fill" /\ at' = "match" /\ InHand /\ InHand' /\ Matches
      /\ publish(block[Front].key, -FillQty)
  BY DEF FillResting, send_executed, InHand, IndInv, OrderInv
<1>2. PICK f, kf : f = Front /\ kf = block[Front].key
  OBVIOUS
<1>3. /\ f \in live
      /\ block[f].curr_qty \in Nat /\ order.curr_qty \in Nat /\ order \in OrderType
      /\ FillQty = (IF block[f].curr_qty < order.curr_qty
                    THEN block[f].curr_qty ELSE order.curr_qty)
  BY <1>1, <1>2, FrontIs DEF FillQty
<1>4. /\ kf \in DOMAIN open /\ kf \in DOMAIN order_blocks_map
      /\ order_blocks_map[kf] = f /\ kf # OrderKey
  BY <1>1, <1>2, <1>3 DEF ClientInv
<1>5. PICK n \in Nat : n = FillQty
  BY <1>3
<1>6. /\ DOMAIN open' = DOMAIN open
      /\ open'[kf] = open[kf] + (-n)
      /\ \A x \in DOMAIN open : x # kf => open'[x] = open[x]
  BY <1>1, <1>2, <1>4, <1>5, Publishes, ClientFacts
<1>7. \A k \in DOMAIN order_blocks_map : k # kf =>
         order_blocks_map[k] \in live \ {f}
  BY <1>2 DEF IndInv, BookInv, MapInv
<1>8. /\ OrderKey' = OrderKey
      /\ order'.curr_qty = order.curr_qty - n
      /\ live' \subseteq live
      /\ \A b \in live' : block'[b].key = block[b].key
      /\ \A b \in live' : block[b].key \in DOMAIN order_blocks_map'
      /\ \A k \in DOMAIN order_blocks_map' :
            k \in DOMAIN order_blocks_map /\ order_blocks_map'[k] = order_blocks_map[k]
      /\ OnBookQty(kf)' = block[f].curr_qty - n
      /\ \A x : x # kf => OnBookQty(x)' = OnBookQty(x)
  <2>1. CASE PartialFill
    <3>1. /\ live' = live /\ order_blocks_map' = order_blocks_map
          /\ block'[f].curr_qty = block[f].curr_qty - order.curr_qty
          /\ \A c \in live \ {f} : block'[c].curr_qty = block[c].curr_qty
          /\ \A c \in live : block'[c].key = block[c].key
      BY <1>1, <1>2, <2>1, PartialFillIs
    <3>2. n = order.curr_qty
      BY <1>2, <1>3, <1>5, <2>1 DEF PartialFill
    <3>3. order'.curr_qty = 0 /\ OrderKey' = OrderKey
      BY <1>3, <2>1 DEF PartialFill, OrderType, OrderKey
    <3>4. OnBookQty(kf)' = block[f].curr_qty - n
      BY <1>4, <3>1, <3>2 DEF OnBookQty
    <3>5. \A x : x # kf => OnBookQty(x)' = OnBookQty(x)
      BY <1>7, <3>1 DEF OnBookQty
    <3>6. \A b \in live : block[b].key \in DOMAIN order_blocks_map
      BY DEF ClientInv
    <3> QED
      BY <1>3, <3>1, <3>2, <3>3, <3>4, <3>5, <3>6
  <2>2. CASE FullFill
    <3>0. Removes(Front) /\ Front \in live /\ BookInv
      BY <1>1, <2>2, FullFillIs DEF IndInv
    <3>1. /\ live' = live \ {f}
          /\ \A c \in live' : /\ block'[c].key = block[c].key
                              /\ block'[c].curr_qty = block[c].curr_qty
          /\ DOMAIN order_blocks_map' = DOMAIN order_blocks_map \ {kf}
          /\ \A k \in DOMAIN order_blocks_map' :
                order_blocks_map'[k] = order_blocks_map[k]
      BY <1>2, <3>0, RemovedSound
    <3>2. n = block[f].curr_qty
      BY <1>2, <1>3, <1>5, <2>2 DEF FullFill
    <3>3. order'.curr_qty = order.curr_qty - n /\ OrderKey' = OrderKey
      BY <1>2, <1>3, <2>2, <3>2 DEF FullFill, OrderType, OrderKey
    <3>4. OnBookQty(kf)' = block[f].curr_qty - n
      BY <1>3, <3>1, <3>2 DEF OnBookQty
    <3>5. \A x : x # kf => OnBookQty(x)' = OnBookQty(x)
      BY <1>7, <3>1 DEF OnBookQty
    <3>6. \A b \in live' : block[b].key \in DOMAIN order_blocks_map'
      BY <1>4, <3>1 DEF ClientInv
    <3> QED
      BY <3>1, <3>3, <3>4, <3>5, <3>6
  <2> QED
    BY <2>1, <2>2 DEF FillResting
<1>9. \A x : InHandQty(x)' = InHandQty(x)
  <2>1. \A x : InHandQty(x)' = IF x # OrderKey THEN 0 ELSE order.curr_qty - n
    BY <1>1, <1>8 DEF InHandQty
  <2>2. \A x : InHandQty(x) = IF x # OrderKey THEN 0 ELSE order.curr_qty - n
    BY <1>1, <1>5 DEF InHandQty
  <2> QED
    BY <2>1, <2>2
<1>10. ASSUME NEW x \in DOMAIN open' PROVE open'[x] = OnBookQty(x)' + InHandQty(x)'
  <2>1. /\ x \in DOMAIN open /\ open[x] = OnBookQty(x) + InHandQty(x)
        /\ OnBookQty(x) \in Int /\ InHandQty(x) \in Int
    BY <1>6, ClientFacts, QtyTypes
  <2>2. CASE x = kf
    <3>1. OnBookQty(x) = block[f].curr_qty /\ OnBookQty(x)' = block[f].curr_qty - n
      <4>1. OnBookQty(x) = block[f].curr_qty
        BY <1>4, <2>2 DEF OnBookQty
      <4>2. OnBookQty(kf)' = OnBookQty(x)'
        BY <2>2 DEF OnBookQty
      <4> QED
        BY <1>8, <4>1, <4>2
    <3>2. InHandQty(x)' = InHandQty(x)
      BY <1>9
    <3>3. open'[x] = open[x] + (-n)
      BY <1>6, <2>2
    <3> QED
      BY <1>3, <2>1, <3>1, <3>2, <3>3
  <2>3. CASE x # kf
    BY <1>6, <1>8, <1>9, <2>1, <2>3
  <2> QED
    BY <2>2, <2>3
<1>11. \A b \in live' : /\ block'[b].key \in DOMAIN open'
                        /\ block'[b].key \in DOMAIN order_blocks_map'
                        /\ order_blocks_map'[block'[b].key] = b
                        /\ block'[b].key # OrderKey'
  BY <1>1, <1>6, <1>8 DEF ClientInv
<1>12. OrderKey' \in DOMAIN open'
  BY <1>1, <1>6, <1>8, ClientFacts
<1> QED
  BY <1>10, <1>11, <1>12 DEF ClientInv

(* The request in hand ends: told filled, told cancelled, or resting.      *)
LEMMA FilledClient ==
    ASSUME IndInv, ClientInv, Filled
    PROVE  ClientInv'
<1>1. /\ UNCHANGED <<block, live, order_blocks_map, open>>
      /\ at = "match" /\ at' = "idle" /\ order.curr_qty = 0 /\ ~InHand'
  BY DEF Filled, Return, bookVars, poolVars, InHand
<1>2. \A x : OnBookQty(x)' = OnBookQty(x)
  BY <1>1 DEF OnBookQty
<1>3. \A x : InHandQty(x) = 0 /\ InHandQty(x)' = 0
  BY <1>1 DEF InHandQty
<1> QED
  BY <1>1, <1>2, <1>3 DEF ClientInv

(* A cancelled rest is closed at the client too.                           *)
LEMMA RestCancelledClient ==
    ASSUME IndInv, ClientInv, at = "match", Return, UNCHANGED bookVars,
           UNCHANGED live, send_cancelled(OrderKey, order.curr_qty)
    PROVE  ClientInv'
<1>1. /\ UNCHANGED <<block, order_blocks_map>>
      /\ at' = "idle" /\ InHand /\ ~InHand'
  BY DEF Return, bookVars, InHand
<1>2. PICK n \in Nat : n = order.curr_qty
  BY <1>1 DEF IndInv, OrderInv, OrderType
<1>3. /\ DOMAIN open' = DOMAIN open
      /\ open'[OrderKey] = open[OrderKey] + (-n)
      /\ \A x \in DOMAIN open : x # OrderKey => open'[x] = open[x]
  BY <1>1, <1>2, Publishes, ClientFacts DEF send_cancelled
<1>4. \A x : OnBookQty(x)' = OnBookQty(x)
  BY <1>1 DEF OnBookQty
<1>5. /\ \A x : InHandQty(x)' = 0
      /\ \A x : InHandQty(x) = IF x = OrderKey THEN n ELSE 0
  BY <1>1, <1>2 DEF InHandQty
<1>6. ASSUME NEW x \in DOMAIN open' PROVE open'[x] = OnBookQty(x)' + InHandQty(x)'
  <2>1. /\ x \in DOMAIN open /\ open[x] = OnBookQty(x) + InHandQty(x)
        /\ OnBookQty(x) \in Int
    BY <1>3, ClientFacts, QtyTypes
  <2>2. CASE x = OrderKey
    <3>1. open'[x] = open[x] + (-n)
      BY <1>3, <2>2
    <3> QED
      BY <1>4, <1>5, <2>1, <2>2, <3>1
  <2>3. CASE x # OrderKey
    BY <1>3, <1>4, <1>5, <2>1, <2>3
  <2> QED
    BY <2>2, <2>3
<1> QED
  BY <1>1, <1>3, <1>6 DEF ClientInv

(* A rested order stays open with what is left of it.                      *)
LEMMA RestOrderClient ==
    ASSUME IndInv, ClientInv, RestOrder
    PROVE  ClientInv'
<1>1. /\ at = "match" /\ ~Matches /\ order.curr_qty > 0 /\ order.price # MARKETPRICE
      /\ at' = "idle" /\ UNCHANGED open /\ InHand /\ ~InHand'
  BY DEF RestOrder, Return, InHand
<1>2. PICK b \in Slots : Rests(b)
  BY RestOrderIs
<1>3. /\ b \notin live /\ live' = live \cup {b}
      /\ \A c \in live : /\ block'[c].key = block[c].key
                         /\ block'[c].curr_qty = block[c].curr_qty
      /\ block'[b].key = OrderKey
      /\ block'[b].curr_qty = order.curr_qty
  BY <1>1, <1>2, RestsSound
<1>4. PICK k : k = OrderKey
  OBVIOUS
<1>5. /\ k \in DOMAIN open /\ k \notin DOMAIN order_blocks_map
      /\ \A c \in live : block[c].key # k
  BY <1>1, <1>4, ClientFacts DEF ClientInv
<1>6. /\ DOMAIN order_blocks_map' = DOMAIN order_blocks_map \cup {k}
      /\ order_blocks_map'[k] = b
      /\ \A x \in DOMAIN order_blocks_map : order_blocks_map'[x] = order_blocks_map[x]
  BY <1>2, <1>4, <1>5 DEF Rests
<1>7. \A x \in DOMAIN order_blocks_map : order_blocks_map[x] \in live
  BY DEF IndInv, BookInv, MapInv
<1>8. order.curr_qty \in Nat
  BY <1>1 DEF IndInv, OrderInv, OrderType
<1>9. \A x : OnBookQty(x)' = IF x = k THEN order.curr_qty ELSE OnBookQty(x)
  BY <1>3, <1>4, <1>6, <1>7 DEF OnBookQty
<1>10. /\ OnBookQty(k) = 0
       /\ \A x : InHandQty(x)' = 0
       /\ \A x : InHandQty(x) = IF x = k THEN order.curr_qty ELSE 0
  BY <1>1, <1>4, <1>5 DEF OnBookQty, InHandQty
<1>11. ASSUME NEW x \in DOMAIN open' PROVE open'[x] = OnBookQty(x)' + InHandQty(x)'
  <2>1. /\ x \in DOMAIN open /\ open'[x] = open[x]
        /\ open[x] = OnBookQty(x) + InHandQty(x) /\ OnBookQty(x) \in Int
    BY <1>1, ClientFacts, QtyTypes
  <2>2. CASE x = k
    BY <1>8, <1>9, <1>10, <2>1, <2>2
  <2>3. CASE x # k
    BY <1>9, <1>10, <2>1, <2>3
  <2> QED
    BY <2>2, <2>3
<1>12. \A c \in live' : /\ block'[c].key \in DOMAIN open'
                        /\ block'[c].key \in DOMAIN order_blocks_map'
                        /\ order_blocks_map'[block'[c].key] = c
  BY <1>1, <1>3, <1>4, <1>5, <1>6 DEF ClientInv
<1> QED
  BY <1>1, <1>11, <1>12 DEF ClientInv

(* A cancel tells the client what it takes off the book.                   *)
LEMMA CancelReducedClient ==
    ASSUME IndInv, ClientInv, NEW a \in Accounts, NEW r \in UserRefNums,
           NEW q \in Quantities \cup {0}, CancelReduced(a, r, q)
    PROVE  ClientInv'
<1>1. PICK k, b : k = order_key(a, r) /\ b = order_blocks_map[k]
  OBVIOUS
<1>2. /\ b \in live /\ block[b].key = k /\ UNCHANGED <<live, order_blocks_map>>
      /\ block'[b].curr_qty = q
      /\ \A c \in live \ {b} : block'[c].curr_qty = block[c].curr_qty
      /\ \A c \in live : block'[c].key = block[c].key
  BY <1>1, CancelReducedIs
<1>3. /\ k \in DOMAIN order_blocks_map /\ ~InHand /\ ~InHand'
      /\ publish(k, -(block[b].curr_qty - q))
  BY <1>1 DEF CancelReduced, send_cancelled, InHand
<1>4. q \in Nat /\ block[b].curr_qty \in Nat
  BY <1>2, EngineAssumption DEF IndInv, BookInv, Sound, BlockType
<1>5. k \in DOMAIN open
  BY <1>2 DEF ClientInv
<1>6. /\ DOMAIN open' = DOMAIN open
      /\ open'[k] = open[k] + (-(block[b].curr_qty - q))
      /\ \A x \in DOMAIN open : x # k => open'[x] = open[x]
  BY <1>3, <1>5, Publishes, ClientFacts
<1>7. \A x \in DOMAIN order_blocks_map : x # k => order_blocks_map[x] \in live \ {b}
  BY <1>2 DEF IndInv, BookInv, MapInv
<1>8. /\ OnBookQty(k) = block[b].curr_qty
      /\ \A x : OnBookQty(x)' = IF x = k THEN q ELSE OnBookQty(x)
  BY <1>1, <1>2, <1>3, <1>7 DEF OnBookQty
<1>9. \A x : InHandQty(x) = 0 /\ InHandQty(x)' = 0
  BY <1>3 DEF InHandQty
<1>10. ASSUME NEW x \in DOMAIN open' PROVE open'[x] = OnBookQty(x)' + InHandQty(x)'
  <2>1. /\ x \in DOMAIN open /\ open[x] = OnBookQty(x) + InHandQty(x)
        /\ OnBookQty(x) \in Int
    BY <1>6, ClientFacts, QtyTypes
  <2>2. CASE x = k
    <3>1. open'[x] = open[x] + (-(block[b].curr_qty - q))
      BY <1>6, <2>2
    <3> QED
      BY <1>4, <1>8, <1>9, <2>1, <2>2, <3>1
  <2>3. CASE x # k
    BY <1>6, <1>8, <1>9, <2>1, <2>3
  <2> QED
    BY <2>2, <2>3
<1>11. \A c \in live' : /\ block'[c].key \in DOMAIN open'
                        /\ block'[c].key \in DOMAIN order_blocks_map'
                        /\ order_blocks_map'[block'[c].key] = c
  BY <1>2, <1>6 DEF ClientInv
<1> QED
  BY <1>3, <1>10, <1>11 DEF ClientInv

(* A removed order is closed at the client too.                            *)
LEMMA CancelRemovedClient ==
    ASSUME IndInv, ClientInv, NEW a \in Accounts, NEW r \in UserRefNums,
           NEW q, CancelRemoved(a, r, q)
    PROVE  ClientInv'
<1>1. PICK k, b : k = order_key(a, r) /\ b = order_blocks_map[k]
  OBVIOUS
<1>2. b \in live /\ block[b].key = k /\ Removes(b) /\ BookInv
  BY <1>1, CancelRemovedIs DEF IndInv
<1>3. /\ live' = live \ {b}
      /\ \A c \in live' : /\ block'[c].key = block[c].key
                          /\ block'[c].curr_qty = block[c].curr_qty
      /\ DOMAIN order_blocks_map' = DOMAIN order_blocks_map \ {k}
      /\ \A x \in DOMAIN order_blocks_map' : order_blocks_map'[x] = order_blocks_map[x]
  BY <1>2, RemovedSound, SMTT(30)
<1>4. /\ k \in DOMAIN order_blocks_map /\ ~InHand /\ ~InHand'
      /\ publish(k, -block[b].curr_qty)
  BY <1>1 DEF CancelRemoved, send_cancelled, InHand
<1>5. block[b].curr_qty \in Nat /\ k \in DOMAIN open
  BY <1>2 DEF ClientInv, BookInv, Sound, BlockType
<1>6. /\ DOMAIN open' = DOMAIN open
      /\ open'[k] = open[k] + (-block[b].curr_qty)
      /\ \A x \in DOMAIN open : x # k => open'[x] = open[x]
  BY <1>4, <1>5, Publishes, ClientFacts
<1>7. \A x \in DOMAIN order_blocks_map : x # k => order_blocks_map[x] \in live \ {b}
  BY <1>2 DEF BookInv, MapInv
<1>8. /\ OnBookQty(k) = block[b].curr_qty
      /\ \A x : OnBookQty(x)' = IF x = k THEN 0 ELSE OnBookQty(x)
  BY <1>1, <1>3, <1>4, <1>7 DEF OnBookQty
<1>9. \A x : InHandQty(x) = 0 /\ InHandQty(x)' = 0
  BY <1>4 DEF InHandQty
<1>10. ASSUME NEW x \in DOMAIN open' PROVE open'[x] = OnBookQty(x)' + InHandQty(x)'
  <2>1. /\ x \in DOMAIN open /\ open[x] = OnBookQty(x) + InHandQty(x)
        /\ OnBookQty(x) \in Int
    BY <1>6, ClientFacts, QtyTypes
  <2>2. CASE x = k
    <3>1. open'[x] = open[x] + (-block[b].curr_qty)
      BY <1>6, <2>2
    <3> QED
      BY <1>5, <1>8, <1>9, <2>1, <2>2, <3>1
  <2>3. CASE x # k
    BY <1>6, <1>8, <1>9, <2>1, <2>3
  <2> QED
    BY <2>2, <2>3
<1>11. \A c \in live' : /\ block'[c].key \in DOMAIN open'
                        /\ block'[c].key \in DOMAIN order_blocks_map'
                        /\ order_blocks_map'[block'[c].key] = c
  <2>1. \A c \in live' : c \in live /\ block[c].key # k
    BY <1>1, <1>3 DEF ClientInv
  <2> QED
    BY <1>3, <1>6, <2>1 DEF ClientInv
<1> QED
  BY <1>4, <1>10, <1>11 DEF ClientInv

(* A step that tells clients nothing and has nothing in hand.              *)
LEMMA QuietClient ==
    ASSUME ClientInv, UNCHANGED <<bookVars, poolVars, order, open>>,
           at' = at \/ (~InHand /\ ~InHand')
    PROVE  ClientInv'
<1>1. UNCHANGED <<block, order_buffer, live, order_blocks_map, best_buy_idx,
                  best_sell_idx>>
  BY DEF bookVars, poolVars
<1>2. InHand' <=> InHand
  BY DEF InHand
<1>3. OrderKey' = OrderKey /\ FillQty' = FillQty
  BY <1>1 DEF OrderKey, FillQty, Front, Idx
<1>4. \A x : OnBookQty(x)' = OnBookQty(x)
  BY <1>1 DEF OnBookQty
<1>5. \A x : InHandQty(x)' = InHandQty(x)
  BY <1>1, <1>2, <1>3 DEF InHandQty
<1> QED
  BY <1>1, <1>2, <1>3, <1>4, <1>5 DEF ClientInv

(* The map is complete and the messages add up along every run in which    *)
(* clients use a UserRefNum once.                                          *)
LEMMA StepClient ==
    ASSUME DistinctRefs, IndInv, ClientInv, [Next]_vars
    PROVE  ClientInv'
<1>1. ASSUME NEW o \in EnterRequest, InsertOrder(o) PROVE ClientInv'
  BY <1>1, InsertOrderClient
<1>2. ASSUME NEW o \in EnterRequest, InvalidSide(o) PROVE ClientInv'
  <2>1. UNCHANGED <<bookVars, poolVars, order, open>> /\ ~InHand /\ ~InHand'
    BY <1>2 DEF InvalidSide, InHand
  <2> QED
    BY <2>1, QuietClient
<1>3. CASE CancelMarketRest
  BY <1>3, RestCancelledClient DEF CancelMarketRest, poolVars
<1>4. CASE CancelPoolFull
  BY <1>4, RestCancelledClient DEF CancelPoolFull, Pool!AllocateFails, Pool!poolVars
<1>5. ASSUME NEW a \in Accounts, NEW r \in UserRefNums, NEW q \in Quantities \cup {0},
             CancelRejected(a, r, q) \/ CancelReduced(a, r, q) \/ CancelRemoved(a, r, q)
      PROVE  ClientInv'
  <2>1. CASE CancelRejected(a, r, q)
    <3>1. UNCHANGED <<bookVars, poolVars, order, open>> /\ at' = at
      BY <2>1 DEF CancelRejected, send_cancel_rejected
    <3> QED
      BY <3>1, QuietClient
  <2> QED
    BY <1>5, <2>1, CancelReducedClient, CancelRemovedClient
<1>6. CASE UNCHANGED vars
  <2>1. UNCHANGED <<bookVars, poolVars, order, open>> /\ at' = at
    BY <1>6 DEF vars
  <2> QED
    BY <2>1, QuietClient
<1>7. CASE Terminated
  BY <1>6, <1>7 DEF Terminated
<1> QED
  BY <1>1, <1>2, <1>3, <1>4, <1>5, <1>6, <1>7, FillIncomingClient, FillRestingClient,
     FilledClient, RestOrderClient DEF Next, CancelOrder

(* What clients know agrees with the book throughout.                      *)
LEMMA ClientsInductive ==
    ASSUME DistinctRefs
    PROVE  Spec => []ClientInv
<1>1. Init => ClientInv
  BY DEF Init, Pool!Init, ClientInv, InHand
<1>2. IndInv /\ ClientInv /\ [Next]_vars => ClientInv'
  BY StepClient
<1> QED
  BY <1>1, <1>2, Inductive, PTL DEF Spec

(* A cancel can find every resting order and nothing else, as long as      *)
(* clients use a UserRefNum once.                                          *)
THEOREM CancelFindsOrderCorrect ==
    ASSUME DistinctRefs
    PROVE  Spec => []CancelFindsOrder
<1>1. IndInv /\ ClientInv => CancelFindsOrder
  BY DEF IndInv, BookInv, MapInv, ClientInv, CancelFindsOrder
<1> QED
  BY <1>1, Inductive, ClientsInductive, PTL

(* Accepted minus Executed minus Canceled is what the engine still has of  *)
(* an order, as long as clients use a UserRefNum once.                     *)
THEOREM ClientsKnowOpenQtyCorrect ==
    ASSUME DistinctRefs
    PROVE  Spec => []ClientsKnowOpenQty
<1>1. ClientInv => ClientsKnowOpenQty
  BY DEF ClientInv, ClientsKnowOpenQty, OnBookQty, InHandQty, InHand
<1> QED
  BY <1>1, ClientsInductive, PTL
-----------------------------------------------------------------------------
(* The matching engine implements PriceTimeBook: each of its steps, with   *)
(* the lists, indices, map and pool read as one set of resting orders, is  *)
(* a step of the abstract book or leaves that book as it is.  The mapping  *)
(* is Engine's Resting and Incoming; the invariant is IndInv.              *)

(* The resting order that a block holds.                                   *)
OrderOf(blk, b) == [id |-> blk[b].id, key |-> blk[b].key,
                    side |-> blk[b].raw.side, price |-> blk[b].raw.price,
                    qty |-> blk[b].curr_qty]

Orders(blk, lv) == {OrderOf(blk, b) : b \in lv}

(* The mapped book is the set of orders of the live blocks.                *)
LEMMA RestingIs == Resting = Orders(block, live)
  BY DEF Resting, Orders, OrderOf, SideOf, PriceOf

(* Two live blocks never hold the same order: their numbers differ.        *)
LEMMA OrdersDiffer ==
    ASSUME NEW blk, NEW buf, NEW lv, Sound(blk, buf, lv), NEW b \in lv, NEW c \in lv,
           b # c
    PROVE  OrderOf(blk, b) # OrderOf(blk, c)
<1>1. blk[b].id # blk[c].id
  BY DEF Sound
<1>2. OrderOf(blk, b).id = blk[b].id /\ OrderOf(blk, c).id = blk[c].id
  BY DEF OrderOf
<1> QED
  BY <1>1, <1>2

(* The request in hand, as the abstract book sees it.                      *)
LEMMA IncomingIs ==
    ASSUME IndInv
    PROVE  /\ InHand => /\ Incoming = [id |-> order.id, key |-> OrderKey,
                                       side |-> order.side, price |-> order.price,
                                       qty |-> order.curr_qty]
                        /\ Incoming # NoOrder
           /\ ~InHand => Incoming = NoOrder
<1>1. InHand => order.side \in {"B", "S"}
  BY DEF IndInv, OrderInv, OrderType
<1>2. NoOrder.side = "none"
  BY DEF NoOrder
<1>3. InHand => order # NoOrder
  BY <1>1, <1>2
<1>4. InHand => Incoming = [id |-> order.id, key |-> OrderKey, side |-> order.side,
                            price |-> order.price, qty |-> order.curr_qty]
  BY <1>3 DEF Incoming
<1>5. InHand => Incoming.side = order.side
  BY <1>4
<1>6. ~InHand => Incoming = NoOrder
  BY DEF Incoming, IndInv, OrderInv
<1> QED
  BY <1>1, <1>2, <1>4, <1>5, <1>6

(* Which resting orders cross the request in hand.                         *)
LEMMA CrossesIs ==
    ASSUME IndInv, InHand, NEW b \in live
    PROVE  Book!Crosses(Incoming, OrderOf(block, b)) <=>
             /\ SideOf(b) = (IF order.side = "B" THEN "S" ELSE "B")
             /\ order.curr_qty > 0
             /\ \/ order.price = MARKETPRICE
                \/ order.side = "B" /\ PriceOf(b) <= order.price
                \/ order.side = "S" /\ PriceOf(b) >= order.price
<1>1. /\ Incoming.side = order.side /\ Incoming.price = order.price
      /\ Incoming.qty = order.curr_qty
  BY IncomingIs
<1>2. OrderOf(block, b).side = SideOf(b) /\ OrderOf(block, b).price = PriceOf(b)
  BY DEF OrderOf, SideOf, PriceOf
<1> QED
  BY <1>1, <1>2 DEF Book!Crosses, Book!Opposite

(* The orders that cross the one in hand, seen in the blocks.              *)
LEMMA CrossingIs ==
    ASSUME IndInv, InHand
    PROVE  /\ \A b \in live : Book!Crosses(Incoming, OrderOf(block, b))
                                => OrderOf(block, b) \in Book!Crossing(Incoming)
           /\ \A q \in Book!Crossing(Incoming) :
                \E b \in live : /\ q = OrderOf(block, b)
                                /\ Book!Crosses(Incoming, OrderOf(block, b))
  BY RestingIs DEF Book!Crossing, Orders

(* A loop that goes on has something that crosses, and the front of the    *)
(* level under the best index is the order the abstract book would choose. *)
LEMMA FrontIsBest ==
    ASSUME IndInv, InHand, Matches
    PROVE  /\ Front \in live
           /\ OrderOf(block, Front) \in Book!Crossing(Incoming)
           /\ Book!Best(Incoming) = OrderOf(block, Front)
           /\ Book!TradeQty(Incoming) = FillQty
<1>1. /\ Front \in live /\ Idx \in Prices /\ PriceOf(Front) = Idx
      /\ SideOf(Front) = (IF order.side = "B" THEN "S" ELSE "B")
      /\ block[Front].curr_qty \in Nat
      /\ order.curr_qty \in Nat /\ order.curr_qty > 0
      /\ order \in OrderType
  BY FrontIs
<1>2. PICK f : f = Front
  OBVIOUS
<1>3. /\ order.side \in {"B", "S"} /\ order.price \in Prices \cup {MARKETPRICE}
      /\ BookInv /\ Sound(block, order_buffer, live)
  BY <1>1 DEF OrderType, IndInv, BookInv
<1>4. /\ block \in [Slots -> BlockType] /\ live \subseteq Slots
      /\ Linked(block, order_buffer, live)
  BY <1>3 DEF Sound
<1>5. /\ \A n \in Prices : n \in Nat
      /\ \A b \in live : /\ PriceOf(b) \in Prices /\ PriceOf(b) \in Nat
                         /\ block[b].id \in Nat
  BY <1>4, EngineAssumption DEF BlockType, PriceOf, Prices
<1>6. Book!Crosses(Incoming, OrderOf(block, f))
  <2>1. CASE order.side = "B"
    <3>1. Idx = best_sell_idx /\ best_sell_idx <= order.price
      BY <2>1 DEF Matches, BuyMatches, Idx
    <3> QED
      BY <1>1, <1>2, <2>1, <3>1, CrossesIs
  <2>2. CASE order.side = "S"
    <3>1. Idx = best_buy_idx /\ best_buy_idx >= SellLimit
      BY <2>2 DEF Matches, SellMatches, Idx
    <3>2. order.price = MARKETPRICE \/ PriceOf(f) >= order.price
      BY <1>1, <1>2, <3>1 DEF SellLimit
    <3> QED
      BY <1>1, <1>2, <2>2, <3>2, CrossesIs
  <2> QED
    BY <1>3, <2>1, <2>2
<1>7. OrderOf(block, f) \in Book!Crossing(Incoming)
  BY <1>1, <1>2, <1>6, CrossingIs
<1>8. ASSUME NEW b \in live, b # f, Book!Crosses(Incoming, OrderOf(block, b))
      PROVE  Book!Before(Incoming, OrderOf(block, f), OrderOf(block, b))
  <2>1. /\ OrderOf(block, f).price = PriceOf(f) /\ OrderOf(block, f).id = block[f].id
        /\ OrderOf(block, b).price = PriceOf(b) /\ OrderOf(block, b).id = block[b].id
        /\ Incoming.side = order.side
    BY IncomingIs DEF OrderOf, PriceOf
  <2>2. PriceOf(b) = PriceOf(f) => block[f].id < block[b].id
    <3>1. ASSUME PriceOf(b) = PriceOf(f) PROVE block[f].id <= block[b].id
      <4>1. block[order_buffer[block[b].raw.price].head].id <= block[b].id
        BY <1>4, HeadIsOldest
      <4>2. f = order_buffer[block[b].raw.price].head
        BY <1>1, <1>2, <3>1 DEF PriceOf, Front
      <4> QED
        BY <4>1, <4>2
    <3>2. block[f].id # block[b].id
      BY <1>1, <1>2, <1>3, <1>8 DEF Sound
    <3> QED
      BY <1>1, <1>2, <1>5, <3>1, <3>2
  <2>3. CASE order.side = "B"
    <3>1. SideOf(b) = "S"
      BY <1>8, <2>3, CrossesIs
    <3>2. b \in OnSide(block, live, "S")
      BY <3>1 DEF OnSide, SideOf
    <3>3. PriceOf(b) >= best_sell_idx
      BY <1>3, <3>2 DEF BookInv, CountsInv, IsBestSell, PriceOf
    <3>4. PriceOf(f) = best_sell_idx
      BY <1>1, <1>2, <2>3 DEF Idx
    <3>5. PriceOf(f) < PriceOf(b) \/ PriceOf(f) = PriceOf(b)
      BY <1>1, <1>2, <1>5, <3>3, <3>4
    <3> QED
      BY <2>1, <2>2, <2>3, <3>5 DEF Book!Before
  <2>4. CASE order.side = "S"
    <3>1. SideOf(b) = "B"
      BY <1>8, <2>4, CrossesIs
    <3>2. b \in OnSide(block, live, "B")
      BY <3>1 DEF OnSide, SideOf
    <3>3. PriceOf(b) <= best_buy_idx
      BY <1>3, <3>2 DEF BookInv, CountsInv, IsBestBuy, PriceOf
    <3>4. PriceOf(f) = best_buy_idx
      BY <1>1, <1>2, <2>4 DEF Idx
    <3>5. PriceOf(f) > PriceOf(b) \/ PriceOf(f) = PriceOf(b)
      BY <1>1, <1>2, <1>5, <3>3, <3>4
    <3> QED
      BY <2>1, <2>2, <2>4, <3>5 DEF Book!Before
  <2> QED
    BY <1>3, <2>3, <2>4
<1>9. \A q \in Book!Crossing(Incoming) \ {OrderOf(block, f)} :
         Book!Before(Incoming, OrderOf(block, f), q)
  BY <1>8, CrossingIs
<1>10. ASSUME NEW r \in Book!Crossing(Incoming),
              \A q \in Book!Crossing(Incoming) \ {r} : Book!Before(Incoming, r, q)
       PROVE  r = OrderOf(block, f)
  <2> SUFFICES ASSUME r # OrderOf(block, f) PROVE FALSE
    OBVIOUS
  <2>1. PICK b \in live : r = OrderOf(block, b)
    BY CrossingIs
  <2>2. /\ Book!Before(Incoming, OrderOf(block, f), OrderOf(block, b))
        /\ Book!Before(Incoming, OrderOf(block, b), OrderOf(block, f))
    BY <1>7, <1>9, <1>10, <2>1
  <2>3. /\ OrderOf(block, f).price = PriceOf(f) /\ OrderOf(block, f).id = block[f].id
        /\ OrderOf(block, b).price = PriceOf(b) /\ OrderOf(block, b).id = block[b].id
        /\ Incoming.side = order.side
    BY IncomingIs DEF OrderOf, PriceOf
  <2>4. /\ PriceOf(f) \in Nat /\ PriceOf(b) \in Nat
        /\ block[f].id \in Nat /\ block[b].id \in Nat
    BY <1>1, <1>2, <1>5
  <2> QED
    BY <1>3, <2>2, <2>3, <2>4 DEF Book!Before
<1>11. Book!Best(Incoming) = OrderOf(block, f)
  BY <1>7, <1>9, <1>10 DEF Book!Best
<1>12. Book!TradeQty(Incoming) = FillQty
  <2>1. OrderOf(block, f).qty = block[Front].curr_qty /\ Incoming.qty = order.curr_qty
    BY <1>2, IncomingIs DEF OrderOf
  <2> QED
    BY <1>11, <2>1 DEF Book!TradeQty, FillQty
<1> QED
  BY <1>1, <1>2, <1>7, <1>11, <1>12

(* A loop that has stopped has left nothing that crosses.                  *)
LEMMA NothingLeftCrosses ==
    ASSUME IndInv, at = "match", ~Matches
    PROVE  Book!Crossing(Incoming) = {}
<1>1. InHand /\ BookInv /\ order \in OrderType
  BY DEF InHand, IndInv, OrderInv
<1>2. /\ order.side \in {"B", "S"} /\ order.curr_qty \in Nat
      /\ order.price \in Prices \cup {MARKETPRICE}
  BY <1>1 DEF OrderType
<1>3. /\ live \subseteq Slots
      /\ \A b \in live : PriceOf(b) \in Prices
  BY <1>1 DEF BookInv, Sound, BlockType, PriceOf
<1>4. /\ BUFFER_SIZE \in Nat /\ MARKETPRICE \in Nat /\ MARKETPRICE >= BUFFER_SIZE
      /\ \A n \in Prices : n \in Nat /\ n < BUFFER_SIZE
  BY EngineAssumption DEF Prices
<1>5. ASSUME NEW b \in live, Book!Crosses(Incoming, OrderOf(block, b)) PROVE FALSE
  <2>1. /\ SideOf(b) = (IF order.side = "B" THEN "S" ELSE "B")
        /\ order.curr_qty > 0
        /\ \/ order.price = MARKETPRICE
           \/ order.side = "B" /\ PriceOf(b) <= order.price
           \/ order.side = "S" /\ PriceOf(b) >= order.price
    BY <1>1, <1>5, CrossesIs
  <2>2. CASE order.price # MARKETPRICE
    <3>1. order.price \in Nat /\ PriceOf(b) \in Nat
      BY <1>2, <1>3, <1>4, <2>2
    <3>2. /\ order.side = "B" /\ SideOf(b) = "S" => order.price < PriceOf(b)
          /\ order.side = "S" /\ SideOf(b) = "B" => PriceOf(b) < order.price
      BY <2>1, <2>2, NothingCrosses
    <3> QED
      BY <1>2, <2>1, <2>2, <3>1, <3>2
  <2>3. CASE order.price = MARKETPRICE /\ order.side = "B"
    <3>1. b \in OnSide(block, live, "S")
      BY <2>1, <2>3 DEF OnSide, SideOf
    <3>2. sell_orders \in Nat /\ sell_orders # 0
      BY <1>1, <1>3, <3>1, SidesFinite DEF BookInv, CountsInv
    <3>3. best_sell_idx \in Prices
      BY <1>1, <3>2, BestSellHead
    <3>4. BuyMatches
      BY <1>4, <2>1, <2>3, <3>2, <3>3 DEF BuyMatches
    <3> QED
      BY <2>3, <3>4 DEF Matches
  <2>4. CASE order.price = MARKETPRICE /\ order.side = "S"
    <3>1. b \in OnSide(block, live, "B")
      BY <2>1, <2>4 DEF OnSide, SideOf
    <3>2. buy_orders \in Nat /\ buy_orders # 0
      BY <1>1, <1>3, <3>1, SidesFinite DEF BookInv, CountsInv
    <3>3. best_buy_idx \in Prices /\ order_buffer[best_buy_idx].head # nullptr
      BY <1>1, <3>2, BestBuyHead
    <3>4. SellMatches
      BY <1>4, <2>1, <2>4, <3>2, <3>3 DEF SellMatches, SellLimit
    <3> QED
      BY <2>4, <3>4 DEF Matches
  <2> QED
    BY <1>2, <2>2, <2>3, <2>4
<1> QED
  BY <1>1, <1>5, CrossingIs

(* As many orders rest as blocks are live, so the book has room exactly    *)
(* when the pool has.                                                      *)
LEMMA RestingCount ==
    ASSUME IndInv
    PROVE  Cardinality(Resting) = Cardinality(live) /\ IsFiniteSet(live)
<1>1. IsFiniteSet(live)
  <2>1. IsFiniteSet(Slots)
    BY EngineAssumption, FS_Interval DEF Slots
  <2>2. live \in SUBSET Slots
    BY DEF IndInv, BookInv, Sound
  <2> QED
    BY <2>1, <2>2, FS_Subset
<1> DEFINE g == [b \in live |-> OrderOf(block, b)]
<1>2. g \in [live -> Orders(block, live)]
  BY DEF Orders
<1>3. \A b, c \in live : g[b] = g[c] => b = c
  BY OrdersDiffer DEF IndInv, BookInv
<1>4. \A r \in Orders(block, live) : \E b \in live : g[b] = r
  BY DEF Orders
<1> HIDE DEF g
<1>5. ExistsBijection(live, Orders(block, live))
  <2>1. DOMAIN g = live
    BY <1>2
  <2>2. IsInjective(g)
    BY <1>3, <2>1 DEF IsInjective
  <2>3. g \in Bijection(live, Orders(block, live))
    BY <1>2, <1>4, <2>2 DEF Bijection, Injection, Surjection
  <2> QED
    BY <2>3 DEF ExistsBijection
<1> QED
  BY <1>1, <1>5, FS_Bijection, RestingIs

(* Counting is the same in the book's module as here.                      *)
LEMMA SameCardinality == Book!Cardinality(Resting) = Cardinality(Resting)
  BY DEF Book!Cardinality, Cardinality

(* The pool is full exactly when the abstract book is.                     *)
LEMMA RoomIs ==
    ASSUME IndInv
    PROVE  /\ Pool!full => Cardinality(Resting) = ALLOCATOR_SIZE
           /\ \A b \in Slots : b \notin live => Cardinality(Resting) < ALLOCATOR_SIZE
<1>1. IsFiniteSet(Slots) /\ Cardinality(Slots) = ALLOCATOR_SIZE /\ live \subseteq Slots
  <2>1. 1 \in Int /\ ALLOCATOR_SIZE \in Int /\ ALLOCATOR_SIZE >= 1
    BY EngineAssumption
  <2>2. IsFiniteSet(1 .. ALLOCATOR_SIZE)
        /\ Cardinality(1 .. ALLOCATOR_SIZE) =
             IF 1 > ALLOCATOR_SIZE THEN 0 ELSE ALLOCATOR_SIZE - 1 + 1
    BY <2>1, FS_Interval
  <2> QED
    BY <2>1, <2>2 DEF Slots, IndInv, BookInv, Sound
<1>2. Pool!full => live = Slots
  <2> SUFFICES ASSUME Pool!full PROVE live = Slots
    OBVIOUS
  <2>1. Pool!PoolTypeOK /\ Pool!FreeListInv
    BY DEF IndInv, BookInv, PoolInv
  <2>2. free_list \in Seq(Slots)
    BY <2>1 DEF Pool!PoolTypeOK, Pool!Slots, Slots
  <2>3. free_list = <<>>
    <3> SUFFICES ASSUME free_list # <<>> PROVE FALSE
      OBVIOUS
    <3>1. free_list[1] \in Slots
      BY <2>2
    <3>2. free_list[1] = 0
      BY <2>1 DEF Pool!FreeListInv, Pool!full, Pool!nullptr
    <3> QED
      BY <3>1, <3>2 DEF Slots
  <2>4. live = Slots \ {free_list[j] : j \in 1 .. Len(free_list)}
    BY <2>1 DEF Pool!FreeListInv, Pool!Slots, Slots
  <2>5. 1 .. Len(free_list) = {}
    BY <2>3
  <2> QED
    BY <2>4, <2>5
<1>3. ASSUME NEW b \in Slots, b \notin live PROVE Cardinality(live) < ALLOCATOR_SIZE
  <2>0. live \in SUBSET Slots
    BY <1>1
  <2>1. Cardinality(live) <= ALLOCATOR_SIZE /\ Cardinality(live) # ALLOCATOR_SIZE
    <3>1. /\ Cardinality(live) <= Cardinality(Slots)
          /\ Cardinality(Slots) = Cardinality(live) => Slots = live
      BY <1>1, <2>0, FS_Subset
    <3> QED
      BY <1>1, <1>3, <3>1
  <2>2. Cardinality(live) \in Nat /\ ALLOCATOR_SIZE \in Nat
    BY RestingCount, FS_CardinalityType, EngineAssumption
  <2> QED
    BY <2>1, <2>2
<1> QED
  BY <1>1, <1>2, <1>3, RestingCount
-----------------------------------------------------------------------------
(* The book as a set of orders, after each kind of change to it.           *)
LEMMA OrdersKept ==
    ASSUME UNCHANGED <<block, live>>
    PROVE  Resting' = Resting
  BY DEF Resting, SideOf, PriceOf

(* Reducing a block reduces one abstract order.                            *)
LEMMA OrdersReduced ==
    ASSUME BookInv, NEW b \in live, live' = live, NEW q, block'[b].curr_qty = q,
           \A c \in live \ {b} : block'[c].curr_qty = block[c].curr_qty,
           \A c \in live : /\ block'[c].id = block[c].id
                           /\ block'[c].key = block[c].key
                           /\ block'[c].raw = block[c].raw
    PROVE  Resting' = (Resting \ {OrderOf(block, b)})
                        \cup {[OrderOf(block, b) EXCEPT !.qty = q]}
<1>1. Resting = {OrderOf(block, c) : c \in live}
  BY RestingIs DEF Orders
<1>2. Resting' = {OrderOf(block', c) : c \in live}
  BY DEF Resting, OrderOf, SideOf, PriceOf
<1>3. OrderOf(block', b) = [OrderOf(block, b) EXCEPT !.qty = q]
  BY DEF OrderOf
<1>4. \A c \in live \ {b} : OrderOf(block', c) = OrderOf(block, c)
  BY DEF OrderOf
<1>5. \A c \in live \ {b} : OrderOf(block, c) # OrderOf(block, b)
  BY OrdersDiffer DEF BookInv
<1> QED
  BY <1>1, <1>2, <1>3, <1>4, <1>5

(* Removing a block removes one abstract order.                            *)
LEMMA OrdersRemoved ==
    ASSUME BookInv, NEW b \in live, Removes(b)
    PROVE  Resting' = Resting \ {OrderOf(block, b)}
<1>1. Resting = {OrderOf(block, c) : c \in live}
  BY RestingIs DEF Orders
<1>2. Resting' = {OrderOf(block', c) : c \in live'}
  BY DEF Resting, OrderOf, SideOf, PriceOf
<1>3. /\ live' = live \ {b}
      /\ \A c \in live' : /\ block'[c].id = block[c].id
                          /\ block'[c].key = block[c].key
                          /\ block'[c].curr_qty = block[c].curr_qty
                          /\ block'[c].raw = block[c].raw
  BY RemovedSound
<1>4. \A c \in live' : OrderOf(block', c) = OrderOf(block, c)
  BY <1>3 DEF OrderOf
<1>5. \A c \in live' : OrderOf(block, c) # OrderOf(block, b)
  BY <1>3, OrdersDiffer DEF BookInv
<1> QED
  BY <1>1, <1>2, <1>3, <1>4, <1>5
-----------------------------------------------------------------------------
(* Accepting an order is the abstract Accept.                              *)
LEMMA InsertOrderRefines ==
    ASSUME IndInv, IndInv', NEW o \in EnterRequest, InsertOrder(o)
    PROVE  Book!Accept
<1>1. /\ at = "idle" /\ at' = "match" /\ counter' = counter + 1
      /\ UNCHANGED <<block, live>>
      /\ publish(order_key(o.account, o.ref), o.qty)
      /\ order' = [account |-> o.account, ref |-> o.ref, side |-> o.side,
                   price |-> o.price, id |-> counter', curr_qty |-> o.qty]
      /\ o.side \in {"B", "S"}
  BY DEF InsertOrder, bookVars, poolVars, send_accepted
<1>2. Incoming' = [id |-> counter', key |-> order_key(o.account, o.ref),
                   side |-> o.side, price |-> o.price, qty |-> o.qty]
  <2>1. order'.side = o.side /\ NoOrder.side = "none"
    BY <1>1 DEF NoOrder
  <2>2. order' # NoOrder
    BY <1>1, <2>1
  <2> QED
    BY <1>1, <2>2 DEF Incoming, OrderKey
<1>3. Incoming' # Book!None
  <2>1. Incoming'.side = o.side /\ Book!None.side = "none"
    BY <1>2 DEF Book!None
  <2> QED
    BY <1>1, <2>1
<1>4. o.qty >= 0
  <2>1. o.qty \in Nat
    BY EngineAssumption DEF EnterRequest
  <2> QED
    BY <2>1
<1>5. /\ Incoming'.qty = o.qty /\ Incoming'.id = counter'
      /\ Incoming'.key = order_key(o.account, o.ref)
  BY <1>2
<1> QED
  BY <1>1, <1>3, <1>4, <1>5, OrdersKept DEF Book!Accept, Book!Tell, publish

(* The taker's message is the abstract TellTaker.                          *)
LEMMA FillIncomingRefines ==
    ASSUME IndInv, FillIncoming
    PROVE  Book!TellTaker
<1>1. /\ at = "match" /\ at' = "fill" /\ InHand /\ Matches
      /\ UNCHANGED <<block, live, order, counter>>
      /\ publish(OrderKey, -FillQty)
  BY DEF FillIncoming, bookVars, poolVars, send_executed, InHand
<1>2. Book!Crossing(Incoming) # {} /\ Book!TradeQty(Incoming) = FillQty
  BY <1>1, FrontIsBest
<1>3. Incoming.key = OrderKey
  BY <1>1, IncomingIs
<1>4. Incoming' = Incoming
  BY <1>1 DEF Incoming, OrderKey
<1> QED
  BY <1>1, <1>2, <1>3, <1>4, OrdersKept DEF Book!TellTaker, Book!Tell, publish

(* A fill is a trade with the abstract best order.                         *)
LEMMA FillRestingRefines ==
    ASSUME IndInv, IndInv', FillResting
    PROVE  Book!Trade
<1>1. /\ at = "fill" /\ at' = "match" /\ InHand /\ InHand' /\ Matches
      /\ UNCHANGED counter /\ publish(block[Front].key, -FillQty) /\ BookInv
  BY DEF FillResting, counters, send_executed, InHand, IndInv, OrderInv
<1>2. PICK f, r, n : f = Front /\ r = OrderOf(block, f) /\ n = FillQty
  OBVIOUS
<1>3. f \in live /\ Book!Best(Incoming) = r /\ Book!TradeQty(Incoming) = n
  BY <1>1, <1>2, FrontIsBest
<1>4. /\ block[f].curr_qty \in Nat /\ order.curr_qty \in Nat /\ order \in OrderType
      /\ n = IF block[f].curr_qty < order.curr_qty
             THEN block[f].curr_qty ELSE order.curr_qty
      /\ order.curr_qty > 0
  BY <1>1, <1>2, FrontIs DEF FillQty
<1>5. /\ r.key = block[f].key /\ r.qty = block[f].curr_qty
      /\ r = [id |-> r.id, key |-> r.key, side |-> r.side, price |-> r.price,
              qty |-> r.qty]
  BY <1>2 DEF OrderOf
<1>6. /\ OrderKey' = OrderKey /\ order'.curr_qty = order.curr_qty - n
      /\ order'.id = order.id /\ order'.side = order.side /\ order'.price = order.price
      /\ Resting' = (Resting \ {r}) \cup
                      (IF r.qty > n THEN {[r EXCEPT !.qty = @ - n]} ELSE {})
  <2>1. CASE PartialFill
    <3>1. /\ live' = live
          /\ block'[f].curr_qty = block[f].curr_qty - order.curr_qty
          /\ \A c \in live \ {f} : block'[c].curr_qty = block[c].curr_qty
          /\ \A c \in live : /\ block'[c].id = block[c].id
                             /\ block'[c].key = block[c].key
                             /\ block'[c].raw = block[c].raw
      BY <1>1, <1>2, <2>1, PartialFillIs
    <3>2. n = order.curr_qty /\ r.qty > n
      BY <1>2, <1>4, <1>5, <2>1 DEF PartialFill
    <3>3. order' = [order EXCEPT !.curr_qty = 0]
      BY <2>1 DEF PartialFill
    <3>4. PICK q : q = r.qty - n
      OBVIOUS
    <3>5. Resting' = (Resting \ {r}) \cup {[r EXCEPT !.qty = q]}
      BY <1>1, <1>2, <1>3, <1>5, <3>1, <3>2, <3>4, OrdersReduced
    <3>6. /\ OrderKey' = OrderKey /\ order'.curr_qty = order.curr_qty - n
          /\ order'.id = order.id /\ order'.side = order.side
          /\ order'.price = order.price
      BY <1>4, <3>2, <3>3 DEF OrderType, OrderKey
    <3>7. [r EXCEPT !.qty = @ - n] = [r EXCEPT !.qty = q]
      BY <1>5, <3>4
    <3> QED
      BY <3>2, <3>5, <3>6, <3>7
  <2>2. CASE FullFill
    <3>1. Removes(f)
      BY <1>1, <1>2, <2>2, FullFillIs
    <3>2. Resting' = Resting \ {r}
      BY <1>1, <1>2, <1>3, <3>1, OrdersRemoved
    <3>3. n = block[f].curr_qty /\ ~(r.qty > n)
      BY <1>2, <1>4, <1>5, <2>2 DEF FullFill
    <3>4. order' = [order EXCEPT !.curr_qty = @ - block[f].curr_qty]
      BY <1>2, <2>2 DEF FullFill
    <3>5. /\ OrderKey' = OrderKey /\ order'.curr_qty = order.curr_qty - n
          /\ order'.id = order.id /\ order'.side = order.side
          /\ order'.price = order.price
      BY <1>4, <3>3, <3>4 DEF OrderType, OrderKey
    <3> QED
      BY <3>2, <3>3, <3>5
  <2> QED
    BY <2>1, <2>2 DEF FillResting
<1>7. Incoming' = [Incoming EXCEPT !.qty = @ - n]
  <2>1. Incoming = [id |-> order.id, key |-> OrderKey, side |-> order.side,
                    price |-> order.price, qty |-> order.curr_qty]
    BY <1>1, IncomingIs
  <2>2. order' # NoOrder
    <3>1. order'.side \in {"B", "S"} /\ NoOrder.side = "none"
      BY <1>4, <1>6 DEF OrderType, NoOrder
    <3> QED
      BY <3>1
  <2>3. Incoming' = [id |-> order.id, key |-> OrderKey, side |-> order.side,
                     price |-> order.price, qty |-> order.curr_qty - n]
    BY <1>6, <2>2 DEF Incoming
  <2> QED
    BY <2>1, <2>3
<1> QED
  BY <1>1, <1>2, <1>3, <1>5, <1>6, <1>7 DEF Book!Trade, Book!Tell, publish

(* The end of an insert, whatever it does to the book.                     *)
LEMMA FinishRefines ==
    ASSUME IndInv, at = "match", ~Matches, Return
    PROVE  /\ Book!Finish
           /\ Incoming = [id |-> order.id, key |-> OrderKey, side |-> order.side,
                          price |-> order.price, qty |-> order.curr_qty]
           /\ order.id = counter /\ order.curr_qty \in Nat
<1>1. at' = "idle" /\ order' = NoOrder /\ UNCHANGED counter
  BY DEF Return, counters
<1>2. InHand /\ order.id = counter /\ order.curr_qty \in Nat
  BY DEF InHand, IndInv, OrderInv, OrderType
<1>3. Incoming' = Book!None
  BY <1>1 DEF Incoming, NoOrder, Book!None
<1> QED
  BY <1>1, <1>2, <1>3, NothingLeftCrosses, IncomingIs DEF Book!Finish

(* An insert that was filled.                                              *)
LEMMA FilledRefines ==
    ASSUME IndInv, Filled
    PROVE  Book!Done
<1>1. /\ at = "match" /\ ~Matches /\ Return /\ order.curr_qty = 0
      /\ UNCHANGED <<block, live, open>>
  BY DEF Filled, bookVars, poolVars
<1>2. Book!Finish /\ Incoming.qty = 0
  BY <1>1, FinishRefines
<1> QED
  BY <1>1, <1>2, OrdersKept DEF Book!Done

(* What is left is cancelled: it had no limit, or the pool no block.       *)
LEMMA RestCancelledRefines ==
    ASSUME IndInv, CancelMarketRest \/ CancelPoolFull
    PROVE  Book!CancelRest
<1>1. /\ at = "match" /\ ~Matches /\ Return /\ order.curr_qty > 0
      /\ publish(OrderKey, -order.curr_qty)
      /\ UNCHANGED <<block, live>>
  BY DEF CancelMarketRest, CancelPoolFull, bookVars, poolVars, send_cancelled,
         Pool!AllocateFails, Pool!poolVars
<1>2. /\ Book!Finish /\ Incoming.qty = order.curr_qty /\ Incoming.key = OrderKey
      /\ Incoming.price = order.price
  BY <1>1, FinishRefines
<1>3. order.price = MARKETPRICE \/ Cardinality(Resting) = ALLOCATOR_SIZE
  BY RoomIs DEF CancelMarketRest, CancelPoolFull, Pool!AllocateFails
<1> QED
  BY <1>1, <1>2, <1>3, OrdersKept, SameCardinality
     DEF Book!CancelRest, Book!Tell, publish

(* What is left rests.                                                     *)
LEMMA RestOrderRefines ==
    ASSUME IndInv, RestOrder
    PROVE  Book!Rest
<1>1. /\ at = "match" /\ ~Matches /\ Return /\ order.curr_qty > 0
      /\ order.price # MARKETPRICE /\ UNCHANGED open
  BY DEF RestOrder
<1>2. /\ Book!Finish /\ order.id = counter
      /\ Incoming = [id |-> order.id, key |-> OrderKey, side |-> order.side,
                     price |-> order.price, qty |-> order.curr_qty]
  BY <1>1, FinishRefines
<1>3. PICK b \in Slots : Rests(b)
  BY RestOrderIs
<1>4. /\ b \notin live /\ live' = live \cup {b}
      /\ \A c \in live : /\ block'[c].id = block[c].id
                         /\ block'[c].key = block[c].key
                         /\ block'[c].curr_qty = block[c].curr_qty
                         /\ block'[c].raw = block[c].raw
      /\ block'[b].id = counter /\ block'[b].key = OrderKey
      /\ block'[b].curr_qty = order.curr_qty
      /\ block'[b].raw.side = order.side /\ block'[b].raw.price = order.price
  BY <1>1, <1>3, RestsSound
<1>5. Resting' = Resting \cup {Incoming}
  <2>1. Resting = {OrderOf(block, c) : c \in live}
    BY RestingIs DEF Orders
  <2>2. Resting' = {OrderOf(block', c) : c \in live'}
    BY DEF Resting, OrderOf, SideOf, PriceOf
  <2>3. \A c \in live : OrderOf(block', c) = OrderOf(block, c)
    BY <1>4 DEF OrderOf
  <2>4. OrderOf(block', b) = Incoming
    BY <1>2, <1>4 DEF OrderOf
  <2> QED
    BY <1>4, <2>1, <2>2, <2>3, <2>4
<1>6. Cardinality(Resting) < ALLOCATOR_SIZE
  BY <1>4, RoomIs
<1> QED
  BY <1>1, <1>2, <1>5, <1>6, SameCardinality DEF Book!Rest

(* A cancel that leaves less of an order, or nothing.                      *)
LEMMA CancelRefines ==
    ASSUME IndInv, NEW a \in Accounts, NEW u \in UserRefNums,
           NEW q \in Quantities \cup {0},
           CancelReduced(a, u, q) \/ CancelRemoved(a, u, q)
    PROVE  Book!Reduce
<1>1. PICK b \in live : /\ b = order_blocks_map[order_key(a, u)]
                        /\ block[b].key = order_key(a, u)
  BY CancelReducedIs, CancelRemovedIs
<1>2. PICK r : r = OrderOf(block, b)
  OBVIOUS
<1>3. /\ r \in Resting /\ r.key = order_key(a, u) /\ r.qty = block[b].curr_qty
  BY <1>1, <1>2, RestingIs DEF Orders, OrderOf
<1>4. /\ r.qty \in Nat /\ q \in Nat /\ BookInv
  BY <1>1, <1>3, EngineAssumption DEF IndInv, BookInv, Sound, BlockType
<1>5. /\ at = "idle" /\ UNCHANGED <<at, order, counter>> /\ q < r.qty
      /\ Incoming' = Incoming
  BY <1>1, <1>3 DEF CancelReduced, CancelRemoved, counters, Incoming, OrderKey
<1>6. q \in 0 .. r.qty - 1
  BY <1>4, <1>5
<1>7. /\ Book!Tell(r.key, q - r.qty)
      /\ Resting' = (Resting \ {r}) \cup
                      (IF q > 0 THEN {[r EXCEPT !.qty = q]} ELSE {})
  <2>1. CASE CancelReduced(a, u, q)
    <3>1. /\ live' = live /\ block'[b].curr_qty = q
          /\ \A c \in live \ {b} : block'[c].curr_qty = block[c].curr_qty
          /\ \A c \in live : /\ block'[c].id = block[c].id
                             /\ block'[c].key = block[c].key
                             /\ block'[c].raw = block[c].raw
      BY <1>1, <2>1, CancelReducedIs
    <3>2. Resting' = (Resting \ {r}) \cup {[r EXCEPT !.qty = q]}
      BY <1>2, <1>4, <3>1, OrdersReduced
    <3>3. q > 0 /\ publish(r.key, -(r.qty - q)) /\ -(r.qty - q) = q - r.qty
      BY <1>1, <1>3, <1>4, <2>1 DEF CancelReduced, send_cancelled
    <3>4. publish(r.key, q - r.qty)
      BY <3>3
    <3> QED
      BY <3>2, <3>3, <3>4 DEF Book!Tell, publish
  <2>2. CASE CancelRemoved(a, u, q)
    <3>1. Removes(b)
      BY <1>1, <2>2, CancelRemovedIs
    <3>2. Resting' = Resting \ {r}
      BY <1>2, <1>4, <3>1, OrdersRemoved, SMTT(30)
    <3>3. q = 0 /\ publish(r.key, -r.qty) /\ -r.qty = q - r.qty
      BY <1>1, <1>3, <1>4, <2>2 DEF CancelRemoved, send_cancelled
    <3>4. publish(r.key, q - r.qty)
      BY <3>3
    <3> QED
      BY <3>2, <3>3, <3>4 DEF Book!Tell, publish
  <2> QED
    BY <2>1, <2>2
<1> QED
  BY <1>3, <1>5, <1>6, <1>7 DEF Book!Reduce

(* The empty engine is the empty book.                                     *)
LEMMA StartRefines == Init => Book!Init
<1> SUFFICES ASSUME Init PROVE Book!Init
  OBVIOUS
<1>1. live = {}
  BY DEF Init, Pool!Init
<1>2. Resting = {}
  BY <1>1 DEF Resting
<1> QED
  BY <1>2 DEF Init, Book!Init, Incoming, NoOrder, Book!None

(* Every step of the engine is a step of the book or leaves it alone.      *)
LEMMA StepRefines ==
    IndInv /\ IndInv' /\ [Next]_vars => [Book!Next]_(Book!bookVars)
<1> SUFFICES ASSUME IndInv, IndInv', [Next]_vars
             PROVE  [Book!Next]_(Book!bookVars)
  OBVIOUS
<1> USE DEF Book!Next
<1>1. ASSUME NEW o \in EnterRequest, InsertOrder(o) PROVE Book!Next
  BY <1>1, InsertOrderRefines
<1>2. ASSUME NEW o \in EnterRequest, InvalidSide(o) PROVE Book!Next
  <2>1. /\ at = "idle" /\ at' = "terminated"
        /\ UNCHANGED <<block, live, order, open, counter>>
    BY <1>2 DEF InvalidSide, bookVars, poolVars, counters
  <2>2. Incoming' = Incoming
    BY <2>1 DEF Incoming, OrderKey
  <2> QED
    BY <2>1, <2>2, OrdersKept DEF Book!Refuse
<1>3. CASE UNCHANGED <<block, live, order, open, counter, at>>
  <2>1. Incoming' = Incoming
    BY <1>3 DEF Incoming, OrderKey
  <2> QED
    BY <1>3, <2>1, OrdersKept DEF Book!bookVars
<1>4. CASE CancelOrder
  <2>1. PICK a \in Accounts, u \in UserRefNums, q \in Quantities \cup {0} :
           CancelRejected(a, u, q) \/ CancelReduced(a, u, q) \/ CancelRemoved(a, u, q)
    BY <1>4 DEF CancelOrder
  <2>2. CASE CancelRejected(a, u, q)
    BY <1>3, <2>2 DEF CancelRejected, send_cancel_rejected, bookVars, poolVars, counters
  <2> QED
    BY <2>1, <2>2, CancelRefines
<1>5. CASE UNCHANGED vars
  BY <1>3, <1>5 DEF vars, bookVars, poolVars, counters
<1> QED
  BY <1>1, <1>2, <1>4, <1>5, FillIncomingRefines, FillRestingRefines, FilledRefines,
     RestCancelledRefines, RestOrderRefines DEF Next, Terminated

(* The engine keeps price-time priority, for every number of levels and    *)
(* blocks: insert_buy_order, insert_sell_order and cancel_order, with their*)
(* lists, best indices, map and pool, implement the abstract book.         *)
THEOREM EngineRefines == Spec => PriceTimePriority
  BY StartRefines, StepRefines, Inductive, PTL
     DEF Spec, PriceTimePriority, Book!Spec
=============================================================================
