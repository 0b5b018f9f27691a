--------------------------- MODULE PriceTimeBook ---------------------------
(***************************************************************************)
(* What the matching engine promises: price-time priority, with no word of *)
(* levels, lists, indices or pools.  The book is the set of resting        *)
(* orders; an incoming order trades with the best-priced, then oldest,     *)
(* order of the other side while prices cross; a remainder rests if it has *)
(* a limit and the book has room.                                          *)
(***************************************************************************)
EXTENDS Integers, FiniteSets

CONSTANTS Capacity,         \* how many orders the book holds
          MarketPrice

VARIABLES resting,          \* {[id, key, side, price, qty]}
          incoming,         \* the order being matched
          phase,            \* "idle", "match", "fill" or "terminated"
          open,             \* what messages have told clients is open
          lastId            \* order reference numbers given so far

bookVars == <<resting, incoming, phase, open, lastId>>

None == [side |-> "none"]

Init == /\ resting = {}
        /\ incoming = None
        /\ phase = "idle"
        /\ open = <<>>
        /\ lastId = 0

Opposite(side) == IF side = "B" THEN "S" ELSE "B"

(* An order without a limit takes any price.                               *)
Crosses(o, r) ==
    /\ r.side = Opposite(o.side)
    /\ o.qty > 0
    /\ \/ o.price = MarketPrice
       \/ o.side = "B" /\ r.price <= o.price
       \/ o.side = "S" /\ r.price >= o.price

(* r goes before q: a better price for the taker, or as good and older.    *)
Before(o, r, q) ==
    \/ o.side = "B" /\ r.price < q.price
    \/ o.side = "S" /\ r.price > q.price
    \/ r.price = q.price /\ r.id < q.id

Crossing(o) == {r \in resting : Crosses(o, r)}

Best(o) == CHOOSE r \in Crossing(o) :
              \A q \in Crossing(o) \ {r} : Before(o, r, q)

TradeQty(o) == IF Best(o).qty < o.qty THEN Best(o).qty ELSE o.qty

Tell(k, delta) ==
    open' = [x \in DOMAIN open \cup {k} |->
               (IF x \in DOMAIN open THEN open[x] ELSE 0)
               + (IF x = k THEN delta ELSE 0)]

Accept == /\ phase = "idle"
          /\ incoming' # None
          /\ incoming'.qty >= 0
          /\ lastId' = lastId + 1
          /\ incoming'.id = lastId'
          /\ Tell(incoming'.key, incoming'.qty)
          /\ phase' = "match"
          /\ UNCHANGED resting

Refuse == /\ phase = "idle"
          /\ phase' = "terminated"
          /\ UNCHANGED <<resting, incoming, open, lastId>>

(* A trade is told to the taker first, then to the maker.                  *)
TellTaker == /\ phase = "match"
             /\ Crossing(incoming) # {}
             /\ Tell(incoming.key, -TradeQty(incoming))
             /\ phase' = "fill"
             /\ UNCHANGED <<resting, incoming, lastId>>

Trade == LET r == Best(incoming)
             n == TradeQty(incoming)
         IN /\ phase = "fill"
            /\ Tell(r.key, -n)
            /\ resting' = (resting \ {r}) \cup
                            (IF r.qty > n THEN {[r EXCEPT !.qty = @ - n]}
                             ELSE {})
            /\ incoming' = [incoming EXCEPT !.qty = @ - n]
            /\ phase' = "match"
            /\ UNCHANGED lastId

Finish == /\ phase = "match"
          /\ Crossing(incoming) = {}
          /\ phase' = "idle"
          /\ incoming' = None
          /\ UNCHANGED lastId

Done == Finish /\ incoming.qty = 0 /\ UNCHANGED <<resting, open>>

CancelRest == /\ Finish
              /\ incoming.qty > 0
              /\ incoming.price = MarketPrice \/ Cardinality(resting) = Capacity
              /\ Tell(incoming.key, -incoming.qty)
              /\ UNCHANGED resting

Rest == /\ Finish
        /\ incoming.qty > 0
        /\ incoming.price # MarketPrice
        /\ Cardinality(resting) < Capacity
        /\ resting' = resting \cup {incoming}
        /\ UNCHANGED open

(* A cancel leaves n shares of an order that has more; its place in the    *)
(* queue is kept.                                                          *)
Reduce == /\ phase = "idle"
          /\ \E r \in resting : \E n \in 0 .. r.qty - 1 :
               /\ Tell(r.key, n - r.qty)
               /\ resting' = (resting \ {r}) \cup
                               (IF n > 0 THEN {[r EXCEPT !.qty = n]} ELSE {})
          /\ UNCHANGED <<incoming, phase, lastId>>

Next == \/ Accept \/ Refuse \/ TellTaker \/ Trade
        \/ Done \/ CancelRest \/ Rest \/ Reduce

Spec == Init /\ [][Next]_bookVars
=============================================================================
