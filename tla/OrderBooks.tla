----------------------------- MODULE OrderBooks -----------------------------
(***************************************************************************)
(* data_structure_bench/base.hpp: what the three order books of the        *)
(* benchmark share.  The buy and the sell half of each book are the same   *)
(* code with the comparisons turned round, so every operator takes the     *)
(* side.  An order is [id, price, size].  A resting block's address is its *)
(* id: no two live blocks share one.                                       *)
(***************************************************************************)
EXTENDS Integers, Sequences, SequencesExt

CONSTANTS Size          \* the tick book has prices 0 .. Size - 1

ASSUME SizeAssumption == Size \in Nat /\ Size > 2

Sides == {"buy", "sell"}
Other(side) == IF side = "buy" THEN "sell" ELSE "buy"
nullptr == 0
Least(m, n) == IF m < n THEN m ELSE n
UINT64_MAX == Size      \* above every price of the model

\* price p goes before price q on this side
Ahead(side, p, q) == IF side = "buy" THEN p > q ELSE p < q

\* Mutant of operator_gt: the earlier of two orders at a price is not ahead.
operator_gt_price(side, a, b) == Ahead(side, a.price, b.price)

operator_gt(side, a, b) == \/ Ahead(side, a.price, b.price)
                           \/ a.price = b.price /\ a.id < b.id

operator_lt(side, a, b) == \/ Ahead(side, b.price, a.price)
                           \/ a.price = b.price /\ a.id > b.id

\* BuyOrder() and SellOrder()
NoOrder == [id |-> 0, price |-> 0, size |-> 0]
=============================================================================
