----------------------------- MODULE MCStockRoom -----------------------------
(* Instances of StockRoom small enough for TLC.                            *)
EXTENDS StockRoom, TLC

CONSTANTS tent, e1, o1, i1

Line(i, q, c)  == [item |-> i, quantity |-> q, cost |-> c]

DocKinds == (e1 :> "ENTRY") @@ (o1 :> "OBLIGATION") @@ (i1 :> "INVOICE")

ItemKinds == {[method |-> "LIFO", mode |-> "SELL_AND_RENT", negative |-> FALSE],
              [method |-> "WEIGHTED_AVERAGE", mode |-> "SELL_AND_RENT", negative |-> TRUE]}

SomeBaskets ==
  {[purchase |-> TRUE,  lines |-> <<Line(tent, 2, 1), Line(tent, 1, 4)>>],
   [purchase |-> FALSE, lines |-> <<Line(tent, 2, 0)>>]}

SomeBills == {<<[item |-> tent, quantity |-> 1, rental |-> TRUE],
                [item |-> tent, quantity |-> 1, rental |-> FALSE]>>}

SomeManuals == {[item |-> tent, type |-> "RETURN_OUT", quantity |-> 1, cost |-> 0]}

Symmetry == Permutations(Requests)
=============================================================================
