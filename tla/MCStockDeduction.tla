-------------------------- MODULE MCStockDeduction --------------------------
(* Model-checking instances of StockDeduction.                              *)
EXTENDS StockDeduction, TLC

MCBody(order, item, quantity) ==
  [product_id |-> 1, quantity |-> quantity, order_id |-> order, order_item_id |-> item,
   idempotency_key |-> 0]

\* What the order service publishes: the product and the quantity only.  Three orders of
\* the same product, two of them for the same quantity.
OrderServiceBodies == [m \in Messages |-> MCBody(0, 0, IF m = 3 THEN 2 ELSE 1)]

\* With the metadata the handler accepts: two equal items of order 1, one of order 2.
\* Together they are more than the stock.
BodiesWithMetadata ==
  [m \in Messages |-> MCBody(IF m = 3 THEN 2 ELSE 1, m, IF m = 3 THEN 2 ELSE 1)]

WorkerSymmetry == Permutations(Workers)
=============================================================================
