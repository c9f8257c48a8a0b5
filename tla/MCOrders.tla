------------------------------ MODULE MCOrders ------------------------------
(* Model-checking instances of Orders.                                      *)
EXTENDS Orders, TLC

RequestSymmetry == Permutations(Requests)
=============================================================================
