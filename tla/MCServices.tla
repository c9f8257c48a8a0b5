------------------------------ MODULE MCServices ------------------------------
(* Model-checking instance of Services.                                       *)
EXTENDS Services, TLC

Symmetry == Permutations(PayRequests) \union Permutations(CartRequests)
=============================================================================
