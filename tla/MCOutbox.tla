------------------------------ MODULE MCOutbox ------------------------------
(* Model-checking instances of Outbox.                                      *)
EXTENDS Outbox, TLC

\* The replicas run the same code and no order among them matters.
ReplicaSymmetry == Permutations(Workers)
=============================================================================
