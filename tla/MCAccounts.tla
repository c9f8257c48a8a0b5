----------------------------- MODULE MCAccounts -----------------------------
(* Model-checking instance of Accounts.                                     *)
EXTENDS Accounts, TLC

Symmetry == Permutations(Users) \union Permutations(Emails) \union Permutations(Requests)
=============================================================================
