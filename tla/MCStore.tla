------------------------------ MODULE MCStore ------------------------------
(* Model-checking instance of Store: the accounts are interchangeable.     *)
EXTENDS Store, TLC

MCSymmetry == Permutations(Users)
=============================================================================
