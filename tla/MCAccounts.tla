----------------------------- MODULE MCAccounts -----------------------------
(* The accounts, with operations and passwords that are interchangeable.    *)
EXTENDS Accounts, TLC

Symmetry == Permutations(Procs) \cup Permutations(Passwords)
=============================================================================
