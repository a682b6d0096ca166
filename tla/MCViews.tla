------------------------------ MODULE MCViews ------------------------------
(* The connections are alike.                                              *)
EXTENDS Views, TLC

MCSymmetry == Permutations(Conns)
=============================================================================
