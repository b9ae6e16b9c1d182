------------------------------ MODULE MCKeySet ------------------------------
(* Small instances of KeySet.                                              *)
EXTENDS KeySet, TLC

MCSymmetry == Permutations(Proc)
=============================================================================
