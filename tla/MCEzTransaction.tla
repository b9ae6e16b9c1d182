--------------------------- MODULE MCEzTransaction ---------------------------
(* Small instances of EzTransaction.                                       *)
EXTENDS EzTransaction, TLC

MCSymmetry == Permutations(Proc) \cup Permutations(Text)
=============================================================================
