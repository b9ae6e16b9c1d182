---------------------------- MODULE MCXorReplace ----------------------------
(* Small instances of XorReplace.                                          *)
EXTENDS XorReplace, TLC

MCSymmetry == Permutations(Proc)
=============================================================================
