----------------------------- MODULE MCOtpPairs -----------------------------
(* Small instances of OtpPairs: two directories, three names.              *)
EXTENDS OtpPairs, TLC

CONSTANTS a, b, c, d1, d2

MCDirOf == [o \in Path |-> IF o = c THEN d2 ELSE d1]
MCSymmetry == Permutations(Proc)
=============================================================================
