--------------------------- MODULE MCStagedOutput ---------------------------
(* Small instances of StagedOutput.                                        *)
EXTENDS StagedOutput, TLC

MCSymmetry == Permutations(Proc)
=============================================================================
