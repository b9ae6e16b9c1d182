------------------------------ MODULE MCSidecar ------------------------------
(* Small instances of Sidecar.                                             *)
EXTENDS Sidecar, TLC

MCSymmetry == Permutations(Proc)
=============================================================================
