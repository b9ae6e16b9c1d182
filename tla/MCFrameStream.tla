--------------------------- MODULE MCFrameStream ---------------------------
(* Small instances of FrameStream: two encryptions and one decryption.     *)
EXTENDS FrameStream, TLC

CONSTANTS e1, e2, d1

MCOpOf == [p \in Proc |-> IF p = d1 THEN "decrypt" ELSE "encrypt"]
MCSymmetry == Permutations(Proc \ {d1}) \cup Permutations(Path)
=============================================================================
