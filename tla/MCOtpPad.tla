------------------------------ MODULE MCOtpPad ------------------------------
(* Small instances of OtpPad: a pair of pads and a copy of each that       *)
(* somebody makes; x1 is the receiver of another pair.                     *)
EXTENDS OtpPad, TLC

CONSTANTS s1, s2, r1, r2, x1, id1, id2

MCIdOf   == [f \in PadFile |-> IF f = x1 THEN id2 ELSE id1]
MCRoleOf == [f \in PadFile |-> IF f \in {r1, r2, x1} THEN "receiver" ELSE "sender"]
MCSymmetry == Permutations(Proc) \cup Permutations(Message)
=============================================================================
