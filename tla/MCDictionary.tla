---------------------------- MODULE MCDictionary ----------------------------
(* Instances of Dictionary for TLC. *)
EXTENDS Dictionary

CONSTANTS s1, s2

(* In range, negative, negative as a long, and out of range.               *)
MCCapacities == {-1, 0, 2, 4, 40, 64}
=============================================================================
