--------------------------- MODULE MCEncoderOpen ---------------------------
(* Instances of EncoderOpen for TLC. *)
EXTENDS EncoderOpen

CONSTANTS c1, c2

MCPledges == {Unknown, 2}
=============================================================================
