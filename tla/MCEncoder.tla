----------------------------- MODULE MCEncoder -----------------------------
(* Instances of Encoder for TLC. *)
EXTENDS Encoder

MCPledges == {Unknown, 2}
=============================================================================
