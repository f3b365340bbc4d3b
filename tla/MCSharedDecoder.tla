-------------------------- MODULE MCSharedDecoder --------------------------
(* Instances of SharedDecoder for TLC. *)
EXTENDS SharedDecoder, Sequences

CONSTANTS r1, r2

(* A source as in MCDecoder. *)
Source(yields, avail) ==
  [len |-> Len(yields), avail |-> avail,
   yield |-> [i \in 0 .. Len(yields) |-> IF i = 0 THEN 0 ELSE yields[i]]]

(* A whole frame of two blocks, a cut one, and one without data that is     *)
(* followed by a byte of another.                                          *)
MCSources == {Source(<<1, 3>>, 2), Source(<<0, 2>>, 1), Source(<<0>>, 2)}
=============================================================================
