----------------------------- MODULE MCDecoder -----------------------------
(* Instances of Decoder for TLC. *)
EXTENDS Decoder, Sequences

(* A source from the number of decoded bytes each byte of the frame yields *)
(* in all: <<0, 2, 5>> is a header, a block of 2 bytes and one of 3.       *)
Source(yields, avail) ==
  [len |-> Len(yields), avail |-> avail,
   yield |-> [i \in 0 .. Len(yields) |-> IF i = 0 THEN 0 ELSE yields[i]]]

(* Whole, cut, and followed by other bytes.  Data at the last byte, a      *)
(* checksum after the data, and no data.                                   *)
MCSources ==
  {Source(<<0, 2, 5>>, 3), Source(<<0, 2, 5>>, 2), Source(<<0, 4, 4>>, 4),
   Source(<<0, 0>>, 2)}
=============================================================================
