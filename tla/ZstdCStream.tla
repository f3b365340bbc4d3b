---------------------------- MODULE ZstdCStream ----------------------------
(***************************************************************************)
(* What ext/extzstd_stream.c relies on of a ZSTD_CStream.  libzstd is a    *)
(* submodule that the repository only calls, so this module is a contract: *)
(* it says how many bytes a call takes and returns, and leaves the size of *)
(* a compressed block open between one byte and the worst case.            *)
(*                                                                         *)
(* A session collects source bytes in "raw" until a block is full.  A      *)
(* compressed block goes to the caller's buffer and what does not fit      *)
(* waits in "pend".  No source byte is loaded while "pend" is not empty.   *)
(***************************************************************************)
EXTENDS Integers

CONSTANTS
  BlockSize,     (* source bytes of a full block                           *)
  Overhead,      (* bytes a block header adds, and an empty block's size   *)
  HeaderSize,    (* bytes of a frame header                                *)
  EpilogueSize,  (* bytes of a frame checksum                              *)
  OutSize        (* ZSTD_CStreamOutSize()                                  *)

FullBlock == BlockSize + Overhead      (* an incompressible full block *)

(* 1.5.6 has 131072, 3, 18, 4 and 131591 for the five constants. *)
ASSUME CStreamAssumption ==
  /\ BlockSize \in Nat \ {0}
  /\ {Overhead, HeaderSize, EpilogueSize, OutSize} \subseteq Nat
  /\ Overhead > 0
  /\ OutSize >= FullBlock + Overhead + EpilogueSize
  /\ OutSize >= HeaderSize + FullBlock + EpilogueSize

Unknown == -1                          (* ZSTD_CONTENTSIZE_UNKNOWN *)

(* A session that has seen no source byte, with a pledged source size. *)
Fresh(pledge) ==
  [raw |-> 0, pend |-> 0, open |-> FALSE, left |-> pledge, bad |-> FALSE]

Contexts ==
  [raw : 0 .. BlockSize - 1, pend : 0 .. FullBlock, open : BOOLEAN,
   left : Int, bad : BOOLEAN]

(* Part of a frame has been compressed or waits to be. *)
InFrame(cs) == cs.open \/ cs.raw > 0

(* Everything the session has been given has left it. *)
Drained(cs) == cs.raw = 0 /\ cs.pend = 0

Spend(left, n) == IF left = Unknown THEN Unknown ELSE left - n
Overspent(left, n) == left # Unknown /\ left < n

(* A call that returns an error code: the session fails until it is reset. *)
Failure(cs) ==
  [ctx |-> [cs EXCEPT !.bad = TRUE], used |-> 0, out |-> 0, err |-> TRUE]

(* Sizes "blocks" newly compressed full blocks may have, a first frame     *)
(* header included.                                                        *)
BlockBytes(cs, blocks) ==
  LET header == IF cs.open \/ blocks = 0 THEN 0 ELSE HeaderSize
  IN  header + blocks .. header + blocks * FullBlock

(* ZSTD_compressStream with n source bytes and room for capa bytes: it     *)
(* stops when the source is used up or when the room is full and a part of *)
(* the last block is left over.                                            *)
CompressResults(cs, n, capa) ==
  IF cs.bad THEN {Failure(cs)}
  ELSE {LET raw == cs.raw + r.used - r.blocks * BlockSize
            spent == r.blocks * BlockSize
        IN  IF Overspent(cs.left, spent) THEN Failure(cs)
            ELSE [ctx |-> [raw |-> raw, pend |-> r.pend,
                           open |-> cs.open \/ r.blocks > 0,
                           left |-> Spend(cs.left, spent), bad |-> FALSE],
                  used |-> r.used, out |-> r.out, err |-> FALSE] :
        r \in {s \in [used : 0 .. n, blocks : 0 .. n, out : 0 .. capa,
                      pend : 0 .. FullBlock] :
                 /\ cs.raw + s.used - s.blocks * BlockSize \in 0 .. BlockSize - 1
                 /\ s.out + s.pend - cs.pend \in BlockBytes(cs, s.blocks)
                 /\ s.pend = 0 => s.used = n
                 /\ s.pend > 0 => /\ s.out = capa
                                  /\ cs.raw + s.used = s.blocks * BlockSize}}

(* ZSTD_flushStream: a started block is compressed as it is. *)
FlushResults(cs, capa) ==
  IF cs.bad \/ Overspent(cs.left, cs.raw) THEN {Failure(cs)}
  ELSE LET header == IF cs.open \/ cs.raw = 0 THEN 0 ELSE HeaderSize
           sizes  == IF cs.raw = 0 THEN {0} ELSE 1 .. cs.raw + Overhead
       IN  {LET total == cs.pend + header + size
                out   == IF total <= capa THEN total ELSE capa
            IN  [ctx |-> [raw |-> 0, pend |-> total - out, open |-> InFrame(cs),
                          left |-> Spend(cs.left, cs.raw), bad |-> FALSE],
                 used |-> 0, out |-> out, err |-> FALSE] : size \in sizes}

(* ZSTD_endStream: the last block, empty when nothing is left, then the    *)
(* checksum.  A frame that left the session whole makes room for the next. *)
EndResults(cs, capa) ==
  IF cs.bad \/ ~(cs.left \in {Unknown, cs.raw}) THEN {Failure(cs)}
  ELSE LET header == IF cs.open THEN 0 ELSE HeaderSize
           sizes  == IF cs.raw = 0 THEN {Overhead} ELSE 1 .. cs.raw + Overhead
       IN  {LET total == cs.pend + header + size + EpilogueSize
            IN  IF total <= capa
                THEN [ctx |-> Fresh(Unknown), used |-> 0, out |-> total,
                      err |-> FALSE]
                ELSE [ctx |-> [raw |-> 0, pend |-> total - capa, open |-> TRUE,
                               left |-> cs.left, bad |-> FALSE],
                      used |-> 0, out |-> capa, err |-> FALSE] : size \in sizes}
=============================================================================
