------------------------------ MODULE ZstdDCtx ------------------------------
(***************************************************************************)
(* What ext/extzstd_stream.c relies on of a ZSTD_DCtx.  libzstd is a       *)
(* submodule that the repository only calls, so this module is a contract. *)
(*                                                                         *)
(* A frame is described by what its bytes yield: yield[i] is the number of *)
(* source bytes known once the first i bytes of the frame are read, so it  *)
(* grows at the last byte of each block.  A source is the frame and the    *)
(* number of bytes the inport has, fewer than the frame when it was cut    *)
(* and more when something follows it.                                     *)
(***************************************************************************)
EXTENDS Integers

CONSTANTS
  Sources,   (* the sources a decoder may be opened on                     *)
  MaxStall   (* calls without progress that libzstd accepts, 16 in 1.5.6   *)

IsFrame(f) ==
  /\ f.len \in Nat \ {0} /\ f.avail \in Nat
  /\ f.yield \in [0 .. f.len -> Nat]
  /\ f.yield[0] = 0
  /\ \A i \in 0 .. f.len : \A j \in i .. f.len : f.yield[i] <= f.yield[j]

ASSUME DCtxAssumption == MaxStall \in Nat \ {0} /\ \A f \in Sources : IsFrame(f)

Total(f) == f.yield[f.len]             (* the length of the decoded data *)

(* A session: frame bytes read, decoded bytes returned, whether the last   *)
(* frame byte is left in the input until all is returned, calls without    *)
(* progress, and whether it was reset inside a frame.                      *)
Contexts ==
  [at : Nat, out : Nat, hostage : BOOLEAN, stall : 0 .. MaxStall, lost : BOOLEAN]

NewSession(lost) ==
  [at |-> 0, out |-> 0, hostage |-> FALSE, stall |-> 0, lost |-> lost]

(* Frame bytes that are both read by the session and gone from the input.  *)
Consumed(d) == IF d.hostage THEN d.at - 1 ELSE d.at

(* The frame's end has been returned. *)
Over(d, f) == d.at = f.len /\ ~d.hostage /\ d.out = Total(f)

Stalled(d) == IF d.stall < MaxStall THEN d.stall + 1 ELSE MaxStall
StallResult(d) ==
  [ctx |-> [d EXCEPT !.stall = Stalled(d)], used |-> 0, out |-> 0,
   ret |-> IF Stalled(d) = MaxStall THEN "error" ELSE "more"]

(* A session that was reset inside a frame takes the rest for a frame, and *)
(* one that is at its end takes what follows for another: it fails, or     *)
(* reads something and returns data, and may find an end.                  *)
LostResults(d, fill, room) ==
  IF fill = 0 THEN {StallResult(d)}
  ELSE LET ctx == [d EXCEPT !.lost = TRUE, !.stall = 0]
       IN  {[ctx |-> ctx, used |-> 0, out |-> 0, ret |-> "error"]}
           \cup [ctx : {ctx}, used : 1 .. fill, out : 0 .. room, ret : {"more", "end"}]

(* ZSTD_decompressStream with "fill" input bytes and room for "room" more: *)
(* it reads until decoded bytes are left over, the frame ends or the input *)
(* does.  When it has read the last frame byte but returns a part of the   *)
(* data only, it gives that byte back, so that its caller sees input left. *)
DecompressResults(d, f, fill, room) ==
  IF d.lost \/ Over(d, f) THEN LostResults(d, fill, room)
  ELSE
    LET last    == IF d.at + fill < f.len THEN d.at + fill ELSE f.len
        Fits(i) == f.yield[i] - d.out <= room
        stops   == {i \in d.at .. last : /\ \A j \in d.at .. i - 1 : Fits(j)
                                         /\ i = last \/ ~Fits(i)}
    IN  {LET out   == IF Fits(i) THEN f.yield[i] - d.out ELSE room
             stall == IF i > d.at \/ out > 0 THEN 0 ELSE Stalled(d)
             done  == i = f.len /\ d.out + out = Total(f)
             held  == i = f.len /\ ~(done /\ (d.hostage => fill > 0))
             ctx   == [at |-> i, out |-> d.out + out, hostage |-> held,
                       stall |-> stall, lost |-> FALSE]
         IN  IF stall = MaxStall
             THEN [ctx |-> [d EXCEPT !.stall = stall], used |-> 0, out |-> 0,
                   ret |-> "error"]
             ELSE [ctx |-> ctx, used |-> Consumed(ctx) - Consumed(d), out |-> out,
                   ret |-> IF done /\ ~held THEN "end" ELSE "more"] :
         i \in stops}
=============================================================================
