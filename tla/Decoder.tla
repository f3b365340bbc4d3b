------------------------------ MODULE Decoder ------------------------------
(***************************************************************************)
(* Zstd::Decoder of ext/extzstd_stream.c on an initialized object: read,   *)
(* close and reset, with the inport it pulls compressed bytes from.        *)
(*                                                                         *)
(* The C code holds Ruby's global lock, so a read runs without a break     *)
(* except in inport.read (at = "port") and in rb_thread_check_ints         *)
(* (at = "ints").  There an exception may end it, and the inport or        *)
(* another thread may close the decoder.  Reads that overlap are the       *)
(* subject of SharedDecoder.                                               *)
(***************************************************************************)
EXTENDS ZstdDCtx

CONSTANTS
  ReadSizes,    (* sizes given to read                                     *)
  BufferCapas,  (* capacities of the strings given to read(nil, buf), 0    *)
                (* for a read without one                                  *)
  ChunkSize,    (* EXT_PARTIAL_READ_SIZE                                   *)
  Growup,       (* EXT_READ_GROWUP_SIZE                                    *)
  GrowupLimit   (* EXT_READ_DOUBLE_GROWUP_LIMIT_SIZE                       *)

ASSUME DecoderAssumption ==
  /\ ReadSizes \subseteq Nat
  /\ BufferCapas \subseteq Nat
  /\ {ChunkSize, Growup, GrowupLimit} \subseteq Nat \ {0}

VARIABLES
  source,       (* the frame and how much of it the inport has             *)
  supplied,     (* bytes the inport has handed over                        *)
  context,      (* the ZSTD_DCtx                                           *)
  readbuf,      (* length of the chunk string                              *)
  inbuf,        (* ZSTD_inBuffer: whether src is set, pos and size         *)
  reached_eof,
  call,         (* the read in progress                                    *)
  result,       (* how the last read ended                                 *)
  given,        (* decoded bytes that reads have returned                  *)
  dropped,      (* decoded bytes that were in a read when it raised        *)
  closed        (* close was called                                        *)

vars == <<source, supplied, context, readbuf, inbuf, reached_eof, call,
          result, given, dropped, closed>>

(* all: read to the end.  room and out: the output buffer of the current   *)
(* dec_read_decode.  len and size: length and capacity of the result       *)
(* string.  capa: the growing target of a read to the end.                 *)
Calls == [at : {"idle", "head", "port", "ints", "done"}, all : BOOLEAN,
          room : Nat, out : Nat, len : Nat, size : Nat, capa : Nat]
Idle == [at |-> "idle", all |-> FALSE, room |-> 0, out |-> 0, len |-> 0,
         size |-> 0, capa |-> 0]

NoResult == [kind |-> "none", all |-> FALSE, len |-> 0, want |-> 0]

(* Faulty variants of the operators below, which the properties must catch. *)
NeverEnds(ret) == FALSE
Unchecked(ret) == FALSE
OverwritesLast == ~inbuf.src \/ inbuf.pos + 1 >= readbuf
OneFurther == ~inbuf.src \/ inbuf.pos > readbuf
AnyOutput == call.out > 0
OverRoom == call.out > call.room
LastPart == call.out
RoomOrFull == call.size >= call.len + call.out
KeepsPosition(n) == [inbuf EXCEPT !.src = TRUE, !.size = n]
EndIsEof == /\ reached_eof' = TRUE
            /\ call' = [call EXCEPT !.at = "done"]
            /\ UNCHANGED <<result, given, dropped>>

FoundEnd(ret) == ret = "end"           (* s == 0 *)
IsError(ret) == ret = "error"          (* extzstd_check_error *)

(* dec_read_fetch pulls a chunk. *)
NeedsInput == ~inbuf.src \/ inbuf.pos >= readbuf
Refilled(n) == [src |-> TRUE, pos |-> 0, size |-> n]

(* The test of dec_read_decode's loop. *)
RoomFull == call.out >= call.room

(* What a read to the end has got so far, and whether it leaves room.      *)
Joined == call.len + call.out
RoomLeft == call.size > Joined

(* The read ends with an exception, and what it had decoded goes with it.  *)
Raise(kind) ==
  /\ call' = Idle
  /\ result' = [kind |-> kind, all |-> call.all, len |-> 0, want |-> call.room]
  /\ dropped' = dropped + call.len + call.out
  /\ UNCHANGED given

(* The read returns a string of n bytes, or nil instead of an empty one.   *)
Deliver(n) ==
  /\ call' = Idle
  /\ result' = [kind |-> IF n = 0 THEN "nil" ELSE "data", all |-> call.all,
                len |-> n, want |-> call.room]
  /\ given' = given + n
  /\ UNCHANGED dropped

Step(c) == call' = c /\ UNCHANGED <<result, given, dropped>>

(* The input ended.  Only a decoder that was closed meanwhile expects it.  *)
EndOfInput ==
  /\ IF reached_eof THEN Step([call EXCEPT !.at = "done"]) ELSE Raise("eof")
  /\ UNCHANGED reached_eof

(* Entry of dec_read_decode with room for n bytes. *)
Entered(c, n) ==
  [c EXCEPT !.at = IF reached_eof THEN "done" ELSE "head", !.room = n, !.out = 0]

-----------------------------------------------------------------------------
Init ==
  /\ source \in Sources
  /\ supplied = 0
  /\ context = NewSession(FALSE)
  /\ readbuf = 0
  /\ inbuf = [src |-> FALSE, pos |-> 0, size |-> 0]
  /\ reached_eof = FALSE
  /\ call = Idle
  /\ result = NoResult
  /\ given = 0
  /\ dropped = 0
  /\ closed = FALSE

(* read(n, buf).  read(0) returns an empty string, at the end too. *)
ReadSome ==
  /\ call.at = "idle"
  /\ \E n \in ReadSizes :
       IF n = 0
       THEN /\ result' = [kind |-> "empty", all |-> FALSE, len |-> 0, want |-> 0]
            /\ UNCHANGED <<call, given, dropped>>
       ELSE Step(Entered([Idle EXCEPT !.size = n], n))
  /\ UNCHANGED <<source, supplied, context, readbuf, inbuf, reached_eof, closed>>

(* read, read(nil) and read(nil, buf): the string is emptied and grown to  *)
(* Growup, and one that is larger keeps its capacity.                      *)
ReadAll ==
  /\ call.at = "idle"
  /\ \E capa \in BufferCapas :
       Step(Entered([Idle EXCEPT !.all = TRUE, !.capa = Growup,
                                 !.size = IF capa < Growup THEN Growup ELSE capa],
                    Growup))
  /\ UNCHANGED <<source, supplied, context, readbuf, inbuf, reached_eof, closed>>

(* Head of dec_read_decode's loop and the test of dec_read_fetch. *)
LoopHead ==
  /\ call.at = "head"
  /\ Step([call EXCEPT !.at = IF RoomFull THEN "done"
                              ELSE IF NeedsInput THEN "port" ELSE "ints"])
  /\ UNCHANGED <<source, supplied, context, readbuf, inbuf, reached_eof, closed>>

(* inport.read returns a string, an empty one possibly. *)
PortGives ==
  /\ call.at = "port"
  /\ \E n \in 0 .. ChunkSize :
       /\ supplied + n <= source.avail
       /\ supplied' = supplied + n
       /\ readbuf' = n
       /\ inbuf' = Refilled(n)
  /\ Step([call EXCEPT !.at = "ints"])
  /\ UNCHANGED <<source, context, reached_eof, closed>>

(* inport.read returns nil, and has emptied its buffer or left it alone.   *)
PortEnds ==
  /\ call.at = "port"
  /\ supplied = source.avail
  /\ readbuf' \in {0, readbuf}
  /\ EndOfInput
  /\ UNCHANGED <<source, supplied, context, inbuf, closed>>

(* inport.read raises or returns no string, and leaves its buffer at any   *)
(* length: a later read takes that length for the one of its input.        *)
PortRaises ==
  /\ call.at = "port"
  /\ Raise("port")
  /\ readbuf' \in {readbuf} \cup 0 .. ChunkSize
  /\ UNCHANGED <<source, supplied, context, inbuf, reached_eof, closed>>

(* rb_thread_check_ints raises what another thread or a signal has sent.   *)
Interrupt ==
  /\ call.at = "ints"
  /\ Raise("interrupt")
  /\ UNCHANGED <<source, supplied, context, readbuf, inbuf, reached_eof, closed>>

Decompress ==
  /\ call.at = "ints"
  /\ \E r \in DecompressResults(context, source, inbuf.size - inbuf.pos,
                                call.room - call.out) :
       /\ context' = r.ctx
       /\ inbuf' = [inbuf EXCEPT !.pos = @ + r.used]
       /\ reached_eof' = (reached_eof \/ FoundEnd(r.ret))
       /\ IF IsError(r.ret) THEN Raise("zstd")
          ELSE Step([call EXCEPT !.out = @ + r.out,
                                 !.at = IF FoundEnd(r.ret) THEN "done" ELSE "head"])
  /\ UNCHANGED <<source, supplied, readbuf, closed>>

(* dec_read_decode has returned call.out. *)
SomeDone ==
  /\ call.at = "done" /\ ~call.all
  /\ Deliver(call.out)
  /\ UNCHANGED <<source, supplied, context, readbuf, inbuf, reached_eof, closed>>

(* A read to the end stops when nothing came or the string has room left,  *)
(* and otherwise grows the string and decodes into the new part.           *)
AllDone ==
  /\ call.at = "done" /\ call.all
  /\ LET capa == IF call.size > GrowupLimit THEN call.capa + GrowupLimit
                 ELSE 2 * call.capa
         size == IF call.size < capa THEN capa ELSE call.size
     IN  IF call.out = 0 \/ RoomLeft THEN Deliver(Joined)
         ELSE Step(Entered([call EXCEPT !.len = Joined, !.capa = capa, !.size = size],
                           capa - Joined))
  /\ UNCHANGED <<source, supplied, context, readbuf, inbuf, reached_eof, closed>>

(* close may come from the inport or from another thread as well. *)
Close ==
  /\ call.at \in {"idle", "port", "ints"}
  /\ reached_eof' = TRUE
  /\ closed' = TRUE
  /\ UNCHANGED <<source, supplied, context, readbuf, inbuf, call, result,
                 given, dropped>>

(* reset starts a session.  It keeps the unread input and reached_eof.     *)
Reset ==
  /\ call.at \in {"idle", "port", "ints"}
  /\ context' = NewSession(context.lost \/ context.at > 0)
  /\ UNCHANGED <<source, supplied, readbuf, inbuf, reached_eof, call, result,
                 given, dropped, closed>>

-----------------------------------------------------------------------------
Client == ReadSome \/ ReadAll \/ Close \/ Reset
Answer == LoopHead \/ PortGives \/ PortEnds \/ PortRaises \/ Interrupt \/ Decompress
          \/ SomeDone \/ AllDone
Next == Client \/ Answer

Spec == Init /\ [][Next]_vars

(* A thread that runs goes on, and the inport answers every read. *)
FairSpec == Spec /\ WF_vars(Answer)

-----------------------------------------------------------------------------
(* The types but that of the source, which Pipeline has another one for.   *)
ReaderOK ==
  /\ supplied \in 0 .. source.avail
  /\ context \in Contexts
  /\ readbuf \in Nat
  /\ inbuf \in {b \in [src : BOOLEAN, pos : Nat, size : Nat] : b.pos <= b.size}
  /\ reached_eof \in BOOLEAN
  /\ call \in Calls
  /\ result \in [kind : {"none", "data", "nil", "empty", "eof", "port",
                         "interrupt", "zstd"},
                 all : BOOLEAN, len : Nat, want : Nat]
  /\ given \in Nat /\ dropped \in Nat
  /\ closed \in BOOLEAN

TypeOK == source \in Sources /\ ReaderOK

(* Every byte of the inport reaches the session once and in order, over    *)
(* all the ways a read can stop: a full buffer, an exception of the inport *)
(* or of another thread, an end that comes too early.                      *)
InputConserved ==
  ~context.lost => Consumed(context) = supplied - (inbuf.size - inbuf.pos)

(* Every decoded byte is returned by a read, or is in the string of the    *)
(* read in progress, or went with the exception that ended its read.       *)
OutputConserved ==
  ~context.lost => given + dropped + call.len + call.out = context.out

(* "unexpected EOF" is raised only for a frame that was cut: never when    *)
(* the session has the whole frame and only its decoded data is left.      *)
NoFalseEof ==
  result.kind = "eof" /\ ~context.lost => source.avail < source.len

(* read(n) returns fewer than n bytes, or nil, only at the end, however    *)
(* small the chunks of the inport are (test/test_basic.rb).                *)
ShortOnlyAtEof ==
  result.kind \in {"data", "nil"} /\ ~result.all /\ result.len < result.want
    => reached_eof

(* A read to the end that returns has come to the end.                     *)
ReadAllReachesEof ==
  result.kind \in {"data", "nil"} /\ result.all => reached_eof

(* Decoding a string gives a string (lib/extzstd.rb:67), that of no data   *)
(* an empty one: a read to the end that is the first to return is not nil. *)
DecodeGivesString ==
  result.kind = "nil" /\ result.all /\ ~closed /\ ~context.lost => given + dropped > 0

(* eof is not early: once the decoder has found the end, no decoded data   *)
(* is left in the session.                                                 *)
EofHasEverything ==
  reached_eof /\ ~closed /\ ~context.lost => context.out = Total(source)

(* Every read ends, also when the inport returns empty strings for ever:   *)
(* libzstd counts the calls it makes no progress in.  Only resets in the   *)
(* middle of reads, again and again, could start that count anew for ever. *)
ReadEnds == <>[][~Reset]_vars => (call.at # "idle" ~> call.at = "idle")
=============================================================================
