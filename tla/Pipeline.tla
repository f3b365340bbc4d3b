------------------------------ MODULE Pipeline ------------------------------
(***************************************************************************)
(* An Encoder that writes into a pipe and a Decoder that reads from it.    *)
(* The outport of the one is the inport of the other: it takes every chunk *)
(* and hands the bytes over again.  One thread writes, syncs and closes at *)
(* last; another reads, and exceptions may end its reads.                  *)
(*                                                                         *)
(* Encoder's variables have their names, and so have Decoder's with a d in *)
(* front where the two have the same.                                      *)
(***************************************************************************)
EXTENDS Encoder, FiniteSets

CONSTANTS ReadSizes, BufferCapas, ChunkSize, Growup, GrowupLimit, MaxStall,
          Writer,    (* the thread that writes                             *)
          MaxPut,    (* bound: no new write once this many bytes are put   *)
          Amounts    (* numbers of bytes that ArrivedIsRead speaks of      *)

(* read(0) is left out: it returns an empty string at any time and changes *)
(* nothing else.                                                           *)
ASSUME PipelineAssumption ==
  /\ Callers = {Writer} /\ Pledges = {} /\ MaxPut \in Nat /\ Amounts \subseteq Nat
  /\ ReadSizes \subseteq Nat \ {0} /\ BufferCapas \subseteq Nat
  /\ {ChunkSize, Growup, GrowupLimit, MaxStall} \subseteq Nat \ {0}

VARIABLES
  supplied, dcontext, readbuf, inbuf, dreached_eof, dcall, result, given,
  dropped, closed,
  put,      (* source bytes given to write                                 *)
  yield,    (* yield[i]: source bytes that the first i compressed ones     *)
            (* give back, also for those that wait in the session          *)
  synced    (* "put" when the last sync or close returned                  *)

readerVars == <<supplied, dcontext, readbuf, inbuf, dreached_eof, dcall,
                result, given, dropped, closed>>
pipeVars == <<vars, readerVars, put, yield, synced>>

Ended == reached_eof \/ call[Writer].op = "close"
Produced == made + context.pend

(* The frame as far as it is known; its length is known once it is closed. *)
Frame ==
  LET len == IF Ended THEN Produced ELSE Produced + 1
  IN  [len |-> len, avail |-> port.taken,
       yield |-> [i \in 0 .. len |-> yield[IF i <= Produced THEN i ELSE Produced]]]

(* What it is before the first write. *)
NoFrame == [len |-> 1, avail |-> 0, yield |-> [i \in 0 .. 1 |-> 0]]

D == INSTANCE Decoder WITH
       source <- Frame, context <- dcontext, reached_eof <- dreached_eof,
       call <- dcall, Sources <- {NoFrame}

-----------------------------------------------------------------------------
PipeInit ==
  /\ Init
  /\ put = 0
  /\ yield = [i \in {0} |-> 0]
  /\ synced = 0
  /\ D!Init

(* The blocks of a step end anywhere in its output, the last one before    *)
(* "tail" bytes of checksum.                                               *)
Blocks(tail) ==
  LET to    == made' + context'.pend
      last  == to - tail
      known == put' - call'[Writer].rest - context'.raw
      full  == (known - yield[Produced]) \div BlockSize
  IN  \E ends \in SUBSET (Produced + 1 .. last) :
        /\ Cardinality(ends) = full
        /\ full > 0 => last \in ends
        /\ yield' = [i \in 0 .. to |->
             IF i <= Produced THEN yield[i]
             ELSE IF i >= last THEN known
             ELSE yield[Produced] + BlockSize * Cardinality({e \in ends : e <= i})]

WriterCalls ==
  /\ ~reached_eof
  /\ \/ \E n \in Sizes : /\ put < MaxPut
                         /\ Begin(Writer) /\ Compress(Writer, n)
                         /\ put' = put + n
                         /\ Blocks(0)
     \/ Sync(Writer) /\ UNCHANGED put /\ Blocks(0)
     \/ Close(Writer) /\ UNCHANGED put /\ Blocks(EpilogueSize)
  /\ UNCHANGED <<readerVars, synced>>

WriterGoesOn ==
  /\ \/ Resume(Writer) /\ Blocks(0)
     \/ PortTakes(Writer) /\ UNCHANGED yield
  /\ UNCHANGED <<readerVars, put, synced>>

WriterReturns ==
  /\ Return(Writer)
  /\ synced' = IF call[Writer].op = "write" THEN synced ELSE put
  /\ UNCHANGED <<readerVars, put, yield>>

(* inport.read(ChunkSize, buf) of an IO (ext/extzstd_stream.c:445) waits   *)
(* until it has ChunkSize bytes.  It returns what is left, and nil after   *)
(* that, once the writer has closed.                                       *)
PipeGives ==
  /\ D!PortGives
  /\ supplied' > supplied
  /\ \/ supplied' = supplied + ChunkSize
     \/ reached_eof /\ supplied' = port.taken

Reader ==
  /\ UNCHANGED <<vars, put, yield, synced>>
  /\ \/ D!ReadSome \/ D!ReadAll \/ D!LoopHead \/ D!Decompress
     \/ D!SomeDone \/ D!AllDone
     \/ PipeGives
     \/ reached_eof /\ D!PortEnds

(* Another inport, a socket with a read of its own, say, may return any    *)
(* part of what it has.                                                    *)
ShortRead ==
  /\ UNCHANGED <<vars, put, yield, synced>>
  /\ D!PortGives
  /\ supplied' > supplied

Interrupted == UNCHANGED <<vars, put, yield, synced>> /\ D!Interrupt

Reads == Reader \/ ShortRead
PipeNext == WriterCalls \/ WriterGoesOn \/ WriterReturns \/ Reads \/ Interrupted
PipeSpec == PipeInit /\ [][PipeNext]_pipeVars

(* The reader goes on reading, and the inport does what an IO must: nobody *)
(* can count on a ShortRead.                                               *)
PipeFairSpec == PipeSpec /\ WF_pipeVars(Reader)

(* From some time on no exception comes, and all reads are read(1). *)
Undisturbed == <>[][~Interrupted]_pipeVars
BytesAtLast == <>[](~dcall.all /\ dcall.room <= 1)

-----------------------------------------------------------------------------
PipeTypeOK ==
  /\ TypeOK /\ D!ReaderOK
  /\ put \in Nat /\ synced \in 0 .. put
  /\ yield \in [0 .. Produced -> 0 .. put]

(* The pipeline as a queue of bytes: what has arrived is what the bytes in *)
(* the pipe give back.                                                     *)
Q == INSTANCE ByteQueue WITH
       ready <- yield[port.taken], got <- given, lost <- dropped,
       ended <- Ended, seen <- result.kind = "nil"

(* The two methods of either side keep the promise of a queue: after a     *)
(* sync, all that was written can be read from what is in the pipe; each   *)
(* byte is read once; the end is seen when everything was read.            *)
Implements == Q!Spec

(* No read fails on a stream that arrives whole. *)
NoReadFails == result.kind \notin {"eof", "zstd"}

(* Once another chunk may be missing at most, the bytes that arrived are   *)
(* decoded and returned to a reader of read(1), but for a block: when the  *)
(* session has read a block and has returned a part or nothing of it,      *)
(* dec_read_fetch asks the inport all the same, and the inport waits.      *)
ArrivedIsRead ==
  Undisturbed /\ BytesAtLast =>
    \A n \in Amounts :
      port.taken >= n + ChunkSize - 1
        ~> n <= port.taken /\ given + dropped >= yield[n] - BlockSize

(* A reader of a closed stream finds its end.                              *)
EndIsSeen == Undisturbed => (reached_eof ~> result.kind = "nil")
=============================================================================
