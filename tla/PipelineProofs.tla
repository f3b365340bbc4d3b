--------------------------- MODULE PipelineProofs ---------------------------
(***************************************************************************)
(* Theorems about Pipeline: an encoder, a pipe and a decoder implement     *)
(* ByteQueue, for every block, header, chunk and buffer size.              *)
(***************************************************************************)
EXTENDS Pipeline, EncoderProofs, FiniteSetTheorems

(* The theorems about Decoder, for the frame that is being written.  One   *)
(* thread reads, so that SharedDecoder has nothing to add.                 *)
DP == INSTANCE DecoderProofs WITH
        source <- Frame, context <- dcontext, reached_eof <- dreached_eof,
        call <- dcall, Sources <- {NoFrame},
        Readers <- {"reader"}, PortWaits <- FALSE, active <- "reader",
        parked <- [c \in {"reader"} |-> D!Idle], misled <- FALSE

(* Nothing fails and nothing is refused: the session has no pledge, and    *)
(* the outport takes each chunk.  A call that ends the block leaves no     *)
(* source behind.                                                          *)
WriterInv ==
  /\ SessionInv /\ StreamInv /\ ~spoiled
  /\ context.left = Unknown /\ ~context.bad
  /\ put \in Nat /\ synced \in 0 .. put
  /\ reached_eof => call[Writer] = Idle
  /\ call[Writer].op \in {"sync", "close"} => Drained(context) /\ call[Writer].rest = 0
  /\ reached_eof => Drained(context)
  /\ Ended => made > 0

(* The bytes that libzstd has made, also those that wait in the session,   *)
(* give back what it has been given, but for a block that is not full.     *)
YieldInv ==
  /\ yield \in [0 .. Produced -> Nat] /\ yield[0] = 0
  /\ \A i \in 0 .. Produced : \A j \in i .. Produced : yield[i] <= yield[j]
  /\ yield[Produced] = put - call[Writer].rest - context.raw

(* The reader is alone with the frame. *)
ReaderInv == DP!AloneInv

PipeInv == WriterInv /\ YieldInv /\ ReaderInv
-----------------------------------------------------------------------------
(* What a libzstd call does to a session without a pledge: it does not     *)
(* fail, and the bytes it makes are those of the blocks that it ends.      *)
LEMMA CompressEnds ==
  ASSUME NEW cs \in Contexts, cs.left = Unknown, ~cs.bad, NEW n \in Nat, NEW capa \in Nat,
         NEW r \in CompressResults(cs, n, capa)
  PROVE  /\ ~r.err /\ r.ctx.left = Unknown /\ ~r.ctx.bad /\ r.used \in 0 .. n
         /\ \E blocks \in Nat :
              /\ r.ctx.raw = cs.raw + r.used - blocks * BlockSize
              /\ r.out + r.ctx.pend - cs.pend >= blocks
<1> USE CStreamAssumption
<1>1. PICK s \in [used : 0 .. n, blocks : 0 .. n, out : 0 .. capa, pend : 0 .. FullBlock] :
        /\ s.out + s.pend - cs.pend \in BlockBytes(cs, s.blocks)
        /\ r = [ctx |-> [raw |-> cs.raw + s.used - s.blocks * BlockSize,
                         pend |-> s.pend,
                         open |-> cs.open \/ s.blocks > 0,
                         left |-> Unknown,
                         bad |-> FALSE],
                used |-> s.used, out |-> s.out, err |-> FALSE]
  BY DEF CompressResults, Overspent, Spend
<1>2. s.blocks \in Nat /\ s.used \in 0 .. n
  OBVIOUS
<1>3. s.out + s.pend - cs.pend >= s.blocks
  BY <1>1, <1>2 DEF BlockBytes, Contexts, FullBlock
<1> QED
  BY <1>1, <1>2, <1>3

LEMMA FlushEnds ==
  ASSUME NEW cs \in Contexts, cs.left = Unknown, ~cs.bad, NEW capa \in Nat,
         NEW r \in FlushResults(cs, capa)
  PROVE  /\ ~r.err /\ r.ctx.left = Unknown /\ ~r.ctx.bad /\ r.ctx.raw = 0
         /\ r.out + r.ctx.pend >= cs.pend
         /\ cs.raw > 0 => r.out + r.ctx.pend > cs.pend
<1> USE CStreamAssumption
<1> DEFINE header == IF cs.open \/ cs.raw = 0 THEN 0 ELSE HeaderSize
           sizes  == IF cs.raw = 0 THEN {0} ELSE 1 .. cs.raw + Overhead
           Bytes(size) == cs.pend + header + size
           out(size) == IF Bytes(size) <= capa THEN Bytes(size) ELSE capa
<1>1. PICK size \in sizes :
        r = [ctx |-> [raw |-> 0, pend |-> Bytes(size) - out(size), open |-> InFrame(cs),
                      left |-> Unknown, bad |-> FALSE],
             used |-> 0, out |-> out(size), err |-> FALSE]
  BY DEF FlushResults, Overspent, Spend
<1>2. cs.raw \in Nat /\ cs.pend \in Nat /\ header \in Nat
  BY DEF Contexts, FullBlock
<1>3. size \in Nat /\ (cs.raw > 0 => size > 0)
  BY <1>2
<1>4. out(size) + (Bytes(size) - out(size)) = Bytes(size)
  BY <1>2, <1>3
<1>5. r.out + r.ctx.pend = Bytes(size)
  BY <1>1, <1>4
<1> HIDE DEF header, sizes
<1> QED
  BY <1>1, <1>2, <1>3, <1>5

LEMMA EndEnds ==
  ASSUME NEW cs \in Contexts, Tidy(cs), cs.left = Unknown, ~cs.bad,
         NEW capa \in Nat, capa >= OutSize, NEW r \in EndResults(cs, capa)
  PROVE  /\ ~r.err /\ r.ctx = Fresh(Unknown)
         /\ r.out > cs.pend + EpilogueSize
<1> USE CStreamAssumption
<1> DEFINE header == IF cs.open THEN 0 ELSE HeaderSize
           sizes  == IF cs.raw = 0 THEN {Overhead} ELSE 1 .. cs.raw + Overhead
           Bytes(size) == cs.pend + header + size + EpilogueSize
<1>1. \A size \in sizes : /\ Bytes(size) \in Nat /\ Bytes(size) <= capa
                         /\ Bytes(size) > cs.pend + EpilogueSize
  BY DEF Contexts, Tidy, FullBlock
<1>2. PICK size \in sizes :
        r = [ctx |-> Fresh(Unknown), used |-> 0, out |-> Bytes(size), err |-> FALSE]
  BY <1>1 DEF EndResults
<1> QED
  BY <1>1, <1>2
-----------------------------------------------------------------------------
LEMMA OneWriter == Callers = {Writer} /\ Writer \in Callers /\ OneAtATime
  BY PipelineAssumption DEF OneAtATime

(* What the types say of the variables that the writer's steps compute with. *)
LEMMA WriterTyped ==
  ASSUME WriterInv
  PROVE  /\ context \in Contexts /\ Tidy(context) /\ call \in [Callers -> Calls]
         /\ made \in Nat /\ put \in Nat /\ port.taken \in Nat
         /\ context.raw \in Nat /\ context.pend \in Nat
         /\ call[Writer].rest \in Nat /\ Produced \in Nat /\ made <= Produced
  BY OneWriter, CStreamAssumption
     DEF WriterInv, SessionInv, TypeOK, Contexts, Calls, Idle, FullBlock, Produced

(* The writer's methods up to <<: how much source is still to come, how    *)
(* much output there is more.                                              *)
LEMMA CompressWrites ==
  ASSUME WriterInv, NEW n \in Nat, Compress(Writer, n)
  PROVE  /\ context'.left = Unknown /\ ~context'.bad
         /\ call'[Writer].op = "write" /\ call'[Writer].rest \in Nat
         /\ made' >= made
         /\ \E blocks \in Nat :
              /\ call'[Writer].rest + context'.raw = n + context.raw - blocks * BlockSize
              /\ Produced' - Produced >= blocks
<1> DEFINE buf == Recycled(2 * OutSize)
<1>1. PICK r \in CompressResults(context, n, buf.capa) :
        HandOver(Writer, "write", buf, r, SourceLeft(n, r.used))
  BY DEF Compress
<1>2. buf.capa \in Nat
  BY RecycledRoom, CStreamAssumption DEF WriterInv, SessionInv, Chunks
<1>3. /\ context \in Contexts /\ Tidy(context) /\ context.left = Unknown /\ ~context.bad
      /\ made \in Nat /\ context.raw \in Nat /\ context.pend \in Nat
      /\ call \in [Callers -> Calls]
  BY WriterTyped DEF WriterInv
<1> HIDE DEF buf
<1>4. /\ r.ctx \in Contexts /\ r.out \in Nat /\ r.used \in 0 .. n
      /\ ~r.err /\ r.ctx.left = Unknown /\ ~r.ctx.bad
  BY <1>2, <1>3, CompressOutcome, CompressEnds
<1>5. PICK blocks \in Nat : /\ r.ctx.raw = context.raw + r.used - blocks * BlockSize
                            /\ r.out + r.ctx.pend - context.pend >= blocks
  BY <1>2, <1>3, CompressEnds
<1>6. /\ context' = r.ctx /\ made' = made + r.out
      /\ call'[Writer] = [op |-> "write", at |-> Handed(n - r.used), rest |-> n - r.used]
  BY <1>1, <1>3, <1>4, OneWriter DEF HandOver, Failed, SourceLeft
<1>7. call'[Writer].rest = n - r.used /\ call'[Writer].op = "write"
  BY <1>6
<1>8. context'.raw \in Nat /\ context'.pend \in Nat
  BY <1>4, <1>6, CStreamAssumption DEF Contexts, FullBlock
<1>9. call'[Writer].rest + context'.raw = n + context.raw - blocks * BlockSize
  <2>1. blocks * BlockSize \in Int
    BY CStreamAssumption
  <2> QED
    BY <1>3, <1>4, <1>5, <1>6, <1>7, <2>1
<1>10. Produced' - Produced >= blocks
  BY <1>3, <1>4, <1>5, <1>6, <1>8 DEF Produced
<1> QED
  BY <1>3, <1>4, <1>6, <1>7, <1>9, <1>10

LEMMA SyncWrites ==
  ASSUME WriterInv, Sync(Writer)
  PROVE  /\ context'.left = Unknown /\ ~context'.bad /\ context'.raw = 0
         /\ call'[Writer].op = "sync" /\ call'[Writer].rest = 0
         /\ made' >= made /\ Produced' >= Produced
         /\ context.raw > 0 => Produced' > Produced
<1> DEFINE buf == Recycled(OutSize)
<1>1. PICK r \in FlushResults(context, buf.capa) : HandOver(Writer, "sync", buf, r, 0)
  BY DEF Sync
<1>2. buf.capa \in Nat /\ buf.capa >= OutSize
  BY RecycledRoom, CStreamAssumption DEF WriterInv, SessionInv, Chunks
<1>3. /\ context \in Contexts /\ Tidy(context) /\ context.left = Unknown /\ ~context.bad
      /\ made \in Nat /\ context.raw \in Nat /\ context.pend \in Nat
      /\ call \in [Callers -> Calls]
  BY WriterTyped DEF WriterInv
<1> HIDE DEF buf
<1>4. /\ r.ctx \in Contexts /\ r.out \in Nat /\ ~r.err /\ r.ctx.left = Unknown
      /\ ~r.ctx.bad /\ r.ctx.raw = 0 /\ r.out + r.ctx.pend >= context.pend
      /\ context.raw > 0 => r.out + r.ctx.pend > context.pend
  BY <1>2, <1>3, FlushOutcome, FlushEnds
<1>5. /\ context' = r.ctx /\ made' = made + r.out
      /\ call'[Writer] = [op |-> "sync", at |-> Handed(0), rest |-> 0]
  BY <1>1, <1>3, <1>4, OneWriter DEF HandOver, Failed
<1>6. call'[Writer].rest = 0 /\ call'[Writer].op = "sync"
  BY <1>5
<1>7. context'.pend \in Nat
  BY <1>4, <1>5, CStreamAssumption DEF Contexts, FullBlock
<1> QED
  BY <1>3, <1>4, <1>5, <1>6, <1>7 DEF Produced

LEMMA CloseWrites ==
  ASSUME WriterInv, Close(Writer)
  PROVE  /\ context'.left = Unknown /\ ~context'.bad /\ context'.raw = 0
         /\ call'[Writer].op = "close" /\ call'[Writer].rest = 0
         /\ made' > made /\ Produced' - EpilogueSize > Produced
<1> USE CStreamAssumption
<1> DEFINE buf == Recycled(OutSize)
<1>1. PICK r \in EndResults(context, buf.capa) : HandOver(Writer, "close", buf, r, 0)
  BY DEF Close
<1>2. buf.capa \in Nat /\ buf.capa >= OutSize
  BY RecycledRoom DEF WriterInv, SessionInv, Chunks
<1>3. /\ context \in Contexts /\ Tidy(context) /\ context.left = Unknown /\ ~context.bad
      /\ made \in Nat /\ context.raw \in Nat /\ context.pend \in Nat
      /\ call \in [Callers -> Calls]
  BY WriterTyped DEF WriterInv
<1> HIDE DEF buf
<1>4. r.out \in Nat /\ ~r.err /\ r.ctx = Fresh(Unknown) /\ r.out > context.pend + EpilogueSize
  BY <1>2, <1>3, EndOutcome, EndEnds
<1>5. /\ context' = Fresh(Unknown) /\ made' = made + r.out
      /\ call'[Writer] = [op |-> "close", at |-> Handed(0), rest |-> 0]
  BY <1>1, <1>3, <1>4, OneWriter DEF HandOver, Failed
<1>6. call'[Writer].rest = 0 /\ call'[Writer].op = "close"
  BY <1>5
<1>7. context'.pend = 0 /\ context'.raw = 0 /\ context'.left = Unknown /\ ~context'.bad
  BY <1>5 DEF Fresh
<1> QED
  BY <1>3, <1>4, <1>5, <1>6, <1>7 DEF Produced

(* The steps of the pipeline are steps of its encoder, which is used by    *)
(* one caller and whose outport refuses nothing.                           *)
LEMMA EncoderStep ==
  ASSUME WriterInv, [PipeNext]_pipeVars
  PROVE  [Next]_vars /\ SessionInv' /\ StreamInv' /\ ~spoiled'
<1>1. [Next]_vars /\ UNCHANGED spoiled
  <2>1. CASE WriterCalls
    BY <2>1, OneWriter
       DEF WriterCalls, Next, Client, Write, Begin, Compress, Sync, Close
  <2>2. CASE WriterGoesOn
    BY <2>2, OneWriter DEF WriterGoesOn, Next, Answer, Resume, Compress, PortTakes
  <2>3. CASE WriterReturns
    BY <2>3, OneWriter DEF WriterReturns, Next, Answer, Return
  <2>4. CASE Reads \/ Interrupted \/ UNCHANGED pipeVars
    BY <2>4 DEF Reads, Reader, ShortRead, Interrupted, pipeVars, vars
  <2> QED
    BY <2>1, <2>2, <2>3, <2>4 DEF PipeNext
<1> QED
  BY <1>1, OneWriter, NextSession, NextStream DEF WriterInv

-----------------------------------------------------------------------------
(* The source that the session was given and has made blocks of. *)
Known == put - call[Writer].rest - context.raw

(* The bytes that a step makes give back more, in order, and up to what is *)
(* known; those that were there give back what they did.                   *)
LEMMA BlocksGrow ==
  ASSUME YieldInv, NEW tail \in Nat, Blocks(tail), Produced \in Nat, Produced' \in Nat,
         Known' \in Int, Known' >= Known, Produced' - tail >= Produced,
         Known' > Known => Produced' - tail > Produced
  PROVE  YieldInv' /\ \A i \in 0 .. Produced : yield'[i] = yield[i]
<1> DEFINE last == Produced' - tail
           full == (Known' - yield[Produced]) \div BlockSize
<1>1. PICK ends \in SUBSET (Produced + 1 .. last) :
        /\ Cardinality(ends) = full
        /\ yield' = [i \in 0 .. Produced' |->
             IF i <= Produced THEN yield[i]
             ELSE IF i >= last THEN Known'
             ELSE yield[Produced] + BlockSize * Cardinality({e \in ends : e <= i})]
  BY DEF Blocks, Known, Produced
<1> DEFINE Upto(i) == {e \in ends : e <= i}
           N(i) == yield[Produced] + BlockSize * Cardinality(Upto(i))
<1>2. /\ yield \in [0 .. Produced -> Nat] /\ yield[0] = 0 /\ yield[Produced] = Known
      /\ yield[Produced] \in Nat /\ last \in Int /\ last <= Produced' /\ Produced <= last
      /\ \A i \in 0 .. Produced : \A j \in i .. Produced : yield[i] <= yield[j]
  BY DEF YieldInv, Known
<1>3. /\ BlockSize \in Nat /\ full \in Nat /\ BlockSize * full <= Known' - yield[Produced]
      /\ Known' \in Nat
  <2> DEFINE x == Known' - yield[Produced]
  <2>1. x \in Nat /\ BlockSize \in Nat \ {0}
    BY <1>2, CStreamAssumption
  <2>2. \A n \in Nat : n \div BlockSize \in Nat /\ BlockSize * (n \div BlockSize) <= n
    BY <2>1
  <2> HIDE DEF x
  <2>3. x \div BlockSize \in Nat /\ BlockSize * (x \div BlockSize) <= x
    BY <2>1, <2>2
  <2>4. Known' \in Nat
    BY <1>2
  <2> QED
    BY <2>1, <2>3, <2>4 DEF x
<1>4. IsFiniteSet(ends)
  <2>1. Produced + 1 \in Int
    OBVIOUS
  <2> QED
    BY <1>2, <2>1, FS_Interval, FS_Subset
<1>5. \A i \in Int : /\ IsFiniteSet(Upto(i)) /\ Cardinality(Upto(i)) \in Nat
                     /\ Cardinality(Upto(i)) <= full
  BY <1>1, <1>4, FS_Subset, FS_CardinalityType
<1>6. \A i \in Int, j \in Int : i <= j => Cardinality(Upto(i)) <= Cardinality(Upto(j))
  <2> SUFFICES ASSUME NEW i \in Int, NEW j \in Int, i <= j
               PROVE  Cardinality(Upto(i)) <= Cardinality(Upto(j))
    OBVIOUS
  <2>1. ASSUME NEW e \in ends, e <= i PROVE e <= j
    <3>1. e \in Int
      BY <1>2
    <3> QED
      BY <2>1, <3>1
  <2>2. Upto(i) \subseteq Upto(j)
    BY <2>1
  <2> QED
    BY <1>5, <2>2, FS_Subset
<1> HIDE DEF full, Upto
<1>7. \A x, y \in Nat : x <= y => BlockSize * x <= BlockSize * y /\ BlockSize * x \in Nat
  BY <1>3
<1>8. \A i \in Int : N(i) \in Nat /\ yield[Produced] <= N(i) /\ N(i) <= Known'
  <2> SUFFICES ASSUME NEW i \in Int
               PROVE  N(i) \in Nat /\ yield[Produced] <= N(i) /\ N(i) <= Known'
    OBVIOUS
  <2> DEFINE m == BlockSize * Cardinality(Upto(i))
             b == BlockSize * full
  <2>1. m \in Nat /\ m <= b /\ b \in Nat
    BY <1>3, <1>5, <1>7
  <2>2. b <= Known' - yield[Produced]
    BY <1>3
  <2> HIDE DEF m, b
  <2>3. yield[Produced] + m \in Nat /\ yield[Produced] <= yield[Produced] + m
        /\ yield[Produced] + m <= Known'
    BY <1>2, <1>3, <2>1, <2>2
  <2> QED
    BY <2>3 DEF m
<1>9. \A i \in Int, j \in Int : i <= j => N(i) <= N(j)
  <2> SUFFICES ASSUME NEW i \in Int, NEW j \in Int, i <= j PROVE N(i) <= N(j)
    OBVIOUS
  <2> DEFINE m(k) == BlockSize * Cardinality(Upto(k))
  <2>1. m(i) \in Nat /\ m(j) \in Nat /\ m(i) <= m(j)
    BY <1>5, <1>6, <1>7
  <2> HIDE DEF m
  <2>2. yield[Produced] + m(i) <= yield[Produced] + m(j)
    BY <1>2, <2>1
  <2> QED
    BY <2>2 DEF m
<1> HIDE DEF N, last
<1>10. \A i \in 0 .. Produced' :
         yield'[i] = IF i <= Produced THEN yield[i] ELSE IF i >= last THEN Known' ELSE N(i)
  BY <1>1 DEF N, Upto, last
<1>11. \A i \in 0 .. Produced : yield'[i] = yield[i]
  BY <1>2, <1>10
<1>12. yield' \in [0 .. Produced' -> Nat]
  <2>1. yield' = [i \in 0 .. Produced' |-> yield'[i]]
    BY <1>1
  <2>2. ASSUME NEW i \in 0 .. Produced' PROVE yield'[i] \in Nat
    <3>1. i \in Int /\ N(i) \in Nat
      BY <1>8
    <3>2. i <= Produced => yield[i] \in Nat
      BY <1>2
    <3> QED
      BY <1>3, <1>10, <3>1, <3>2
  <2> QED
    BY <2>1, <2>2
<1>13. yield'[Produced'] = Known'
  <2>1. CASE Produced' = Produced
    <3>1. Known' = Known
      BY <1>2, <2>1 DEF last, Known
    <3> QED
      BY <1>2, <1>10, <2>1, <3>1
  <2>2. CASE Produced' > Produced
    BY <1>2, <1>10, <2>2
  <2> QED
    BY <1>2, <2>1, <2>2
<1>14. \A i \in 0 .. Produced' : \A j \in i .. Produced' : yield'[i] <= yield'[j]
  <2> SUFFICES ASSUME NEW i \in 0 .. Produced', NEW j \in i .. Produced'
               PROVE  yield'[i] <= yield'[j]
    OBVIOUS
  <2>0. /\ i \in Int /\ j \in Int /\ i <= j /\ j \in 0 .. Produced'
        /\ N(i) \in Nat /\ N(j) \in Nat /\ yield[Produced] <= N(j)
        /\ N(i) <= Known' /\ N(j) <= Known' /\ N(i) <= N(j)
    BY <1>3, <1>8, <1>9
  <2>1. CASE j <= Produced
    BY <1>2, <1>10, <2>1
  <2>2. CASE i <= Produced /\ j > Produced
    <3>1. yield[i] <= yield[Produced] /\ yield[i] \in Nat
      BY <1>2, <2>2
    <3>2. yield[Produced] <= N(j) /\ yield[Produced] <= Known' /\ N(j) \in Nat
      BY <1>2, <2>0
    <3> QED
      BY <1>2, <1>10, <2>0, <2>2, <3>1, <3>2
  <2>3. CASE i > Produced
    BY <1>2, <1>10, <2>0, <2>3
  <2> QED
    BY <2>1, <2>2, <2>3
<1> QED
  BY <1>2, <1>10, <1>11, <1>12, <1>13, <1>14 DEF YieldInv, Known

-----------------------------------------------------------------------------
(* What a step of the writer does to the frame: it grows at its end, until *)
(* close has ended it.                                                     *)
Grown ==
  /\ Produced <= Produced' /\ port.taken <= port'.taken
  /\ \A i \in 0 .. Produced : yield'[i] = yield[i]
  /\ Ended => Ended' /\ Produced' = Produced
  /\ ~Ended /\ Ended' => Produced' > Produced

(* A turn of enc_write's loop. *)
LEMMA CompressWriter ==
  ASSUME WriterInv, YieldInv, [PipeNext]_pipeVars, ~Ended,
         NEW n \in Nat, Compress(Writer, n), Blocks(0), UNCHANGED synced,
         put' \in Nat, put' >= put, put' - n = put - call[Writer].rest
  PROVE  WriterInv' /\ YieldInv' /\ Grown
<1>1. SessionInv' /\ StreamInv' /\ ~spoiled'
  BY EncoderStep
<1>2. /\ context.raw \in Nat /\ context'.raw \in Nat /\ context'.pend \in Nat
      /\ made \in Nat /\ made' \in Nat /\ call[Writer].rest \in Nat /\ put \in Nat
      /\ Produced \in Nat
  <2>1. context' \in Contexts /\ made' \in Nat
    BY <1>1 DEF SessionInv, TypeOK
  <2> QED
    BY <2>1, WriterTyped, CStreamAssumption DEF Contexts, FullBlock
<1>3. PICK blocks \in Nat :
        /\ call'[Writer].rest + context'.raw = n + context.raw - blocks * BlockSize
        /\ Produced' - Produced >= blocks
  BY CompressWrites
<1>4. /\ context'.left = Unknown /\ ~context'.bad /\ call'[Writer].op = "write"
      /\ call'[Writer].rest \in Nat /\ made' >= made /\ reached_eof' = reached_eof
      /\ port' = port
  BY CompressWrites DEF Compress
<1>5. ~Ended' /\ ~reached_eof'
  BY <1>4 DEF Ended
<1>6. WriterInv'
  <2>1. synced' \in 0 .. put'
    BY <1>2 DEF WriterInv
  <2> QED
    BY <1>1, <1>4, <1>5, <2>1 DEF WriterInv
<1>7. YieldInv' /\ \A i \in 0 .. Produced : yield'[i] = yield[i]
  <2>1. blocks * BlockSize \in Nat /\ (blocks * BlockSize > 0 => blocks > 0)
    BY CStreamAssumption
  <2>2. Known' = Known + blocks * BlockSize /\ Known \in Int
    BY <1>2, <1>3, <1>4, <2>1 DEF Known
  <2>3. Produced' \in Nat
    BY <1>2 DEF Produced
  <2>4. Known' \in Int /\ Known' >= Known /\ (Known' > Known => blocks > 0)
    BY <2>1, <2>2
  <2>5. Produced' - 0 >= Produced /\ (blocks > 0 => Produced' - 0 > Produced)
    BY <1>2, <1>3, <2>3
  <2> QED
    BY <1>2, <2>3, <2>4, <2>5, BlocksGrow
<1>8. Produced <= Produced' /\ port.taken <= port'.taken
  <2>1. Produced' \in Nat /\ port.taken \in Nat
    BY <1>2, WriterTyped DEF Produced
  <2>2. \A x, y, k \in Nat : x - y >= k => y <= x
    OBVIOUS
  <2>3. Produced' - Produced >= blocks
    BY <1>3
  <2>4. Produced <= Produced'
    BY <1>2, <2>1, <2>2, <2>3
  <2> QED
    BY <1>4, <2>1, <2>4
<1> QED
  BY <1>5, <1>6, <1>7, <1>8 DEF Grown

(* sync and close make a block of what is left. *)
LEMMA EndsBlock ==
  ASSUME WriterInv, YieldInv, [PipeNext]_pipeVars, ~Ended,
         call[Writer] = Idle, Sync(Writer) \/ Close(Writer),
         Blocks(IF Close(Writer) THEN EpilogueSize ELSE 0), UNCHANGED <<synced, put>>
  PROVE  WriterInv' /\ YieldInv' /\ Grown
<1> DEFINE tail == IF Close(Writer) THEN EpilogueSize ELSE 0
<1>1. SessionInv' /\ StreamInv' /\ ~spoiled'
  BY EncoderStep
<1>2. /\ context.raw \in Nat /\ context'.pend \in Nat /\ made \in Nat /\ made' \in Nat
      /\ call[Writer].rest = 0 /\ put \in Nat /\ Produced \in Nat /\ tail \in Nat
      /\ port.taken \in Nat /\ EpilogueSize \in Nat
  <2>1. context' \in Contexts /\ made' \in Nat
    BY <1>1 DEF SessionInv, TypeOK
  <2> QED
    BY <2>1, WriterTyped, CStreamAssumption DEF Contexts, FullBlock, Idle
<1>3. Produced' \in Nat
  BY <1>2 DEF Produced
<1>4. /\ context'.left = Unknown /\ ~context'.bad /\ context'.raw = 0
      /\ call'[Writer].op \in {"sync", "close"} /\ call'[Writer].rest = 0
      /\ made' >= made /\ (call'[Writer].op = "close" => made' > 0 /\ Produced' > Produced)
      /\ Produced' - tail >= Produced /\ (context.raw > 0 => Produced' - tail > Produced)
  <2>1. CASE Close(Writer)
    BY <1>2, <1>3, <2>1, CloseWrites
  <2>2. CASE ~Close(Writer)
    <3>1. tail = 0 /\ Sync(Writer)
      BY <2>2
    <3> HIDE DEF tail
    <3>2. /\ context'.left = Unknown /\ ~context'.bad /\ context'.raw = 0
          /\ call'[Writer].op = "sync" /\ call'[Writer].rest = 0
          /\ made' >= made /\ Produced' >= Produced
          /\ context.raw > 0 => Produced' > Produced
      BY <3>1, SyncWrites
    <3>3. \A x \in Nat : x - 0 = x
      OBVIOUS
    <3> QED
      BY <1>2, <1>3, <3>1, <3>2, <3>3
  <2> QED
    BY <2>1, <2>2
<1>5. port' = port /\ reached_eof' = reached_eof /\ ~reached_eof
  BY DEF Sync, Close, Ended
<1>6. Drained(context')
  <2>1. call'[Writer].op = "sync" => Drained(context')
    BY <1>4, OneWriter, SyncTypes, CloseWrites DEF WriterInv
  <2>2. call'[Writer].op = "close" => Drained(context')
    BY <1>4, OneWriter, CloseTypes, SyncWrites DEF WriterInv
  <2> QED
    BY <1>4, <2>1, <2>2
<1>7. WriterInv'
  BY <1>1, <1>4, <1>5, <1>6 DEF WriterInv, Ended
<1>8. YieldInv' /\ \A i \in 0 .. Produced : yield'[i] = yield[i]
  <2>1. Known = put - context.raw /\ Known' = put
    BY <1>2, <1>4 DEF Known
  <2>2. Known' \in Int /\ Known' >= Known /\ (Known' > Known => context.raw > 0)
    BY <1>2, <2>1
  <2> HIDE DEF tail
  <2>3. Blocks(tail)
    BY DEF tail
  <2> QED
    BY <1>2, <1>3, <1>4, <2>2, <2>3, BlocksGrow
<1>9. Produced <= Produced'
  <2> HIDE DEF tail
  <2>1. \A x, y, k \in Nat : x - k >= y => y <= x
    OBVIOUS
  <2> QED
    BY <1>2, <1>3, <1>4, <2>1
<1>10. ~Ended /\ Ended' => Produced' > Produced
  BY <1>4, <1>5 DEF Ended
<1> QED
  BY <1>2, <1>5, <1>7, <1>8, <1>9, <1>10 DEF Grown

-----------------------------------------------------------------------------
(* The pipe has the stream without a gap, and all of it but for a chunk    *)
(* that << has not taken.                                                  *)
LEMMA PipeHas ==
  ASSUME WriterInv
  PROVE  /\ port.taken \in Nat /\ port.taken <= made /\ made <= Produced
         /\ ~Waiting(Writer) => port.taken = made
         /\ Waiting(Writer) => destbuf.lo = port.taken /\ destbuf.hi = made
<1>1. /\ ~Waiting(Writer) => port.taken = made
      /\ Waiting(Writer) => destbuf.lo = port.taken /\ destbuf.hi = made
  BY OneWriter DEF WriterInv, StreamInv
<1>2. destbuf.lo <= destbuf.hi
  BY DEF WriterInv, SessionInv, TypeOK, Chunks
<1> QED
  BY <1>1, <1>2, WriterTyped

LEMMA TakesWriter ==
  ASSUME WriterInv, YieldInv, [PipeNext]_pipeVars, PortTakes(Writer),
         UNCHANGED <<put, synced, yield>>
  PROVE  WriterInv' /\ YieldInv' /\ Grown /\ port'.taken = made
<1>1. SessionInv' /\ StreamInv' /\ ~spoiled'
  BY EncoderStep
<1>2. UNCHANGED <<context, reached_eof, made>>
  BY DEF PortTakes
<1>3. call'[Writer].op = call[Writer].op /\ call'[Writer].rest = call[Writer].rest
  BY WriterTyped, OneWriter DEF PortTakes, Waiting, Calls, Idle
<1>4. ~reached_eof
  <2>1. call[Writer] # Idle
    BY DEF PortTakes, Waiting, Idle
  <2> QED
    BY <2>1 DEF WriterInv
<1>5. Ended' = Ended /\ Produced' = Produced
  BY <1>2, <1>3 DEF Ended, Produced
<1>6. WriterInv'
  BY <1>1, <1>2, <1>3, <1>4, <1>5 DEF WriterInv, Drained
<1>7. YieldInv'
  BY <1>2, <1>3, <1>5 DEF YieldInv
<1>8. port'.taken = made /\ port.taken <= made
  BY PipeHas DEF PortTakes
<1>9. Produced \in Nat
  BY WriterTyped
<1> QED
  BY <1>5, <1>6, <1>7, <1>8, <1>9 DEF Grown

LEMMA ReturnsWriter ==
  ASSUME WriterInv, YieldInv, [PipeNext]_pipeVars, WriterReturns
  PROVE  /\ WriterInv' /\ YieldInv' /\ Grown /\ Ended' = Ended
         /\ call[Writer].op # "write" => yield[port.taken] = put
<1>1. SessionInv' /\ StreamInv' /\ ~spoiled'
  BY EncoderStep
<1>2. /\ UNCHANGED <<context, made, port, put, yield>>
      /\ call[Writer].at = "taken" /\ call[Writer].rest = 0
      /\ reached_eof' = (reached_eof \/ call[Writer].op = "close")
      /\ synced' = IF call[Writer].op = "write" THEN synced ELSE put
  BY DEF WriterReturns, Return
<1>3. call'[Writer] = Idle /\ call'[Writer].op = "none" /\ call'[Writer].rest = 0
  BY WriterTyped, OneWriter DEF WriterReturns, Return, Idle
<1>4. call[Writer].op \in {"write", "sync", "close"}
  BY <1>2, WriterTyped, OneWriter DEF Calls, Idle
<1>5. Ended' = Ended /\ Produced' = Produced
  BY <1>2, <1>3 DEF Ended, Produced
<1>6. WriterInv'
  <2>1. synced' \in 0 .. put'
    BY <1>2, WriterTyped DEF WriterInv
  <2>2. reached_eof' => Drained(context')
    BY <1>2 DEF WriterInv
  <2> QED
    BY <1>1, <1>2, <1>3, <1>5, <2>1, <2>2 DEF WriterInv
<1>7. YieldInv'
  BY <1>2, <1>3, <1>5 DEF YieldInv
<1>8. Grown
  BY <1>2, <1>5, WriterTyped DEF Grown
<1>9. call[Writer].op # "write" => yield[port.taken] = put
  <2> SUFFICES ASSUME call[Writer].op # "write" PROVE yield[port.taken] = put
    OBVIOUS
  <2>1. context.raw = 0 /\ context.pend = 0
    BY <1>4 DEF WriterInv, Drained
  <2>2. port.taken = made /\ Produced = made
    BY <1>2, <2>1, PipeHas, WriterTyped DEF Waiting, Produced
  <2> QED
    BY <1>2, <2>1, <2>2, WriterTyped DEF YieldInv
<1> QED
  BY <1>5, <1>6, <1>7, <1>8, <1>9

LEMMA InitWriter == PipeInit => WriterInv /\ YieldInv
<1> SUFFICES ASSUME PipeInit PROVE WriterInv /\ YieldInv
  OBVIOUS
<1>1. SessionInv /\ StreamInv
  BY InitSession, InitStream DEF PipeInit
<1>2. /\ context = Fresh(Unknown) /\ call[Writer] = Idle /\ made = 0 /\ ~spoiled
      /\ reached_eof = FALSE /\ put = 0 /\ synced = 0 /\ yield = [i \in {0} |-> 0]
  BY OneWriter DEF PipeInit, Init
<1>3. /\ context.raw = 0 /\ context.pend = 0 /\ context.left = Unknown /\ ~context.bad
      /\ call[Writer].rest = 0 /\ call[Writer].op = "none" /\ Produced = 0 /\ ~Ended
  BY <1>2 DEF Fresh, Idle, Produced, Ended
<1>4. WriterInv
  BY <1>1, <1>2, <1>3 DEF WriterInv
<1>5. YieldInv
  <2>1. 0 .. Produced = {0}
    BY <1>3
  <2> QED
    BY <1>2, <1>3, <2>1 DEF YieldInv
<1> QED
  BY <1>4, <1>5

(* The writer's state is right after each step of either side. *)
LEMMA NextWriter ==
  ASSUME WriterInv, YieldInv, [PipeNext]_pipeVars
  PROVE  WriterInv' /\ YieldInv' /\ Grown
<1>1. ASSUME NEW n \in Sizes, ~reached_eof, Begin(Writer), Compress(Writer, n),
             put' = put + n, Blocks(0), UNCHANGED synced
      PROVE  WriterInv' /\ YieldInv' /\ Grown
  <2>1. call[Writer] = Idle /\ n \in Nat
    BY <1>1, EncoderAssumption DEF Begin
  <2>2. ~Ended
    BY <1>1, <2>1 DEF Ended, Idle
  <2>3. put' \in Nat /\ put' >= put /\ put' - n = put - call[Writer].rest
    BY <1>1, <2>1, WriterTyped DEF Idle
  <2> QED
    BY <1>1, <2>1, <2>2, <2>3, CompressWriter
<1>2. CASE Resume(Writer) /\ Blocks(0) /\ UNCHANGED <<put, synced>>
  <2>1. /\ call[Writer].rest \in Nat /\ call[Writer].rest > 0
        /\ Compress(Writer, call[Writer].rest)
    BY <1>2, WriterTyped DEF Resume
  <2>2. ~Ended
    <3>1. call[Writer] # Idle
      BY <2>1 DEF Idle
    <3> QED
      BY <2>1, <3>1 DEF Ended, WriterInv
  <2>3. put' \in Nat /\ put' >= put
        /\ put' - call[Writer].rest = put - call[Writer].rest
    BY <1>2, WriterTyped
  <2> QED
    BY <1>2, <2>1, <2>2, <2>3, CompressWriter
<1>3. CASE WriterCalls
  <2>1. ~reached_eof /\ UNCHANGED synced
    BY <1>3 DEF WriterCalls
  <2>2. ASSUME Sync(Writer) \/ Close(Writer)
        PROVE  call[Writer] = Idle /\ ~Ended
    BY <2>1, <2>2 DEF Sync, Close, Begin, Ended, Idle
  <2>3. CASE Sync(Writer) /\ UNCHANGED put /\ Blocks(0)
    <3>1. ~Close(Writer)
      <4>1. call'[Writer].op = "sync"
        BY <2>3, SyncWrites
      <4>2. Close(Writer) => call'[Writer].op = "close"
        BY CloseWrites
      <4> QED
        BY <4>1, <4>2
    <3> QED
      BY <2>1, <2>2, <2>3, <3>1, EndsBlock
  <2>4. CASE Close(Writer) /\ UNCHANGED put /\ Blocks(EpilogueSize)
    BY <2>1, <2>2, <2>4, EndsBlock
  <2> QED
    BY <1>1, <1>3, <2>1, <2>3, <2>4 DEF WriterCalls
<1>4. CASE WriterGoesOn
  BY <1>2, <1>4, TakesWriter DEF WriterGoesOn
<1>5. CASE WriterReturns
  BY <1>5, ReturnsWriter
<1>6. CASE Reads \/ Interrupted \/ UNCHANGED pipeVars
  <2>1. UNCHANGED <<vars, put, yield, synced>>
    BY <1>6 DEF Reads, Reader, ShortRead, Interrupted, pipeVars
  <2>2. SessionInv' /\ StreamInv' /\ ~spoiled'
    BY EncoderStep
  <2>3. Ended' = Ended /\ Produced' = Produced
    BY <2>1 DEF vars, Ended, Produced
  <2>4. WriterInv'
    BY <2>1, <2>2, <2>3 DEF WriterInv, vars
  <2>5. YieldInv'
    BY <2>1, <2>3 DEF YieldInv, vars
  <2> QED
    BY <2>1, <2>3, <2>4, <2>5, WriterTyped DEF Grown, vars
<1> QED
  BY <1>3, <1>4, <1>5, <1>6 DEF PipeNext

-----------------------------------------------------------------------------
(* The frame that is being written, as a source of the decoder. *)
FrameOK ==
  /\ DP!IsFrame(Frame)
  /\ Frame.avail = port.taken /\ port.taken \in Nat /\ port.taken <= Produced
  /\ Produced \in Nat /\ Frame.len = IF Ended THEN Produced ELSE Produced + 1
  /\ \A i \in 0 .. Produced : Frame.yield[i] = yield[i] /\ yield[i] \in Nat
  /\ \A i \in 0 .. Produced : \A j \in i .. Produced : yield[i] <= yield[j]
  /\ DP!Total(Frame) = yield[Produced]

LEMMA FrameFacts == WriterInv /\ YieldInv => FrameOK
<1> SUFFICES ASSUME WriterInv, YieldInv PROVE FrameOK
  OBVIOUS
<1> DEFINE len == IF Ended THEN Produced ELSE Produced + 1
           Last(i) == IF i <= Produced THEN i ELSE Produced
<1>1. /\ Frame.len = len /\ Frame.avail = port.taken
      /\ Frame.yield = [i \in 0 .. len |-> yield[Last(i)]]
  BY DEF Frame
<1>2. /\ port.taken \in Nat /\ port.taken <= Produced /\ Produced \in Nat
      /\ Ended => Produced > 0
  BY PipeHas, WriterTyped DEF WriterInv
<1>3. /\ yield \in [0 .. Produced -> Nat] /\ yield[0] = 0
      /\ \A i \in 0 .. Produced : \A j \in i .. Produced : yield[i] <= yield[j]
  BY DEF YieldInv
<1>4. len \in Nat /\ len > 0 /\ len >= Produced
  BY <1>2
<1> HIDE DEF len
<1>5. \A i \in 0 .. len : Last(i) \in 0 .. Produced /\ (i <= Produced => Last(i) = i)
  BY <1>2, <1>4
<1>6. \A i, j \in 0 .. len : i <= j => Last(i) <= Last(j)
  BY <1>2, <1>4
<1> HIDE DEF Last
<1>7. \A i \in 0 .. len : Frame.yield[i] = yield[Last(i)] /\ yield[Last(i)] \in Nat
  BY <1>1, <1>3, <1>5
<1>8. \A i \in 0 .. Produced : Frame.yield[i] = yield[i] /\ yield[i] \in Nat
  BY <1>2, <1>3, <1>4, <1>5, <1>7
<1>9. DP!IsFrame(Frame)
  <2>1. Frame.yield \in [0 .. Frame.len -> Nat]
    BY <1>1, <1>7
  <2>2. Frame.yield[0] = 0
    BY <1>2, <1>3, <1>8
  <2>3. ASSUME NEW i \in 0 .. Frame.len, NEW j \in i .. Frame.len
        PROVE  Frame.yield[i] <= Frame.yield[j]
    <3>1. i \in 0 .. len /\ j \in 0 .. len /\ i <= j
      BY <1>1, <1>4
    <3>2. Last(i) \in 0 .. Produced /\ Last(j) \in Last(i) .. Produced
      BY <1>5, <1>6, <3>1
    <3>3. yield[Last(i)] <= yield[Last(j)]
      BY <1>3, <3>2
    <3> QED
      BY <1>7, <3>1, <3>3
  <2>4. Frame.len \in Nat \ {0} /\ Frame.avail \in Nat
    BY <1>1, <1>2, <1>4
  <2> QED
    BY <2>1, <2>2, <2>3, <2>4 DEF DP!IsFrame
<1>10. DP!Total(Frame) = yield[Produced]
  <2>1. Frame.yield[len] = yield[Last(len)] /\ Last(len) = Produced
    BY <1>2, <1>4, <1>7 DEF Last, len
  <2> QED
    BY <1>1, <2>1 DEF DP!Total
<1> QED
  BY <1>1, <1>2, <1>3, <1>8, <1>9, <1>10 DEF FrameOK, len

LEMMA FrameFactsNext == WriterInv' /\ YieldInv' => FrameOK'
  BY FrameFacts, PTL

(* What the theorems about Decoder assume of its constants. *)
LEMMA ReaderAssumptions ==
  /\ MaxStall \in Nat \ {0} /\ \A f \in {NoFrame} : DP!IsFrame(f)
  /\ ReadSizes \subseteq Nat /\ BufferCapas \subseteq Nat
  /\ {ChunkSize, Growup, GrowupLimit} \subseteq Nat \ {0}
  /\ FALSE \in BOOLEAN /\ DP!IsFiniteSet({"reader"}) /\ {"reader"} # {}
<1>1. DP!IsFrame(NoFrame)
  BY DEF DP!IsFrame, NoFrame
<1>2. DP!IsFiniteSet({"reader"})
  BY FS_Singleton DEF IsFiniteSet, DP!IsFiniteSet
<1> QED
  BY <1>1, <1>2, PipelineAssumption

LEMMA WritersKeepReader ==
  ASSUME WriterInv, YieldInv, WriterInv', YieldInv', Grown, ReaderInv, UNCHANGED readerVars
  PROVE  ReaderInv'
<1>1. FrameOK /\ FrameOK'
  BY FrameFacts, FrameFactsNext
<1>2. /\ Frame.avail = port.taken /\ Frame'.avail = port'.taken
      /\ Produced \in Nat /\ Produced' \in Nat /\ port.taken \in Nat /\ port'.taken \in Nat
      /\ port.taken <= Produced /\ port'.taken <= Produced'
      /\ Frame.len = (IF Ended THEN Produced ELSE Produced + 1)
      /\ Frame'.len = (IF Ended' THEN Produced' ELSE Produced' + 1)
  BY <1>1 DEF FrameOK
<1>3. Frame.avail <= Frame'.avail /\ Produced <= Produced'
  BY <1>2 DEF Grown
<1>4. \A i \in 0 .. Frame.len : i <= Frame.avail => Frame'.yield[i] = Frame.yield[i]
  <2> SUFFICES ASSUME NEW i \in 0 .. Frame.len, i <= Frame.avail
               PROVE  Frame'.yield[i] = Frame.yield[i]
    OBVIOUS
  <2>1. i \in 0 .. Produced /\ i \in 0 .. Produced'
    BY <1>2, <1>3
  <2> QED
    BY <1>1, <2>1 DEF FrameOK, Grown
<1>5. \/ Frame'.len = Frame.len
      \/ Frame.avail < Frame.len /\ Frame.avail < Frame'.len
  <2>1. CASE Ended
    BY <1>2, <2>1 DEF Grown
  <2>2. CASE ~Ended
    <3>1. Ended' => Produced < Produced'
      BY <1>2, <2>2 DEF Grown
    <3>2. \A t, p, q \in Nat : t <= p /\ p <= q => t < p + 1 /\ t < q + 1
      OBVIOUS
    <3>3. \A t, p, q \in Nat : t <= p /\ p < q => t < q
      OBVIOUS
    <3> QED
      BY <1>2, <1>3, <2>2, <3>1, <3>2, <3>3
  <2> QED
    BY <2>1, <2>2
<1>6. DP!Inv'
  <2>1. DP!IsFrame(Frame')
    BY <1>1 DEF FrameOK
  <2>2. DP!Inv /\ result.kind # "eof"
    BY DEF ReaderInv, DP!AloneInv
  <2> QED
    BY <1>3, <1>4, <1>5, <2>1, <2>2, DP!FrameGrows, ReaderAssumptions DEF readerVars
<1> QED
  BY <1>6 DEF ReaderInv, DP!AloneInv, DP!AloneCall, readerVars, DP!Held

(* A step of the reader, as a step of DecoderProofs' Decoder.  Both        *)
(* instances have the same source, state and constants.                    *)
LEMMA SameResults ==
  ASSUME NEW d, NEW f, NEW fill, NEW room
  PROVE  D!DecompressResults(d, f, fill, room) = DP!DecompressResults(d, f, fill, room)
BY DEF D!DecompressResults, DP!DecompressResults, D!LostResults, DP!LostResults,
       D!StallResult, DP!StallResult, D!Stalled, DP!Stalled, D!Over, DP!Over,
       D!Total, DP!Total, D!Consumed, DP!Consumed

LEMMA SameRaise ==
  ASSUME NEW kind
  PROVE  D!Raise(kind) <=> DP!Raise(kind)
BY DEF D!Raise, DP!Raise, D!Idle, DP!Idle

LEMMA SameStep ==
  ASSUME NEW c
  PROVE  D!Step(c) <=> DP!Step(c)
BY DEF D!Step, DP!Step

LEMMA SameDeliver ==
  ASSUME NEW n
  PROVE  D!Deliver(n) <=> DP!Deliver(n)
BY DEF D!Deliver, DP!Deliver, D!Idle, DP!Idle

LEMMA SameReads ==
  /\ D!ReadSome => DP!ReadSome
  /\ D!ReadAll => DP!ReadAll
  /\ D!SomeDone => DP!SomeDone
  /\ D!AllDone => DP!AllDone
  /\ D!LoopHead => DP!LoopHead
<1>1. D!ReadSome => DP!ReadSome
  BY SameStep DEF D!ReadSome, DP!ReadSome, D!Entered, DP!Entered, D!Idle, DP!Idle
<1>2. D!ReadAll => DP!ReadAll
  BY SameStep DEF D!ReadAll, DP!ReadAll, D!Entered, DP!Entered, D!Idle, DP!Idle
<1>3. D!SomeDone => DP!SomeDone
  BY SameDeliver DEF D!SomeDone, DP!SomeDone
<1>4. D!AllDone => DP!AllDone
  BY SameStep, SameDeliver
     DEF D!AllDone, DP!AllDone, D!Entered, DP!Entered, D!Joined, DP!Joined,
         D!RoomLeft, DP!RoomLeft
<1>5. D!LoopHead => DP!LoopHead
  BY SameStep DEF D!LoopHead, DP!LoopHead, D!RoomFull, DP!RoomFull, D!NeedsInput,
                  DP!NeedsInput
<1> QED
  BY <1>1, <1>2, <1>3, <1>4, <1>5

LEMMA SamePort ==
  /\ D!PortGives => DP!PortGives
  /\ D!PortEnds => DP!PortEnds
  /\ D!Decompress => DP!Decompress
  /\ D!Interrupt => DP!Interrupt
<1>1. D!PortGives => DP!PortGives
  BY SameStep DEF D!PortGives, DP!PortGives, D!Refilled, DP!Refilled
<1>2. D!PortEnds => DP!PortEnds
  BY SameStep, SameRaise DEF D!PortEnds, DP!PortEnds, D!EndOfInput, DP!EndOfInput
<1>3. D!Decompress => DP!Decompress
  BY SameStep, SameRaise, SameResults
     DEF D!Decompress, DP!Decompress, D!FoundEnd, DP!FoundEnd, D!IsError, DP!IsError
<1>4. D!Interrupt => DP!Interrupt
  BY SameRaise DEF D!Interrupt, DP!Interrupt
<1> QED
  BY <1>1, <1>2, <1>3, <1>4

LEMMA InitReader == PipeInit => ReaderInv
<1>1. D!Init => DP!Init
  BY DEF D!Init, DP!Init, D!NewSession, DP!NewSession, D!Idle, DP!Idle, D!NoResult,
         DP!NoResult
<1> QED
  BY <1>1, DP!InitAlone, ReaderAssumptions DEF PipeInit, ReaderInv

(* The pipe of a writer that has closed has everything. *)
LEMMA ClosedPipe ==
  ASSUME WriterInv, YieldInv, reached_eof
  PROVE  port.taken = Produced /\ yield[Produced] = put
<1>1. call[Writer] = Idle /\ Drained(context)
  BY DEF WriterInv
<1>2. ~Waiting(Writer) /\ call[Writer].rest = 0 /\ context.raw = 0 /\ context.pend = 0
  BY <1>1 DEF Waiting, Idle, Drained
<1>3. port.taken = made
  BY <1>2, PipeHas
<1>4. Produced = made
  BY <1>2, WriterTyped DEF Produced
<1>5. yield[Produced] = put - 0 - 0 /\ put \in Nat
  BY <1>2, WriterTyped DEF YieldInv
<1> QED
  BY <1>3, <1>4, <1>5

LEMMA ReaderStep ==
  ASSUME WriterInv, YieldInv, ReaderInv, Reads \/ Interrupted
  PROVE  ReaderInv' /\ DP!Passes /\ UNCHANGED <<vars, put, yield, synced>>
<1>1. UNCHANGED <<vars, put, yield, synced>>
  BY DEF Reads, Reader, ShortRead, Interrupted
<1>2. reached_eof => Frame.len <= Frame.avail
  <2> SUFFICES ASSUME reached_eof PROVE Frame.len <= Frame.avail
    OBVIOUS
  <2>1. /\ Frame.avail = port.taken /\ Produced \in Nat
        /\ Frame.len = IF Ended THEN Produced ELSE Produced + 1
    BY FrameFacts DEF FrameOK
  <2> QED
    BY <2>1, ClosedPipe DEF Ended
<1>3. DP!AloneNext
  BY <1>2, SameReads, SamePort
     DEF Reads, Reader, ShortRead, PipeGives, Interrupted, DP!AloneNext
<1> QED
  BY <1>1, <1>3, DP!AloneStep, ReaderAssumptions, PipelineAssumption DEF ReaderInv

-----------------------------------------------------------------------------
LEMMA InitPipe == PipeInit => PipeInv
  BY InitWriter, InitReader DEF PipeInv

LEMMA NextPipe ==
  ASSUME PipeInv, [PipeNext]_pipeVars
  PROVE  PipeInv' /\ Grown
<1>1. WriterInv' /\ YieldInv' /\ Grown
  BY NextWriter DEF PipeInv
<1>2. CASE Reads \/ Interrupted
  BY <1>1, <1>2, ReaderStep DEF PipeInv
<1>3. CASE UNCHANGED readerVars
  BY <1>1, <1>3, WritersKeepReader DEF PipeInv
<1> QED
  BY <1>2, <1>3
     DEF PipeNext, pipeVars, WriterCalls, WriterGoesOn, WriterReturns

(* Every state of the pipeline satisfies the invariants of its two sides.  *)
THEOREM PipeInvCorrect == PipeSpec => []PipeInv
<1>1. PipeInv /\ [PipeNext]_pipeVars => PipeInv'
  BY NextPipe
<1> QED
  BY <1>1, InitPipe, PTL DEF PipeSpec

(* No read of the pipeline fails: the reader of a stream that arrives      *)
(* whole sees neither "unexpected EOF" nor an error of libzstd.            *)
THEOREM NoReadFailsCorrect == PipeSpec => []NoReadFails
<1>1. PipeInv => NoReadFails
  BY DEF PipeInv, ReaderInv, DP!AloneInv, NoReadFails
<1> QED
  BY <1>1, PipeInvCorrect, PTL

(* Every state of the pipeline is in the types, and what the bytes in the  *)
(* pipe give back is no more than was written.                             *)
THEOREM PipeTypeCorrect == PipeSpec => []PipeTypeOK
<1>1. PipeInv => PipeTypeOK
  <2> SUFFICES ASSUME PipeInv PROVE PipeTypeOK
    OBVIOUS
  <2>1. TypeOK /\ put \in Nat /\ synced \in 0 .. put
    BY DEF PipeInv, WriterInv, SessionInv
  <2>2. D!ReaderOK
    <3>1. DP!ReaderOK
      BY DEF PipeInv, ReaderInv, DP!AloneInv, DP!Inv
    <3> QED
      BY <3>1 DEF D!ReaderOK, DP!ReaderOK, D!Contexts, DP!Contexts, D!Calls, DP!Calls
  <2>3. yield \in [0 .. Produced -> 0 .. put]
    <3>1. /\ yield \in [0 .. Produced -> Nat] /\ Produced \in Nat
          /\ \A i \in 0 .. Produced : \A j \in i .. Produced : yield[i] <= yield[j]
      BY WriterTyped DEF PipeInv, YieldInv
    <3>2. yield[Produced] <= put
      BY WriterTyped DEF PipeInv, YieldInv
    <3>3. \A i \in 0 .. Produced : yield[i] \in 0 .. put
      <4> SUFFICES ASSUME NEW i \in 0 .. Produced PROVE yield[i] \in 0 .. put
        OBVIOUS
      <4>1. Produced \in i .. Produced /\ Produced \in 0 .. Produced
        BY <3>1
      <4>2. yield[i] <= yield[Produced] /\ yield[i] \in Nat /\ yield[Produced] \in Nat
        BY <3>1, <4>1
      <4> QED
        BY <2>1, <3>2, <4>2
    <3> QED
      BY <3>1, <3>3
  <2> QED
    BY <2>1, <2>2, <2>3 DEF PipeTypeOK
<1> QED
  BY <1>1, PipeInvCorrect, PTL

-----------------------------------------------------------------------------
(* The refinement.  What the bytes in the pipe give back is what a reader  *)
(* could get.                                                              *)
Ready == yield[port.taken]

LEMMA ReadyFacts ==
  ASSUME PipeInv
  PROVE  /\ Ready \in 0 .. put /\ put \in Nat /\ given \in Nat /\ dropped \in Nat
         /\ given + dropped <= Ready
<1>1. /\ port.taken \in 0 .. Produced /\ Produced \in Nat
      /\ yield \in [0 .. Produced -> Nat]
      /\ \A i \in 0 .. Produced : \A j \in i .. Produced : yield[i] <= yield[j]
  BY WriterTyped, PipeHas DEF PipeInv, YieldInv
<1>2. yield[Produced] <= put /\ put \in Nat
  BY WriterTyped DEF PipeInv, YieldInv
<1>3. Ready \in Nat /\ Ready <= yield[Produced] /\ yield[Produced] \in Nat
  BY <1>1 DEF Ready
<1>4. /\ dcontext.at \in 0 .. Frame.len /\ dcontext.at <= Frame.avail
      /\ given + dropped <= Frame.yield[dcontext.at]
      /\ given \in Nat /\ dropped \in Nat
  BY DP!AloneBound, ReaderAssumptions DEF PipeInv, ReaderInv
<1>5. Frame.avail = port.taken /\ \A i \in 0 .. Produced : Frame.yield[i] = yield[i]
  BY FrameFacts DEF FrameOK, PipeInv
<1>6. Frame.yield[dcontext.at] <= Ready /\ Frame.yield[dcontext.at] \in Nat
  <2>1. dcontext.at \in 0 .. Produced /\ port.taken \in dcontext.at .. Produced
    BY <1>1, <1>4, <1>5
  <2> QED
    BY <1>1, <1>5, <2>1 DEF Ready
<1> QED
  BY <1>2, <1>3, <1>4, <1>6

LEMMA ReadyFactsNext ==
  PipeInv' => (/\ Ready \in 0 .. put /\ put \in Nat /\ given \in Nat /\ dropped \in Nat
               /\ given + dropped <= Ready)'
<1>1. PipeInv => /\ Ready \in 0 .. put /\ put \in Nat /\ given \in Nat /\ dropped \in Nat
                 /\ given + dropped <= Ready
  BY ReadyFacts
<1> QED
  BY <1>1, PTL

LEMMA PipeHasNext ==
  PipeInv' => (Produced \in Nat /\ port.taken \in 0 .. Produced)'
<1>1. PipeInv => Produced \in Nat /\ port.taken \in 0 .. Produced
  BY WriterTyped, PipeHas DEF PipeInv
<1> QED
  BY <1>1, PTL

(* A step that puts nothing into the pipe leaves Ready alone. *)
LEMMA ReadyStays ==
  ASSUME PipeInv, Grown, UNCHANGED port
  PROVE  Ready' = Ready
<1>1. port.taken \in 0 .. Produced
  BY WriterTyped, PipeHas DEF PipeInv
<1> QED
  BY <1>1 DEF Grown, Ready

(* What the caller of a method of Encoder does to the queue. *)
LEMMA CallsMap ==
  ASSUME PipeInv, Grown, WriterCalls
  PROVE  Q!Next \/ UNCHANGED Q!vars
<1> USE EncoderAssumption
<1>1. UNCHANGED readerVars /\ UNCHANGED synced /\ ~reached_eof
  BY DEF WriterCalls
<1>2. UNCHANGED <<given, dropped, result>>
  BY <1>1 DEF readerVars
<1>3. WriterInv /\ put \in Nat /\ call[Writer] \in Calls
  BY WriterTyped, OneWriter DEF PipeInv
<1>4. ASSUME NEW n \in Sizes, Begin(Writer), Compress(Writer, n), put' = put + n
      PROVE  Q!Put
  <2>1. n \in Nat /\ n > 0
    BY <1>4
  <2>2. UNCHANGED <<port, reached_eof>> /\ call[Writer].op = "none"
    BY <1>4 DEF Compress, Begin, Idle
  <2>3. call'[Writer].op = "write"
    BY <1>3, <1>4, <2>1, CompressWrites
  <2>4. ~Ended /\ Ended' = Ended
    BY <1>1, <2>2, <2>3 DEF Ended
  <2>5. put' \in Nat /\ put' > put /\ Ready' = Ready
    BY <1>3, <1>4, <2>1, <2>2, ReadyStays
  <2> QED
    BY <1>1, <1>2, <2>4, <2>5 DEF Q!Put, Ready
<1>5. ASSUME Sync(Writer), UNCHANGED put PROVE UNCHANGED Q!vars
  <2>1. UNCHANGED <<port, reached_eof>> /\ call[Writer].op = "none"
    BY <1>5 DEF Sync, Begin, Idle
  <2>2. call'[Writer].op = "sync"
    BY <1>3, <1>5, SyncWrites
  <2>3. Ended' = Ended
    BY <1>1, <2>1, <2>2 DEF Ended
  <2>4. Ready' = Ready
    BY <2>1, ReadyStays
  <2> QED
    BY <1>1, <1>2, <1>5, <2>3, <2>4 DEF Q!vars, Ready
<1>6. ASSUME Close(Writer), UNCHANGED put PROVE Q!End
  <2>1. UNCHANGED <<port, reached_eof>>
    BY <1>6 DEF Close
  <2>2. call'[Writer].op = "close"
    BY <1>3, <1>6, CloseWrites
  <2>3. Ended'
    BY <2>2 DEF Ended
  <2>4. Ready' = Ready
    BY <2>1, ReadyStays
  <2> QED
    BY <1>1, <1>2, <1>6, <2>3, <2>4 DEF Q!End, Ready
<1> QED
  BY <1>4, <1>5, <1>6 DEF WriterCalls, Q!Next

(* What the outport's << and what follows it do to the queue. *)
LEMMA GoesOnMap ==
  ASSUME PipeInv, PipeInv', Grown, WriterGoesOn
  PROVE  Q!Next \/ UNCHANGED Q!vars
<1>1. UNCHANGED <<put, synced, given, dropped, result>>
  BY DEF WriterGoesOn, readerVars
<1>2. WriterInv /\ call[Writer] \in Calls /\ call \in [Callers -> Calls]
  BY WriterTyped, OneWriter DEF PipeInv
<1>3. CASE Resume(Writer)
  <2>1. /\ UNCHANGED <<port, reached_eof>> /\ Compress(Writer, call[Writer].rest)
        /\ call[Writer].rest \in Nat /\ call[Writer].rest > 0
    BY <1>2, <1>3, WriterTyped DEF Resume, Compress
  <2>2. call'[Writer].op = "write"
    BY <1>2, <2>1, CompressWrites
  <2>3. call[Writer].op # "close"
    BY <2>1 DEF PipeInv, WriterInv
  <2>4. Ended' = Ended
    BY <2>1, <2>2, <2>3 DEF Ended
  <2>5. Ready' = Ready
    BY <2>1, ReadyStays
  <2> QED
    BY <1>1, <2>4, <2>5 DEF Q!vars, Ready
<1>4. CASE PortTakes(Writer) /\ UNCHANGED yield
  <2>1. UNCHANGED <<reached_eof, yield>> /\ call' = [call EXCEPT ![Writer].at = "taken"]
    BY <1>4 DEF PortTakes
  <2>2. call'[Writer].op = call[Writer].op
    BY <1>2, <1>4, OneWriter DEF PortTakes, Waiting, Calls, Idle
  <2>3. Ended' = Ended
    BY <2>1, <2>2 DEF Ended
  <2>4. Ready \in 0 .. put /\ Ready' \in 0 .. put /\ put \in Nat
    BY <1>1, ReadyFacts, ReadyFactsNext
  <2>5. Ready <= Ready'
    <3>1. /\ port.taken \in 0 .. Produced /\ Produced \in Nat
          /\ port'.taken \in 0 .. Produced' /\ Produced' \in Nat
      BY WriterTyped, PipeHas, PipeHasNext DEF PipeInv
    <3>2. yield' = yield /\ port.taken <= port'.taken
      BY <2>1 DEF Grown
    <3>3. \A i \in 0 .. Produced' : \A j \in i .. Produced' : yield'[i] <= yield'[j]
      BY DEF PipeInv, YieldInv
    <3>4. port.taken \in 0 .. Produced' /\ port'.taken \in port.taken .. Produced'
      BY <3>1, <3>2
    <3> QED
      BY <3>2, <3>3, <3>4 DEF Ready
  <2>6. CASE Ready' = Ready
    BY <1>1, <2>3, <2>6 DEF Q!vars, Ready
  <2>7. CASE Ready' # Ready
    <3>1. Ready' \in Ready + 1 .. put
      BY <2>4, <2>5, <2>7
    <3>2. Q!Arrive
      BY <1>1, <2>3, <3>1 DEF Q!Arrive, Ready
    <3> QED
      BY <3>2 DEF Q!Next
  <2> QED
    BY <2>6, <2>7
<1> QED
  BY <1>3, <1>4 DEF WriterGoesOn

LEMMA ReturnsMap ==
  ASSUME PipeInv, Grown, WriterReturns
  PROVE  Q!Next \/ UNCHANGED Q!vars
<1>1. /\ UNCHANGED <<put, port, given, dropped, result>>
      /\ synced' = IF call[Writer].op = "write" THEN synced ELSE put
  BY DEF WriterReturns, Return, readerVars
<1>2. Ended' = Ended /\ (call[Writer].op # "write" => Ready = put)
  <2>1. [PipeNext]_pipeVars /\ WriterInv /\ YieldInv
    BY DEF PipeNext, PipeInv
  <2> QED
    BY <2>1, ReturnsWriter DEF Ready
<1>3. Ready' = Ready
  BY <1>1, ReadyStays
<1>4. CASE call[Writer].op = "write"
  BY <1>1, <1>2, <1>3, <1>4 DEF Q!vars, Ready
<1>5. CASE call[Writer].op # "write"
  <2>1. Q!Sync
    BY <1>1, <1>2, <1>3, <1>5 DEF Q!Sync, Ready
  <2> QED
    BY <2>1 DEF Q!Next
<1> QED
  BY <1>4, <1>5

(* What a reader sees is the end only when the queue has ended and has     *)
(* been emptied.                                                           *)
LEMMA EndIsEmpty ==
  ASSUME PipeInv, dreached_eof, given + dropped = DP!Total(Frame)
  PROVE  Ended /\ given + dropped = put
<1>1. /\ Frame.avail = port.taken /\ DP!Total(Frame) = yield[Produced]
      /\ Frame.len = IF Ended THEN Produced ELSE Produced + 1
  BY FrameFacts DEF FrameOK, PipeInv
<1>2. /\ port.taken \in Nat /\ Produced \in Nat /\ port.taken <= Produced
  BY WriterTyped, PipeHas DEF PipeInv
<1>3. dcontext.at = Frame.len
  BY DEF PipeInv, ReaderInv, DP!AloneInv, DP!Inv, DP!SessionInv
<1>4. dcontext.at <= Frame.avail
  BY DP!AloneBound, ReaderAssumptions DEF PipeInv, ReaderInv
<1>5. Ended
  <2>1. \A t, p \in Nat : t <= p => ~(p + 1 <= t)
    OBVIOUS
  <2> QED
    BY <1>1, <1>2, <1>3, <1>4, <2>1
<1>6. call[Writer].rest = 0 /\ context.raw = 0
  <2>1. Drained(context) /\ call[Writer].rest = 0
    BY <1>5 DEF PipeInv, WriterInv, Ended, Idle
  <2> QED
    BY <2>1 DEF Drained
<1>7. yield[Produced] = put - 0 - 0 /\ put \in Nat
  BY <1>6, WriterTyped DEF PipeInv, YieldInv
<1> QED
  BY <1>1, <1>5, <1>7

(* What the steps of the reader do to the queue. *)
LEMMA ReaderMap ==
  ASSUME PipeInv, PipeInv', Grown, Reads \/ Interrupted
  PROVE  Q!Next \/ UNCHANGED Q!vars
<1>1. DP!Passes /\ UNCHANGED <<vars, put, yield, synced>>
  BY ReaderStep DEF PipeInv
<1>2. UNCHANGED <<put, synced>> /\ Ended' = Ended /\ Ready' = Ready
  BY <1>1 DEF vars, Ended, Ready
<1>3. /\ given' + dropped' <= Ready /\ given \in Nat /\ dropped \in Nat /\ Ready \in Nat
      /\ given' \in Nat /\ dropped' \in Nat
  BY <1>2, ReadyFacts, ReadyFactsNext
<1>4. CASE /\ UNCHANGED <<given, dropped>>
           /\ result'.kind = "nil" <=> result.kind = "nil"
  BY <1>2, <1>4 DEF Q!vars, Ready
<1>5. CASE /\ result'.kind # "nil" /\ result.kind # "nil"
           /\ given' > given /\ UNCHANGED dropped
  <2>1. given' \in given + 1 .. Ready - dropped
    <3>1. \A g, h, d, r \in Nat : h + d <= r /\ h > g => h \in g + 1 .. r - d
      OBVIOUS
    <3> QED
      BY <1>3, <1>5, <3>1
  <2>2. Q!Get
    BY <1>2, <1>5, <2>1 DEF Q!Get, Ready
  <2> QED
    BY <2>2 DEF Q!Next
<1>6. CASE /\ result'.kind # "nil" /\ result.kind # "nil"
           /\ dropped' > dropped /\ UNCHANGED given
  <2>1. dropped' \in dropped + 1 .. Ready - given
    <3>1. \A d, h, g, r \in Nat : g + h <= r /\ h > d => h \in d + 1 .. r - g
      OBVIOUS
    <3> QED
      BY <1>3, <1>6, <3>1
  <2>2. Q!Lose
    BY <1>2, <1>6, <2>1 DEF Q!Lose, Ready
  <2> QED
    BY <2>2 DEF Q!Next
<1>7. CASE /\ UNCHANGED <<given, dropped>> /\ result'.kind = "nil"
           /\ dreached_eof /\ given + dropped = DP!Total(Frame)
  <2>1. Ended /\ given + dropped = put
    BY <1>7, EndIsEmpty
  <2>2. Q!SeeEnd
    BY <1>2, <1>7, <2>1 DEF Q!SeeEnd, Ready
  <2> QED
    BY <2>2 DEF Q!Next
<1> QED
  BY <1>1, <1>4, <1>5, <1>6, <1>7 DEF DP!Passes

(* Encoder, pipe and decoder are a queue of bytes: all that was written    *)
(* before a sync or close can be read once it has returned, each byte is   *)
(* read or lost with an exception once, and the end is seen when           *)
(* everything was read and never before.                                   *)
THEOREM ImplementsCorrect == PipeSpec => Implements
<1>1. PipeInit => Q!Init
  <2> SUFFICES ASSUME PipeInit PROVE Q!Init
    OBVIOUS
  <2>1. /\ put = 0 /\ yield[0] = 0 /\ port.taken = 0 /\ synced = 0 /\ given = 0
        /\ dropped = 0 /\ result.kind = "none"
    BY DEF PipeInit, Init, D!Init, D!NoResult
  <2>2. Ended = FALSE
    BY OneWriter DEF PipeInit, Init, Ended, Idle
  <2> QED
    BY <2>1, <2>2 DEF Q!Init
<1>2. PipeInv /\ PipeInv' /\ [PipeNext]_pipeVars => [Q!Next]_(Q!vars)
  <2> SUFFICES ASSUME PipeInv, PipeInv', [PipeNext]_pipeVars
               PROVE  Q!Next \/ UNCHANGED Q!vars
    OBVIOUS
  <2>1. Grown
    BY NextPipe
  <2>2. CASE WriterCalls
    BY <2>1, <2>2, CallsMap
  <2>3. CASE WriterGoesOn
    BY <2>1, <2>3, GoesOnMap
  <2>4. CASE WriterReturns
    BY <2>1, <2>4, ReturnsMap
  <2>5. CASE Reads \/ Interrupted
    BY <2>1, <2>5, ReaderMap
  <2>6. CASE UNCHANGED pipeVars
    BY <2>6 DEF pipeVars, vars, readerVars, Ended, Q!vars
  <2> QED
    BY <2>2, <2>3, <2>4, <2>5, <2>6 DEF PipeNext
<1> QED
  BY <1>1, <1>2, PipeInvCorrect, PTL DEF PipeSpec, Implements, Q!Spec

=============================================================================
