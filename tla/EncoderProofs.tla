--------------------------- MODULE EncoderProofs ---------------------------
(* Theorems about Encoder, for every block, header and buffer size that    *)
(* CStreamAssumption admits and every set of callers.                      *)
EXTENDS Encoder, TLAPS

(* A session never holds back output and source at once, and what it holds *)
(* back belongs to a frame whose header is out.                            *)
Tidy(cs) == cs.pend > 0 => cs.raw = 0 /\ cs.open

SessionInv == TypeOK /\ Tidy(context)

-----------------------------------------------------------------------------
(* What a libzstd call may do to a tidy session. *)
LEMMA CompressOutcome ==
  ASSUME NEW cs \in Contexts, Tidy(cs), NEW n \in Nat, NEW capa \in Nat,
         NEW r \in CompressResults(cs, n, capa)
  PROVE  /\ r.ctx \in Contexts /\ Tidy(r.ctx)
         /\ r.used \in 0 .. n /\ r.out \in Nat /\ r.err \in BOOLEAN
         /\ r.err => r.out = 0
<1> USE CStreamAssumption
<1>1. CASE r = Failure(cs)
  <2>1. r.used \in 0 .. n
    BY <1>1 DEF Failure
  <2>2. /\ r.ctx \in Contexts /\ Tidy(r.ctx)
        /\ r.out \in Nat /\ r.err \in BOOLEAN
        /\ r.err => r.out = 0
    BY <1>1 DEF Failure, Contexts, Tidy
  <2> QED
    BY <2>1, <2>2
<1>2. CASE r # Failure(cs)
  <2>1. PICK s \in [used : 0 .. n, blocks : 0 .. n, out : 0 .. capa, pend : 0 .. FullBlock] :
          /\ cs.raw + s.used - s.blocks * BlockSize \in 0 .. BlockSize - 1
          /\ s.out + s.pend - cs.pend \in BlockBytes(cs, s.blocks)
          /\ s.pend > 0 => cs.raw + s.used = s.blocks * BlockSize
          /\ r = [ctx |-> [raw |-> cs.raw + s.used - s.blocks * BlockSize,
                           pend |-> s.pend,
                           open |-> cs.open \/ s.blocks > 0,
                           left |-> Spend(cs.left, s.blocks * BlockSize),
                           bad |-> FALSE],
                  used |-> s.used, out |-> s.out, err |-> FALSE]
    BY <1>2 DEF CompressResults
  <2>2. s.blocks * BlockSize \in Int
    BY DEF FullBlock
  <2>3. Spend(cs.left, s.blocks * BlockSize) \in Int
    BY <2>2 DEF Spend, Unknown, Contexts
  <2>4. r.ctx \in Contexts
    BY <2>1, <2>3 DEF Contexts
  <2>5. s.pend > 0 => cs.open \/ s.blocks > 0
    BY <2>1 DEF BlockBytes, Tidy, Contexts, FullBlock
  <2>6. Tidy(r.ctx)
    <3>1. s.pend > 0 => cs.raw + s.used - s.blocks * BlockSize = 0
      BY <2>1, <2>2 DEF Contexts
    <3> QED
      BY <2>1, <2>5, <3>1 DEF Tidy
  <2> QED
    BY <2>1, <2>4, <2>6
<1> QED
  BY <1>1, <1>2

(* One flush or end into a string of OutSize bytes leaves nothing behind.  *)
LEMMA FlushOutcome ==
  ASSUME NEW cs \in Contexts, Tidy(cs), NEW capa \in Nat, capa >= OutSize,
         NEW r \in FlushResults(cs, capa)
  PROVE  /\ r.ctx \in Contexts /\ Tidy(r.ctx)
         /\ r.out \in Nat /\ r.err \in BOOLEAN
         /\ r.err => r.out = 0
         /\ ~r.err => Drained(r.ctx)
<1> USE CStreamAssumption
<1>1. CASE r = Failure(cs)
  BY <1>1 DEF Failure, Contexts, Tidy
<1>2. CASE r # Failure(cs)
  <2> DEFINE header == IF cs.open \/ cs.raw = 0 THEN 0 ELSE HeaderSize
             sizes  == IF cs.raw = 0 THEN {0} ELSE 1 .. cs.raw + Overhead
             Bytes(size) == cs.pend + header + size
  <2>1. \A size \in sizes : /\ Bytes(size) \in Nat /\ Bytes(size) <= capa
                           /\ Bytes(size) - Bytes(size) = 0
    BY DEF Contexts, Tidy, FullBlock
  <2>2. PICK size \in sizes :
          r = [ctx |-> [raw |-> 0, pend |-> 0, open |-> InFrame(cs),
                        left |-> Spend(cs.left, cs.raw), bad |-> FALSE],
               used |-> 0, out |-> Bytes(size), err |-> FALSE]
    BY <1>2, <2>1 DEF FlushResults, InFrame
  <2>3. Spend(cs.left, cs.raw) \in Int
    BY DEF Spend, Unknown, Contexts
  <2>4. r.ctx \in Contexts
    BY <2>2, <2>3 DEF Contexts, InFrame, FullBlock
  <2> QED
    BY <2>1, <2>2, <2>4 DEF Tidy, Drained
<1> QED
  BY <1>1, <1>2

LEMMA EndOutcome ==
  ASSUME NEW cs \in Contexts, Tidy(cs), NEW capa \in Nat, capa >= OutSize,
         NEW r \in EndResults(cs, capa)
  PROVE  /\ r.ctx \in Contexts /\ Tidy(r.ctx)
         /\ r.out \in Nat /\ r.err \in BOOLEAN
         /\ r.err => r.out = 0
         /\ ~r.err => Drained(r.ctx) /\ ~InFrame(r.ctx)
<1> USE CStreamAssumption
<1>1. CASE r = Failure(cs)
  BY <1>1 DEF Failure, Contexts, Tidy
<1>2. CASE r # Failure(cs)
  <2> DEFINE header == IF cs.open THEN 0 ELSE HeaderSize
             sizes  == IF cs.raw = 0 THEN {Overhead} ELSE 1 .. cs.raw + Overhead
             Bytes(size) == cs.pend + header + size + EpilogueSize
  <2>1. \A size \in sizes : Bytes(size) \in Nat /\ Bytes(size) <= capa
    BY DEF Contexts, Tidy, FullBlock
  <2>2. PICK size \in sizes :
          r = [ctx |-> Fresh(Unknown), used |-> 0, out |-> Bytes(size), err |-> FALSE]
    BY <1>2, <2>1 DEF EndResults
  <2>3. Fresh(Unknown) \in Contexts
    BY DEF Fresh, Contexts, Unknown, FullBlock
  <2> QED
    BY <2>1, <2>2, <2>3 DEF Fresh, Tidy, Drained, InFrame
<1> QED
  BY <1>1, <1>2

-----------------------------------------------------------------------------
(* The chunk string is a string of at least the size asked for. *)
LEMMA RecycledRoom ==
  ASSUME TypeOK, NEW capa \in Nat
  PROVE  /\ Recycled(capa) \in Chunks
         /\ Recycled(capa).capa >= capa
         /\ Recycled(capa).lo = made
  BY DEF Recycled, TypeOK, Chunks

(* What the code from a libzstd call to the call of << does to the types.  *)
LEMMA HandOverTypes ==
  ASSUME TypeOK, NEW c \in Callers, NEW op \in {"write", "sync", "close"},
         NEW buf \in Chunks, buf.lo = made,
         NEW r, NEW rest \in Nat,
         r.ctx \in Contexts, r.out \in Nat,
         HandOver(c, op, buf, r, rest)
  PROVE  /\ context' \in Contexts
         /\ destbuf' \in Chunks
         /\ call' \in [Callers -> Calls]
         /\ made' \in Nat
  BY DEF HandOver, TypeOK, Calls, Idle, Handed, Chunks

LEMMA CompressTypes ==
  ASSUME SessionInv, NEW c \in Callers, NEW n \in Nat, Compress(c, n)
  PROVE  SessionInv'
<1> USE CStreamAssumption
<1> DEFINE buf == Recycled(2 * OutSize)
<1>1. PICK r \in CompressResults(context, n, buf.capa) :
        HandOver(c, "write", buf, r, SourceLeft(n, r.used))
  BY DEF Compress
<1>2. buf \in Chunks /\ buf.lo = made
  BY RecycledRoom DEF SessionInv
<1>3. /\ r.ctx \in Contexts /\ Tidy(r.ctx)
      /\ r.used \in 0 .. n /\ r.out \in Nat
  BY <1>2, CompressOutcome DEF SessionInv, TypeOK, Chunks
<1>4. SourceLeft(n, r.used) \in Nat
  BY <1>3 DEF SourceLeft
<1>5. /\ context' \in Contexts /\ call' \in [Callers -> Calls] /\ made' \in Nat
      /\ destbuf' \in Chunks
  BY <1>1, <1>2, <1>3, <1>4, HandOverTypes DEF SessionInv
<1>6. /\ late' \in BOOLEAN /\ reached_eof' \in BOOLEAN /\ spoiled' \in BOOLEAN
      /\ port' \in [taken : Nat, whole : BOOLEAN]
  BY DEF Compress, SessionInv, TypeOK
<1>7. Tidy(context')
  BY <1>1, <1>3 DEF HandOver
<1> QED
  BY <1>5, <1>6, <1>7 DEF SessionInv, TypeOK

LEMMA SyncTypes ==
  ASSUME SessionInv, NEW c \in Callers, Sync(c)
  PROVE  /\ SessionInv'
         /\ call'[c].op = "sync" => Drained(context')
<1> USE CStreamAssumption
<1> DEFINE buf == Recycled(OutSize)
<1>1. PICK r \in FlushResults(context, buf.capa) : HandOver(c, "sync", buf, r, 0)
  BY DEF Sync
<1>2. /\ buf \in Chunks
      /\ buf.capa >= OutSize /\ buf.lo = made
  BY RecycledRoom DEF SessionInv
<1>3. /\ r.ctx \in Contexts /\ Tidy(r.ctx) /\ r.out \in Nat /\ r.err \in BOOLEAN
      /\ ~r.err => Drained(r.ctx)
  BY <1>2, FlushOutcome DEF SessionInv, TypeOK, Chunks
<1>4. /\ context' \in Contexts /\ call' \in [Callers -> Calls] /\ made' \in Nat
      /\ destbuf' \in Chunks
  BY <1>1, <1>2, <1>3, HandOverTypes DEF SessionInv
<1>5. call'[c].op = "sync" => Drained(context')
  BY <1>1, <1>3 DEF HandOver, Failed, Idle, SessionInv, TypeOK
<1>6. Tidy(context')
  BY <1>1, <1>3 DEF HandOver
<1> QED
  BY <1>4, <1>5, <1>6 DEF Sync, SessionInv, TypeOK

LEMMA CloseTypes ==
  ASSUME SessionInv, NEW c \in Callers, Close(c)
  PROVE  /\ SessionInv'
         /\ call'[c].op = "close" => Drained(context')
<1> USE CStreamAssumption
<1> DEFINE buf == Recycled(OutSize)
<1>1. PICK r \in EndResults(context, buf.capa) : HandOver(c, "close", buf, r, 0)
  BY DEF Close
<1>2. /\ buf \in Chunks
      /\ buf.capa >= OutSize /\ buf.lo = made
  BY RecycledRoom DEF SessionInv
<1>3. /\ r.ctx \in Contexts /\ Tidy(r.ctx) /\ r.out \in Nat /\ r.err \in BOOLEAN
      /\ ~r.err => Drained(r.ctx)
  BY <1>2, EndOutcome DEF SessionInv, TypeOK, Chunks
<1>4. /\ context' \in Contexts /\ call' \in [Callers -> Calls] /\ made' \in Nat
      /\ destbuf' \in Chunks
  BY <1>1, <1>2, <1>3, HandOverTypes DEF SessionInv
<1>5. call'[c].op = "close" => Drained(context')
  BY <1>1, <1>3 DEF HandOver, Failed, Idle, SessionInv, TypeOK
<1>6. Tidy(context')
  BY <1>1, <1>3 DEF HandOver
<1> QED
  BY <1>4, <1>5, <1>6 DEF Close, SessionInv, TypeOK

LEMMA InitSession == Init => SessionInv
<1> USE CStreamAssumption
<1> SUFFICES ASSUME Init PROVE SessionInv
  OBVIOUS
<1>1. context \in Contexts /\ Tidy(context)
  BY DEF Init, Fresh, Contexts, Unknown, FullBlock, Tidy
<1>2. call \in [Callers -> Calls]
  BY DEF Init, Calls, Idle
<1>3. destbuf \in Chunks
  BY DEF Init, Chunks
<1>4. port \in [taken : Nat, whole : BOOLEAN]
  BY DEF Init
<1> QED
  BY <1>1, <1>2, <1>3, <1>4 DEF Init, SessionInv, TypeOK

LEMMA NextSession == SessionInv /\ [Next]_vars => SessionInv'
<1> SUFFICES ASSUME SessionInv, [Next]_vars PROVE SessionInv'
  OBVIOUS
<1> USE CStreamAssumption, EncoderAssumption
<1>1. ASSUME NEW c \in Callers, Write(c) PROVE SessionInv'
  BY <1>1, CompressTypes DEF Write
<1>2. ASSUME NEW c \in Callers, Sync(c) PROVE SessionInv'
  BY <1>2, SyncTypes
<1>3. ASSUME NEW c \in Callers, Close(c) PROVE SessionInv'
  BY <1>3, CloseTypes
<1>4. ASSUME NEW c \in Callers, Reset(c) PROVE SessionInv'
  <2>1. PICK pledge \in Pledges : context' = Fresh(pledge)
    BY <1>4 DEF Reset
  <2>2. pledge \in Int
    BY DEF Unknown
  <2>3. context' \in Contexts /\ Tidy(context')
    BY <2>1, <2>2 DEF Fresh, Contexts, FullBlock, Tidy
  <2>4. spoiled' \in BOOLEAN
    BY <1>4 DEF Reset, SessionInv, TypeOK, InFrame
  <2> QED
    BY <1>4, <2>3, <2>4 DEF Reset, SessionInv, TypeOK
<1>5. ASSUME NEW c \in Callers, PortTakes(c) PROVE SessionInv'
  <2>1. destbuf.hi - destbuf.lo \in Nat
    BY DEF SessionInv, TypeOK, Chunks
  <2>2. destbuf' \in Chunks
    BY <1>5, <2>1 DEF PortTakes, SessionInv, TypeOK, Chunks
  <2>3. port' \in [taken : Nat, whole : BOOLEAN]
    BY <1>5 DEF PortTakes, SessionInv, TypeOK, Chunks
  <2>4. call' \in [Callers -> Calls]
    BY <1>5 DEF PortTakes, SessionInv, TypeOK, Calls, Idle, Waiting
  <2> QED
    BY <1>5, <2>2, <2>3, <2>4 DEF PortTakes, SessionInv, TypeOK
<1>6. ASSUME NEW c \in Callers, Resume(c) PROVE SessionInv'
  <2>1. call[c].rest \in Nat
    BY DEF SessionInv, TypeOK, Calls, Idle
  <2> QED
    BY <1>6, <2>1, CompressTypes DEF Resume
<1>7. ASSUME NEW c \in Callers, Return(c) PROVE SessionInv'
  <2>1. call' \in [Callers -> Calls]
    BY <1>7 DEF Return, SessionInv, TypeOK, Calls
  <2> QED
    BY <1>7, <2>1 DEF Return, SessionInv, TypeOK
<1>8. ASSUME NEW c \in Callers, PortRaises(c) PROVE SessionInv'
  <2>1. call' \in [Callers -> Calls]
    BY <1>8 DEF PortRaises, SessionInv, TypeOK, Calls
  <2>2. spoiled' \in BOOLEAN
    BY <1>8 DEF PortRaises, SessionInv, TypeOK, Waiting
  <2> QED
    BY <1>8, <2>1, <2>2 DEF PortRaises, SessionInv, TypeOK
<1>9. CASE UNCHANGED vars
  BY <1>9 DEF vars, SessionInv, TypeOK
<1> QED
  BY <1>1, <1>2, <1>3, <1>4, <1>5, <1>6, <1>7, <1>8, <1>9
     DEF Next, Client, Answer

(* The invariant the other theorems rest on. *)
THEOREM SessionCorrect == Spec => []SessionInv
  BY InitSession, NextSession, PTL DEF Spec

(* Every variable keeps its type: source waits for a full block at most,   *)
(* and never more than one block of output is held back.                   *)
THEOREM TypeCorrect == Spec => []TypeOK
  BY SessionCorrect, PTL DEF SessionInv

(* sync and close leave nothing in the session, although they call libzstd *)
(* once and ignore the count of bytes it says are left.  It rests on Tidy, *)
(* without which a held-back block and a new one would meet in one call,   *)
(* and on OutSize, which takes the worst of both.                          *)
THEOREM FlushDrainsCorrect == Spec => FlushDrains
<1> DEFINE Drains == \A c \in Callers :
             call[c].op = "none" /\ call'[c].op \in {"sync", "close"} => Drained(context')
<1>1. SessionInv /\ [Next]_vars => [Drains]_vars
  <2> SUFFICES ASSUME SessionInv, [Next]_vars, NEW c \in Callers,
                      call[c].op = "none", call'[c].op \in {"sync", "close"}
               PROVE  Drained(context')
    OBVIOUS
  <2>1. call[c] = Idle
    BY DEF SessionInv, TypeOK, Calls, Idle
  <2>2. PICK d \in Callers : Client(d) \/ Answer(d)
    BY DEF Next, vars
  <2>3. CASE Sync(d) \/ Close(d)
    <3>1. d = c
      BY <2>3 DEF Sync, Close, HandOver, SessionInv, TypeOK
    <3>2. call'[c].op = "sync" => ~Close(d)
      BY <3>1 DEF Close, HandOver, Failed, Idle, SessionInv, TypeOK
    <3>3. call'[c].op = "close" => ~Sync(d)
      BY <3>1 DEF Sync, HandOver, Failed, Idle, SessionInv, TypeOK
    <3> QED
      BY <2>3, <3>1, <3>2, <3>3, SyncTypes, CloseTypes
  <2>4. CASE Write(d) \/ Resume(d)
    BY <2>4 DEF Write, Resume, Compress, HandOver, Failed, Idle, SessionInv, TypeOK
  <2>5. CASE Reset(d)
    BY <2>5 DEF Reset
  <2>6. CASE PortTakes(d) \/ Return(d) \/ PortRaises(d)
    <3>1. call[c].at = "none"
      BY <2>1 DEF Idle
    <3>2. d # c
      BY <2>1, <2>6, <3>1 DEF PortTakes, Return, PortRaises, Waiting
    <3>3. call'[c] = call[c]
      BY <2>6, <3>2 DEF PortTakes, Return, PortRaises, SessionInv, TypeOK
    <3> QED
      BY <3>3
  <2> QED
    BY <2>2, <2>3, <2>4, <2>5, <2>6 DEF Client, Answer
<1> QED
  BY <1>1, SessionCorrect, PTL DEF Spec, FlushDrains

-----------------------------------------------------------------------------
(* One chunk at most is on its way to the outport.  It is the one destbuf  *)
(* holds, and it is all the outport has not taken yet.                     *)
StreamInv ==
  /\ \A c, d \in Callers : Waiting(c) /\ Waiting(d) => c = d
  /\ ~spoiled =>
       /\ port.whole
       /\ (\A c \in Callers : ~Waiting(c)) => port.taken = made
       /\ \A c \in Callers : Waiting(c) => destbuf.lo = port.taken /\ destbuf.hi = made

(* No caller runs inside another's <<, or there is one caller only. *)
OneAtATime == AtomicPort \/ \A c, d \in Callers : c = d

LEMMA HandOverStream ==
  ASSUME SessionInv, StreamInv, NEW c \in Callers,
         \A d \in Callers : ~Waiting(d),
         NEW op, NEW buf \in Chunks, buf.lo = made, NEW r, NEW rest,
         r.out \in Nat, r.err \in BOOLEAN, r.err => r.out = 0,
         HandOver(c, op, buf, r, rest), UNCHANGED <<port, spoiled>>
  PROVE  StreamInv'
<1>1. \A d \in Callers : d # c => ~Waiting(d)'
  BY DEF HandOver, Waiting, SessionInv, TypeOK
<1>2. Waiting(c)' <=> ~r.err
  BY DEF HandOver, Waiting, SessionInv, TypeOK, Failed, Handed, Idle
<1>3. destbuf'.lo = made /\ destbuf'.hi = made + r.out /\ made' = made + r.out
  BY DEF HandOver, Chunks
<1>4. r.err => made' = made
  BY <1>3 DEF SessionInv, TypeOK
<1>5. ~spoiled' => port'.whole /\ port'.taken = made
  BY DEF StreamInv
<1> QED
  BY <1>1, <1>2, <1>3, <1>4, <1>5 DEF StreamInv

LEMMA CompressStream ==
  ASSUME SessionInv, StreamInv, NEW c \in Callers, NEW n \in Nat, Compress(c, n),
         \A d \in Callers : ~Waiting(d)
  PROVE  StreamInv'
<1> USE CStreamAssumption
<1> DEFINE buf == Recycled(2 * OutSize)
<1>1. PICK r \in CompressResults(context, n, buf.capa) :
        HandOver(c, "write", buf, r, SourceLeft(n, r.used))
  BY DEF Compress
<1>2. buf \in Chunks /\ buf.lo = made
  BY RecycledRoom DEF SessionInv
<1>3. r.out \in Nat /\ r.err \in BOOLEAN /\ (r.err => r.out = 0)
  BY <1>2, CompressOutcome DEF SessionInv, TypeOK, Chunks
<1>4. UNCHANGED <<port, spoiled>>
  BY DEF Compress
<1> HIDE DEF buf
<1> QED
  BY <1>1, <1>2, <1>3, <1>4, HandOverStream

LEMMA SyncStream ==
  ASSUME SessionInv, StreamInv, NEW c \in Callers, Sync(c),
         \A d \in Callers : ~Waiting(d)
  PROVE  StreamInv'
<1> USE CStreamAssumption
<1> DEFINE buf == Recycled(OutSize)
<1>1. PICK r \in FlushResults(context, buf.capa) : HandOver(c, "sync", buf, r, 0)
  BY DEF Sync
<1>2. buf \in Chunks /\ buf.lo = made /\ buf.capa >= OutSize
  BY RecycledRoom DEF SessionInv
<1>3. r.out \in Nat /\ r.err \in BOOLEAN /\ (r.err => r.out = 0)
  BY <1>2, FlushOutcome DEF SessionInv, TypeOK, Chunks
<1>4. UNCHANGED <<port, spoiled>>
  BY DEF Sync
<1> HIDE DEF buf
<1> QED
  BY <1>1, <1>2, <1>3, <1>4, HandOverStream

LEMMA CloseStream ==
  ASSUME SessionInv, StreamInv, NEW c \in Callers, Close(c),
         \A d \in Callers : ~Waiting(d)
  PROVE  StreamInv'
<1> USE CStreamAssumption
<1> DEFINE buf == Recycled(OutSize)
<1>1. PICK r \in EndResults(context, buf.capa) : HandOver(c, "close", buf, r, 0)
  BY DEF Close
<1>2. buf \in Chunks /\ buf.lo = made /\ buf.capa >= OutSize
  BY RecycledRoom DEF SessionInv
<1>3. r.out \in Nat /\ r.err \in BOOLEAN /\ (r.err => r.out = 0)
  BY <1>2, EndOutcome DEF SessionInv, TypeOK, Chunks
<1>4. UNCHANGED <<port, spoiled>>
  BY DEF Close
<1> HIDE DEF buf
<1> QED
  BY <1>1, <1>2, <1>3, <1>4, HandOverStream

LEMMA InitStream == Init => StreamInv
  BY DEF Init, StreamInv, Waiting, Idle

LEMMA NextStream ==
  ASSUME OneAtATime, SessionInv, StreamInv, [Next]_vars
  PROVE  StreamInv'
<1> USE CStreamAssumption, EncoderAssumption
<1>1. \A c \in Callers : MayRun(c) => \A d \in Callers \ {c} : ~Waiting(d)
  BY DEF OneAtATime, MayRun
<1>2. \A c \in Callers : Begin(c) => \A d \in Callers : ~Waiting(d)
  BY <1>1 DEF Begin, Waiting, Idle
<1>3. ASSUME NEW c \in Callers, Write(c) PROVE StreamInv'
  BY <1>2, <1>3, CompressStream DEF Write
<1>4. ASSUME NEW c \in Callers, Sync(c) PROVE StreamInv'
  BY <1>2, <1>4, SyncStream DEF Sync
<1>5. ASSUME NEW c \in Callers, Close(c) PROVE StreamInv'
  BY <1>2, <1>5, CloseStream DEF Close
<1>6. ASSUME NEW c \in Callers, Reset(c) PROVE StreamInv'
  BY <1>6 DEF Reset, StreamInv, Waiting
<1>7. ASSUME NEW c \in Callers, PortTakes(c) PROVE StreamInv'
  <2>1. \A d \in Callers : ~Waiting(d)'
    BY <1>1, <1>7 DEF PortTakes, Waiting, SessionInv, TypeOK
  <2>2. ~spoiled => destbuf.lo = port.taken /\ destbuf.hi = made /\ port.whole
    BY <1>7 DEF PortTakes, StreamInv
  <2>3. ~spoiled' => port'.whole /\ port'.taken = made'
    BY <1>7, <2>2 DEF PortTakes
  <2> QED
    BY <2>1, <2>3 DEF StreamInv
<1>8. ASSUME NEW c \in Callers, Resume(c) PROVE StreamInv'
  <2>1. call[c].rest \in Nat
    BY DEF SessionInv, TypeOK, Calls, Idle
  <2>2. \A d \in Callers : ~Waiting(d)
    BY <1>1, <1>8 DEF Resume, Waiting
  <2> QED
    BY <1>8, <2>1, <2>2, CompressStream DEF Resume
<1>9. ASSUME NEW c \in Callers, Return(c) \/ PortRaises(c) PROVE StreamInv'
  <2>1. \A d \in Callers : Waiting(d)' => Waiting(d)
    BY <1>9 DEF Return, PortRaises, Waiting, Idle, SessionInv, TypeOK
  <2>2. ~spoiled' => ~spoiled /\ \A d \in Callers : Waiting(d) => Waiting(d)'
    BY <1>9 DEF Return, PortRaises, Waiting, SessionInv, TypeOK
  <2>3. UNCHANGED <<destbuf, port, made>>
    BY <1>9 DEF Return, PortRaises
  <2> QED
    BY <2>1, <2>2, <2>3 DEF StreamInv
<1>10. CASE UNCHANGED vars
  BY <1>10 DEF vars, StreamInv, Waiting
<1> QED
  BY <1>3, <1>4, <1>5, <1>6, <1>7, <1>8, <1>9, <1>10 DEF Next, Client, Answer

(* The outport gets every byte libzstd makes, once and in order, when no   *)
(* other caller runs while a chunk is on its way to it.  Without that, a   *)
(* second caller would empty the chunk string the first one handed over.   *)
THEOREM StreamWholeCorrect ==
  ASSUME OneAtATime
  PROVE  Spec => []StreamWhole
<1>1. StreamInv => StreamWhole
  BY DEF StreamInv, StreamWhole, Quiet, Waiting, Idle
<1>2. SessionInv /\ StreamInv /\ [Next]_vars => StreamInv'
  BY NextStream
<1> QED
  BY <1>1, <1>2, InitStream, SessionCorrect, PTL DEF Spec

-----------------------------------------------------------------------------
(* From the call of ZSTD_endStream on, and not only once reached_eof is    *)
(* set, the session is clean until source is written.                      *)
Clean == ~InFrame(context) /\ Drained(context)
Closing == \E c \in Callers : call[c].op = "close"
EofInv == ~late /\ (reached_eof \/ Closing) => Clean

LEMMA CompressEof ==
  ASSUME SessionInv, EofInv, NEW c \in Callers, NEW n \in Nat, Compress(c, n)
  PROVE  EofInv'
<1>1. late' = (late \/ reached_eof \/ Closing) /\ reached_eof' = reached_eof
  BY DEF Compress, Closing
<1>2. Closing' => Closing
  BY DEF Compress, HandOver, Closing, Idle, SessionInv, TypeOK
<1> QED
  BY <1>1, <1>2 DEF EofInv

(* A flush of a clean session leaves it clean, and so does a failure.      *)
LEMMA SyncEof ==
  ASSUME SessionInv, EofInv, NEW c \in Callers, Sync(c)
  PROVE  EofInv'
<1> USE CStreamAssumption
<1> DEFINE buf == Recycled(OutSize)
<1>1. PICK r \in FlushResults(context, buf.capa) : HandOver(c, "sync", buf, r, 0)
  BY DEF Sync
<1>2. Closing' => Closing
  BY <1>1 DEF HandOver, Closing, Idle, SessionInv, TypeOK
<1>3. buf.capa \in Nat
  BY RecycledRoom DEF SessionInv, Chunks
<1> HIDE DEF buf
<1>4. Clean => ~InFrame(r.ctx) /\ Drained(r.ctx)
  <2>1. CASE r = Failure(context)
    BY <2>1 DEF Failure, Clean, InFrame, Drained, SessionInv, TypeOK, Contexts
  <2>2. CASE r # Failure(context) /\ Clean
    BY <1>1, <1>3, <2>2 DEF FlushResults, Clean, InFrame, Drained, SessionInv, TypeOK, Contexts
  <2> QED
    BY <2>1, <2>2
<1>5. context' = r.ctx /\ late' = late /\ reached_eof' = reached_eof
  BY <1>1 DEF HandOver, Sync
<1> QED
  BY <1>2, <1>4, <1>5 DEF EofInv, Clean

LEMMA CloseEof ==
  ASSUME SessionInv, EofInv, NEW c \in Callers, Close(c)
  PROVE  EofInv'
<1> USE CStreamAssumption
<1> DEFINE buf == Recycled(OutSize)
<1>1. PICK r \in EndResults(context, buf.capa) : HandOver(c, "close", buf, r, 0)
  BY DEF Close
<1>2. buf.capa \in Nat /\ buf.capa >= OutSize
  BY RecycledRoom DEF SessionInv, Chunks
<1> HIDE DEF buf
<1>3. ~r.err => ~InFrame(r.ctx) /\ Drained(r.ctx)
  BY <1>1, <1>2, EndOutcome DEF SessionInv, TypeOK
<1>4. r.err => r = Failure(context)
  BY <1>1 DEF EndResults
<1>5. context' = r.ctx /\ late' = late /\ reached_eof' = reached_eof
  BY <1>1 DEF HandOver, Close
<1>6. CASE r.err
  <2>1. Clean => ~InFrame(r.ctx) /\ Drained(r.ctx)
    BY <1>4, <1>6 DEF Failure, Clean, InFrame, Drained, SessionInv, TypeOK, Contexts
  <2>2. Closing' => Closing
    BY <1>1, <1>6 DEF HandOver, Failed, Closing, Idle, SessionInv, TypeOK
  <2> QED
    BY <1>5, <2>1, <2>2 DEF EofInv, Clean
<1>7. CASE ~r.err
  BY <1>3, <1>5, <1>7 DEF EofInv, Clean
<1> QED
  BY <1>6, <1>7

LEMMA NextEof ==
  ASSUME SessionInv, EofInv, [Next]_vars
  PROVE  EofInv'
<1> USE CStreamAssumption, EncoderAssumption
<1>1. ASSUME NEW c \in Callers, Write(c) PROVE EofInv'
  BY <1>1, CompressEof DEF Write
<1>2. ASSUME NEW c \in Callers, Reset(c) PROVE EofInv'
  <2>1. Clean'
    BY <1>2 DEF Reset, Fresh, Clean, InFrame, Drained
  <2> QED
    BY <2>1 DEF EofInv
<1>3. ASSUME NEW c \in Callers, PortTakes(c) PROVE EofInv'
  <2>1. Closing' => Closing
    BY <1>3 DEF PortTakes, Closing, Waiting, SessionInv, TypeOK, Calls, Idle
  <2> QED
    BY <1>3, <2>1 DEF PortTakes, EofInv, Clean
<1>4. ASSUME NEW c \in Callers, Resume(c) PROVE EofInv'
  <2>1. call[c].rest \in Nat
    BY DEF SessionInv, TypeOK, Calls, Idle
  <2> QED
    BY <1>4, <2>1, CompressEof DEF Resume
<1>5. ASSUME NEW c \in Callers, Return(c) PROVE EofInv'
  <2>1. Closing' \/ reached_eof' => Closing \/ reached_eof
    BY <1>5 DEF Return, Closing, Idle, SessionInv, TypeOK
  <2> QED
    BY <1>5, <2>1 DEF Return, EofInv, Clean
<1>6. ASSUME NEW c \in Callers, PortRaises(c) PROVE EofInv'
  <2>1. Closing' => Closing
    BY <1>6 DEF PortRaises, Closing, Idle, SessionInv, TypeOK
  <2> QED
    BY <1>6, <2>1 DEF PortRaises, EofInv, Clean
<1>7. CASE UNCHANGED vars
  BY <1>7 DEF vars, EofInv, Closing, Clean
<1> QED
  BY <1>1, <1>2, <1>3, <1>4, <1>5, <1>6, <1>7, SyncEof, CloseEof DEF Next, Client, Answer

(* eof is true only of a finished frame, for any interleaving of callers.  *)
THEOREM EofIsCompleteCorrect == Spec => []EofIsComplete
<1>1. Init => EofInv
  BY DEF Init, EofInv, Closing, Idle
<1>2. EofInv => EofIsComplete
  BY DEF EofInv, EofIsComplete, Clean
<1>3. SessionInv /\ EofInv /\ [Next]_vars => EofInv'
  BY NextEof
<1> QED
  BY <1>1, <1>2, <1>3, SessionCorrect, PTL DEF Spec
=============================================================================
