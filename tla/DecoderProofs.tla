--------------------------- MODULE DecoderProofs ---------------------------
(***************************************************************************)
(* Theorems about Decoder, for every source, chunk size and read size, and *)
(* about SharedDecoder, for any number of threads.                         *)
(***************************************************************************)
EXTENDS SharedDecoder, FiniteSetTheorems, TLAPS

(* A session that has read a part of f: it has returned no more than what  *)
(* it has read yields, and keeps back only the last byte of the frame,     *)
(* until everything is returned.                                           *)
Follows(d, f) ==
  /\ d.at <= f.len
  /\ d.out <= f.yield[d.at]
  /\ d.hostage => d.at = f.len /\ d.out < Total(f)

-----------------------------------------------------------------------------
(* What a libzstd call may do to a session that has not seen the frame's   *)
(* end, whatever it finds in the input.  Given input and room, it makes    *)
(* progress.                                                               *)
LEMMA DecompressOutcome ==
  ASSUME NEW f, IsFrame(f), NEW d \in Contexts, ~d.lost, Follows(d, f),
         d.at = f.len => d.hostage,
         NEW fill \in Nat, d.hostage => fill > 0, NEW room \in Nat,
         NEW r \in DecompressResults(d, f, fill, room)
  PROVE  /\ r.ctx \in Contexts /\ ~r.ctx.lost /\ Follows(r.ctx, f)
         /\ r.ctx.at = d.at \/ r.ctx.at <= d.at + fill
         /\ r.used \in 0 .. fill /\ Consumed(r.ctx) = Consumed(d) + r.used
         /\ r.out \in 0 .. room /\ r.ctx.out = d.out + r.out
         /\ r.ret = "error" => r.out = 0
         /\ r.ret = "end" => r.ctx.at = f.len /\ ~r.ctx.hostage /\ r.ctx.out = Total(f)
         /\ r.ret # "end" /\ r.ctx.at = f.len => r.ctx.hostage
         /\ r.ctx.stall <= d.stall + 1 /\ (r.ret = "error" => d.stall + 1 >= MaxStall)
         /\ fill > 0 /\ room > 0 => r.ctx.stall = 0 /\ r.ret # "error"
<1> USE DCtxAssumption
<1>1. /\ f.len \in Nat /\ f.len > 0
      /\ f.yield \in [0 .. f.len -> Nat]
      /\ \A i \in 0 .. f.len : \A j \in i .. f.len : f.yield[i] <= f.yield[j]
  BY DEF IsFrame
<1> DEFINE last    == IF d.at + fill < f.len THEN d.at + fill ELSE f.len
           Fits(i) == f.yield[i] - d.out <= room
           stops   == {i \in d.at .. last : /\ \A j \in d.at .. i - 1 : Fits(j)
                                            /\ i = last \/ ~Fits(i)}
           out(i)   == IF Fits(i) THEN f.yield[i] - d.out ELSE room
           stall(i) == IF i > d.at \/ out(i) > 0 THEN 0
                       ELSE IF d.stall < MaxStall THEN d.stall + 1 ELSE MaxStall
           done(i)  == i = f.len /\ d.out + out(i) = Total(f)
           held(i)  == i = f.len /\ ~(done(i) /\ (d.hostage => fill > 0))
           ctx(i)   == [at |-> i, out |-> d.out + out(i), hostage |-> held(i),
                        stall |-> stall(i), lost |-> FALSE]
<1>2. PICK i \in stops :
        r = IF stall(i) = MaxStall
            THEN [ctx |-> [d EXCEPT !.stall = stall(i)], used |-> 0, out |-> 0,
                  ret |-> "error"]
            ELSE [ctx |-> ctx(i), used |-> Consumed(ctx(i)) - Consumed(d),
                  out |-> out(i),
                  ret |-> IF done(i) /\ ~held(i) THEN "end" ELSE "more"]
  <2>1. ~Over(d, f)
    BY DEF Over
  <2> QED
    BY <2>1 DEF DecompressResults, Stalled
<1>3. /\ d.at \in 0 .. f.len /\ d.out \in Nat /\ i \in d.at .. f.len
      /\ i <= d.at + fill \/ i = d.at
  BY <1>1 DEF Follows, Contexts
<1>4. f.yield[i] \in Nat /\ f.yield[d.at] \in Nat /\ f.yield[d.at] <= f.yield[i]
  BY <1>1, <1>3
<1>5. out(i) \in 0 .. room /\ d.out + out(i) <= f.yield[i]
  BY <1>3, <1>4 DEF Follows
<1>6. /\ stall(i) \in 0 .. MaxStall /\ stall(i) <= d.stall + 1 /\ MaxStall > 0
      /\ stall(i) = MaxStall => d.stall + 1 >= MaxStall
  BY <1>3, <1>5 DEF Contexts
<1>7. fill > 0 /\ room > 0 => stall(i) = 0
  <2> SUFFICES ASSUME fill > 0, room > 0, i = d.at PROVE out(i) > 0
    BY <1>3
  <2>1. CASE Fits(i)
    <3>1. i = last
      BY <1>2, <2>1
    <3>2. i = f.len /\ d.out < f.yield[i]
      BY <1>1, <1>3, <3>1 DEF Follows, Total
    <3> QED
      BY <1>3, <1>4, <2>1, <3>2
  <2>2. CASE ~Fits(i)
    BY <2>2
  <2> QED
    BY <2>1, <2>2
<1>8. CASE stall(i) = MaxStall
  <2>1. r.ctx = [d EXCEPT !.stall = MaxStall] /\ r.used = 0 /\ r.out = 0 /\ r.ret = "error"
    BY <1>2, <1>8
  <2>2. /\ r.ctx.at = d.at /\ r.ctx.out = d.out /\ r.ctx.hostage = d.hostage
        /\ r.ctx.lost = FALSE /\ r.ctx \in Contexts /\ r.ctx.stall = MaxStall
    BY <2>1 DEF Contexts
  <2>3. Follows(r.ctx, f) /\ Consumed(r.ctx) = Consumed(d) /\ Consumed(d) \in Int
    BY <2>2 DEF Follows, Consumed, Contexts
  <2>4. ~(fill > 0 /\ room > 0)
    BY <1>6, <1>8, <1>7
  <2> QED
    BY <1>3, <1>6, <1>8, <2>1, <2>2, <2>3, <2>4
<1>9. CASE stall(i) # MaxStall
  <2>1. /\ r.ctx = ctx(i) /\ r.out = out(i) /\ r.used = Consumed(ctx(i)) - Consumed(d)
        /\ r.ret = IF done(i) /\ ~held(i) THEN "end" ELSE "more"
    BY <1>2, <1>9
  <2>2. /\ r.ctx.at = i /\ r.ctx.out = d.out + out(i) /\ r.ctx.hostage = held(i)
        /\ r.ctx.stall = stall(i) /\ r.ctx.lost = FALSE
    BY <2>1
  <2>3. held(i) \in BOOLEAN /\ d.out + out(i) \in Nat
    BY <1>3, <1>5
  <2> HIDE DEF stall
  <2>4. r.ctx \in Contexts
    BY <1>3, <1>6, <2>1, <2>3 DEF Contexts
  <2>5. Follows(r.ctx, f)
    <3>1. r.ctx.at <= f.len /\ r.ctx.out <= f.yield[r.ctx.at]
      BY <1>3, <1>5, <2>2
    <3>2. r.ctx.hostage => r.ctx.at = f.len /\ d.out + out(i) # Total(f)
      BY <2>2
    <3>3. r.ctx.at = f.len => d.out + out(i) <= Total(f) /\ Total(f) \in Nat
      BY <1>4, <1>5, <2>2 DEF Total
    <3>4. r.ctx.hostage => r.ctx.out < Total(f)
      BY <2>2, <2>3, <3>2, <3>3
    <3> QED
      BY <3>1, <3>2, <3>4 DEF Follows
  <2>6. Consumed(r.ctx) = (IF held(i) THEN i - 1 ELSE i)
    BY <2>2 DEF Consumed
  <2>7. Consumed(d) = (IF d.hostage THEN d.at - 1 ELSE d.at)
    BY DEF Consumed
  <2>8. r.used = Consumed(r.ctx) - Consumed(d)
    BY <2>1
  <2>9. r.used \in 0 .. fill /\ Consumed(r.ctx) = Consumed(d) + r.used
    <3>1. CASE d.hostage
      <4>1. i = f.len /\ d.at = f.len
        BY <1>3, <3>1 DEF Follows
      <4> HIDE DEF out
      <4>2. ~held(i) => fill > 0
        BY <3>1, <4>1
      <4> HIDE DEF held
      <4>3. Consumed(d) = f.len - 1 /\ f.len \in Nat
        BY <1>1, <2>7, <3>1, <4>1
      <4>4. Consumed(r.ctx) - (f.len - 1) \in 0 .. fill /\ Consumed(r.ctx) \in Int
        <5>1. Consumed(r.ctx) = f.len - 1 \/ (Consumed(r.ctx) = f.len /\ fill > 0)
          BY <2>6, <4>1, <4>2
        <5> QED
          BY <4>3, <5>1
      <4> QED
        BY <2>8, <4>3, <4>4
    <3>2. CASE ~d.hostage
      <4>1. d.at < f.len
        <5>1. d.at # f.len
          BY <3>2
        <5> QED
          BY <1>1, <1>3, <5>1
      <4> HIDE DEF out
      <4>2. held(i) => i = f.len
        OBVIOUS
      <4> HIDE DEF held
      <4>3. Consumed(d) = d.at /\ d.at \in Nat /\ i \in Nat /\ f.len \in Nat
        BY <1>1, <1>3, <2>7, <3>2
      <4>4. Consumed(r.ctx) - d.at \in 0 .. fill /\ Consumed(r.ctx) \in Int
        <5>1. CASE held(i)
          BY <1>3, <2>6, <4>1, <4>2, <4>3, <5>1
        <5>2. CASE ~held(i)
          BY <1>3, <2>6, <4>3, <5>2
        <5> QED
          BY <5>1, <5>2
      <4> QED
        BY <2>8, <4>3, <4>4
    <3> QED
      BY <3>1, <3>2
  <2>10. r.ret = "end" => i = f.len /\ ~held(i) /\ d.out + out(i) = Total(f)
    BY <2>1
  <2>11. r.ret # "end" /\ i = f.len => held(i)
    <3> HIDE DEF out
    <3> QED
      BY <2>1
  <2>12. r.ret # "error"
    BY <2>1
  <2> QED
    BY <1>3, <1>5, <1>6, <1>7, <2>1, <2>2, <2>4, <2>5, <2>9, <2>10, <2>11, <2>12
<1> QED
  BY <1>8, <1>9

-----------------------------------------------------------------------------
(* A chunk is pulled only when the one before is used up: the length that  *)
(* dec_read_fetch compares with is the one of the unread chunk.            *)
InputInv ==
  /\ inbuf.pos < inbuf.size => inbuf.src /\ readbuf = inbuf.size
  /\ call.at = "port" => inbuf.pos = inbuf.size

(* A read to the end decodes up to its target capacity, and any other has  *)
(* one part only.  Nothing is pulled or decoded for a full buffer, and the *)
(* decoding loop ends at the end or at a full buffer.                      *)
CallOK(c) ==
  /\ c.at = "idle" => c = Idle
  /\ c.out <= c.room
  /\ IF c.all THEN c.len + c.room = c.capa ELSE c.len = 0
  /\ c.at \in {"port", "ints"} => c.out < c.room
CallInv ==
  /\ CallOK(call)
  /\ call.at = "done" => reached_eof \/ call.out >= call.room

(* The session and the frame.  Once the frame's last byte is read, it is   *)
(* either still in the input or the end has been found.                    *)
SessionInv ==
  ~context.lost =>
    /\ Follows(context, source)
    /\ Consumed(context) = supplied - (inbuf.size - inbuf.pos)
    /\ context.at <= supplied
    /\ context.at = source.len =>
         context.hostage \/ (reached_eof /\ context.out = Total(source))
    /\ reached_eof /\ ~closed => context.at = source.len /\ ~context.hostage

(* The invariant speaks of the read in progress only through CallInv and   *)
(* InputInv, so that it also holds for each of several threads that read.  *)
Inv == IsFrame(source) /\ ReaderOK /\ InputInv /\ CallInv /\ SessionInv /\ NoFalseEof

(* A step hands on as many decoded bytes as leave the session. *)
Held == given + dropped + call.len + call.out
Balanced == ~context'.lost => Held' - context'.out = Held - context.out

LEMMA InitInv == Init => Inv /\ Held = context.out
<1> USE DCtxAssumption
<1> SUFFICES ASSUME Init PROVE Inv /\ Held = context.out
  OBVIOUS
<1>1. /\ IsFrame(source) /\ source.len \in Nat /\ source.len > 0 /\ source.avail \in Nat
      /\ source.yield \in [0 .. source.len -> Nat] /\ source.yield[0] = 0
  BY DEF Init, IsFrame
<1>2. /\ context = [at |-> 0, out |-> 0, hostage |-> FALSE, stall |-> 0, lost |-> FALSE]
      /\ call = [at |-> "idle", all |-> FALSE, room |-> 0, out |-> 0, len |-> 0,
                 size |-> 0, capa |-> 0]
      /\ inbuf = [src |-> FALSE, pos |-> 0, size |-> 0]
      /\ supplied = 0 /\ readbuf = 0 /\ given = 0 /\ dropped = 0
      /\ reached_eof = FALSE /\ closed = FALSE
      /\ result = [kind |-> "none", all |-> FALSE, len |-> 0, want |-> 0]
  BY DEF Init, NewSession, Idle, NoResult
<1>3. ReaderOK
  <2>1. context \in Contexts /\ call \in Calls
    BY <1>2 DEF Contexts, Calls
  <2>2. inbuf \in {b \in [src : BOOLEAN, pos : Nat, size : Nat] : b.pos <= b.size}
    BY <1>2
  <2>3. result \in [kind : {"none", "data", "nil", "empty", "eof", "port",
                           "interrupt", "zstd"},
                   all : BOOLEAN, len : Nat, want : Nat]
    BY <1>2
  <2>4. supplied \in 0 .. source.avail /\ readbuf \in Nat /\ given \in Nat /\ dropped \in Nat
    BY <1>1, <1>2
  <2> QED
    BY <1>1, <1>2, <2>1, <2>2, <2>3, <2>4 DEF ReaderOK
<1>4. InputInv /\ CallInv /\ NoFalseEof
  BY <1>2 DEF InputInv, CallInv, CallOK, NoFalseEof, Idle
<1>5. SessionInv
  <2>1. context.at = 0 /\ context.out = 0 /\ ~context.hostage
    BY <1>2
  <2>2. Follows(context, source) /\ Consumed(context) = 0
    BY <1>1, <2>1 DEF Follows, Consumed
  <2>3. inbuf.size - inbuf.pos = 0
    BY <1>2
  <2> QED
    BY <1>1, <1>2, <2>1, <2>2, <2>3 DEF SessionInv
<1> QED
  BY <1>1, <1>2, <1>3, <1>4, <1>5 DEF Inv, Held

-----------------------------------------------------------------------------
(* What the types say of the variables that the steps compute with. *)
LEMMA Typed ==
  ASSUME Inv
  PROVE  /\ call \in Calls /\ given \in Nat /\ dropped \in Nat /\ supplied \in Nat
         /\ context \in Contexts /\ readbuf \in Nat /\ reached_eof \in BOOLEAN
         /\ call.len \in Nat /\ call.out \in Nat /\ call.room \in Nat /\ call.capa \in Nat
         /\ call.out <= call.room /\ call.room - call.out \in Nat
         /\ inbuf \in [src : BOOLEAN, pos : Nat, size : Nat]
         /\ inbuf.pos <= inbuf.size /\ inbuf.size - inbuf.pos \in Nat
         /\ supplied \in 0 .. source.avail
         /\ source.avail \in Nat /\ source.len \in Nat /\ source.len > 0
         /\ Held \in Nat
<1>1. call \in Calls /\ given \in Nat /\ dropped \in Nat /\ context \in Contexts
      /\ readbuf \in Nat /\ reached_eof \in BOOLEAN /\ supplied \in 0 .. source.avail
      /\ inbuf \in {b \in [src : BOOLEAN, pos : Nat, size : Nat] : b.pos <= b.size}
  BY DEF Inv, ReaderOK
<1>2. source.avail \in Nat /\ source.len \in Nat /\ source.len > 0
  BY DEF Inv, IsFrame
<1>3. call.len \in Nat /\ call.out \in Nat /\ call.room \in Nat /\ call.capa \in Nat
  BY <1>1 DEF Calls
<1>4. call.out <= call.room
  BY DEF Inv, CallInv, CallOK
<1>5. inbuf.pos \in Nat /\ inbuf.size \in Nat /\ inbuf.pos <= inbuf.size
  BY <1>1
<1> QED
  BY <1>1, <1>2, <1>3, <1>4, <1>5 DEF Held

LEMMA IdleCall ==
  /\ Idle \in Calls /\ Idle.at = "idle" /\ Idle.len = 0 /\ Idle.out = 0
  /\ Idle.room = 0 /\ Idle.all = FALSE /\ CallOK(Idle)
BY DEF Idle, Calls, CallOK

(* A step that leaves the session and its input alone, and gets the read   *)
(* to somewhere it may be, keeps Inv.                                      *)
LEMMA QuietInv ==
  ASSUME Inv, ReaderOK', CallOK(call'),
         UNCHANGED <<source, supplied, context, inbuf, reached_eof, closed>>,
         inbuf.pos < inbuf.size => readbuf' = readbuf,
         call'.at = "port" => inbuf.pos = inbuf.size,
         call'.at = "done" => reached_eof \/ call'.out >= call'.room,
         result'.kind = "eof" /\ ~context.lost =>
           result.kind = "eof" \/ source.avail < source.len
  PROVE  Inv'
<1>1. InputInv' /\ CallInv' /\ NoFalseEof'
  BY DEF Inv, InputInv, CallInv, CallOK, NoFalseEof
<1>2. SessionInv'
  <2>1. SessionInv
    BY DEF Inv
  <2> QED
    BY <2>1 DEF SessionInv
<1> QED
  BY <1>1, <1>2 DEF Inv

(* The calls a read starts with. *)
LEMMA EnteredCall ==
  ASSUME Inv, NEW c \in Calls, NEW n \in Nat
  PROVE  /\ Entered(c, n) \in Calls
         /\ Entered(c, n).out = 0 /\ Entered(c, n).room = n
         /\ Entered(c, n).len = c.len /\ Entered(c, n).all = c.all
         /\ Entered(c, n).capa = c.capa
         /\ Entered(c, n).at = IF reached_eof THEN "done" ELSE "head"
  BY DEF Entered, Calls, Inv, ReaderOK

(* A step that goes on with the read and moves no bytes keeps Inv. *)
LEMMA StepInv ==
  ASSUME Inv, NEW c \in Calls, Step(c),
         UNCHANGED <<source, supplied, context, readbuf, inbuf, reached_eof, closed>>,
         c.len + c.out = call.len + call.out, c.out <= c.room,
         IF c.all THEN c.len + c.room = c.capa ELSE c.len = 0,
         c.at # "idle", c.at \in {"port", "ints"} => c.out < c.room,
         c.at = "done" => reached_eof \/ c.out >= c.room,
         c.at = "port" => inbuf.pos = inbuf.size
  PROVE  Inv' /\ Balanced
<1>1. call' = c /\ UNCHANGED <<result, given, dropped>>
  BY DEF Step
<1>2. ReaderOK'
  BY <1>1 DEF Inv, ReaderOK
<1>3. CallOK(c)
  BY DEF CallOK
<1>4. Inv'
  BY <1>1, <1>2, <1>3, QuietInv
<1>5. Balanced
  BY <1>1, Typed DEF Balanced, Held, Calls
<1> QED
  BY <1>4, <1>5

(* An exception keeps Inv when the session, its unread input and what is   *)
(* known of the end stay.                                                  *)
LEMMA RaiseInv ==
  ASSUME Inv, NEW kind \in {"eof", "port", "interrupt", "zstd"}, Raise(kind),
         UNCHANGED <<source, supplied, context, inbuf, reached_eof, closed>>,
         readbuf' \in Nat, inbuf.pos < inbuf.size => readbuf' = readbuf,
         kind = "eof" /\ ~context.lost => source.avail < source.len
  PROVE  Inv' /\ Balanced
<1>1. /\ call' = Idle /\ given' = given /\ dropped' = dropped + call.len + call.out
      /\ result'.kind = kind
      /\ result' = [kind |-> kind, all |-> call.all, len |-> 0, want |-> call.room]
  BY DEF Raise
<1>2. ReaderOK'
  <2>1. dropped' \in Nat /\ call' \in Calls
    BY <1>1, Typed, IdleCall
  <2>2. result' \in [kind : {"none", "data", "nil", "empty", "eof", "port",
                            "interrupt", "zstd"},
                    all : BOOLEAN, len : Nat, want : Nat]
    BY <1>1, Typed DEF Calls
  <2> QED
    BY <1>1, <2>1, <2>2 DEF Inv, ReaderOK
<1>3. Inv'
  BY <1>1, <1>2, IdleCall, QuietInv
<1>4. Balanced
  BY <1>1, Typed, IdleCall DEF Balanced, Held
<1> QED
  BY <1>3, <1>4

LEMMA DeliverInv ==
  ASSUME Inv, NEW n \in Nat, n = call.len + call.out, Deliver(n),
         UNCHANGED <<source, supplied, context, readbuf, inbuf, reached_eof, closed>>
  PROVE  Inv' /\ Balanced
<1>1. /\ call' = Idle /\ given' = given + n /\ dropped' = dropped
      /\ result' = [kind |-> IF n = 0 THEN "nil" ELSE "data", all |-> call.all,
                    len |-> n, want |-> call.room]
  BY DEF Deliver
<1>2. ReaderOK'
  <2>1. given' \in Nat /\ call' \in Calls
    BY <1>1, Typed, IdleCall
  <2>2. result' \in [kind : {"none", "data", "nil", "empty", "eof", "port",
                            "interrupt", "zstd"},
                    all : BOOLEAN, len : Nat, want : Nat]
    BY <1>1, Typed DEF Calls
  <2> QED
    BY <1>1, <2>1, <2>2 DEF Inv, ReaderOK
<1>3. result'.kind # "eof"
  BY <1>1
<1>4. Inv'
  BY <1>1, <1>2, <1>3, IdleCall, QuietInv
<1>5. Balanced
  BY <1>1, Typed, IdleCall DEF Balanced, Held
<1> QED
  BY <1>4, <1>5

-----------------------------------------------------------------------------
(* One lemma for each action. *)
LEMMA ReadSomeInv ==
  ASSUME Inv, ReadSome
  PROVE  Inv' /\ Balanced
<1> USE DecoderAssumption
<1>1. PICK n \in ReadSizes :
        IF n = 0
        THEN /\ result' = [kind |-> "empty", all |-> FALSE, len |-> 0, want |-> 0]
             /\ UNCHANGED <<call, given, dropped>>
        ELSE Step(Entered([Idle EXCEPT !.size = n], n))
  BY DEF ReadSome
<1>2. UNCHANGED <<source, supplied, context, readbuf, inbuf, reached_eof, closed>>
  BY DEF ReadSome
<1>3. call = Idle /\ n \in Nat
  BY DEF ReadSome, Inv, CallInv, CallOK
<1>4. CASE n = 0
  <2>1. /\ UNCHANGED <<call, given, dropped>> /\ result'.kind = "empty"
        /\ result' = [kind |-> "empty", all |-> FALSE, len |-> 0, want |-> 0]
    BY <1>1, <1>4
  <2>2. result' \in [kind : {"none", "data", "nil", "empty", "eof", "port",
                            "interrupt", "zstd"},
                    all : BOOLEAN, len : Nat, want : Nat]
    BY <2>1
  <2>3. ReaderOK'
    BY <1>2, <2>1, <2>2 DEF Inv, ReaderOK
  <2>4. Inv'
    BY <1>2, <1>3, <2>1, <2>3, IdleCall, QuietInv
  <2> QED
    BY <1>2, <2>1, <2>4, Typed DEF Balanced, Held
<1>5. CASE n # 0
  <2> DEFINE c == Entered([Idle EXCEPT !.size = n], n)
  <2>1. [Idle EXCEPT !.size = n] \in Calls
    BY <1>3 DEF Idle, Calls
  <2>2. [Idle EXCEPT !.size = n].len = 0 /\ [Idle EXCEPT !.size = n].all = FALSE
    BY DEF Idle
  <2>3. /\ c \in Calls /\ c.out = 0 /\ c.room = n /\ c.len = 0 /\ c.all = FALSE
        /\ c.at = IF reached_eof THEN "done" ELSE "head"
    BY <1>3, <2>1, <2>2, EnteredCall
  <2>4. call.len = 0 /\ call.out = 0
    BY <1>3 DEF Idle
  <2>5. Step(c)
    BY <1>1, <1>5
  <2> HIDE DEF c
  <2> QED
    BY <1>2, <1>3, <2>3, <2>4, <2>5, StepInv
<1> QED
  BY <1>4, <1>5

LEMMA ReadAllInv ==
  ASSUME Inv, ReadAll
  PROVE  Inv' /\ Balanced
<1> USE DecoderAssumption
<1>1. PICK capa \in BufferCapas :
        Step(Entered([Idle EXCEPT !.all = TRUE, !.capa = Growup,
                                  !.size = IF capa < Growup THEN Growup ELSE capa],
                     Growup))
  BY DEF ReadAll
<1> DEFINE b == [Idle EXCEPT !.all = TRUE, !.capa = Growup,
                             !.size = IF capa < Growup THEN Growup ELSE capa]
           c == Entered(b, Growup)
<1>2. UNCHANGED <<source, supplied, context, readbuf, inbuf, reached_eof, closed>>
  BY DEF ReadAll
<1>3. Growup \in Nat /\ capa \in Nat
  OBVIOUS
<1>4. b \in Calls /\ b.len = 0 /\ b.all = TRUE /\ b.capa = Growup
  BY <1>3 DEF Idle, Calls
<1>5. Step(c)
  BY <1>1
<1> HIDE DEF b
<1>6. /\ c \in Calls /\ c.out = 0 /\ c.room = Growup /\ c.len = 0 /\ c.all = TRUE
      /\ c.capa = Growup /\ c.at = IF reached_eof THEN "done" ELSE "head"
  BY <1>3, <1>4, EnteredCall
<1>7. call.len = 0 /\ call.out = 0
  BY DEF ReadAll, Inv, CallInv, CallOK, Idle
<1> HIDE DEF c
<1> QED
  BY <1>2, <1>3, <1>5, <1>6, <1>7, StepInv

LEMMA LoopHeadInv ==
  ASSUME Inv, LoopHead
  PROVE  Inv' /\ Balanced
<1> DEFINE at == IF RoomFull THEN "done" ELSE IF NeedsInput THEN "port" ELSE "ints"
           c  == [call EXCEPT !.at = at]
<1>1. Step(c) /\ UNCHANGED <<source, supplied, context, readbuf, inbuf, reached_eof, closed>>
      /\ call.at = "head"
  BY DEF LoopHead
<1>2. call \in Calls /\ at \in {"done", "port", "ints"}
  BY Typed
<1>3. /\ c \in Calls /\ c.at = at /\ c.len = call.len /\ c.out = call.out
      /\ c.room = call.room /\ c.all = call.all /\ c.capa = call.capa
  BY <1>2 DEF Calls
<1>4. at = "done" => call.out >= call.room
  BY DEF RoomFull
<1>5. at \in {"port", "ints"} => call.out < call.room
  BY Typed DEF RoomFull
<1>6. at = "port" => inbuf.pos = inbuf.size
  BY Typed DEF NeedsInput, Inv, InputInv
<1> HIDE DEF at, c
<1>7. call.out <= call.room /\ IF call.all THEN call.len + call.room = call.capa ELSE call.len = 0
  BY <1>1 DEF Inv, CallInv, CallOK
<1> QED
  BY <1>1, <1>2, <1>3, <1>4, <1>5, <1>6, <1>7, StepInv

LEMMA SomeDoneInv ==
  ASSUME Inv, SomeDone
  PROVE  Inv' /\ Balanced
<1>1. call.out \in Nat /\ call.out = call.len + call.out
  BY Typed DEF SomeDone, Inv, CallInv, CallOK
<1> QED
  BY <1>1, DeliverInv DEF SomeDone

LEMMA AllDoneInv ==
  ASSUME Inv, AllDone
  PROVE  Inv' /\ Balanced
<1> USE DecoderAssumption
<1> DEFINE capa == IF call.size > GrowupLimit THEN call.capa + GrowupLimit ELSE 2 * call.capa
           size == IF call.size < capa THEN capa ELSE call.size
           b == [call EXCEPT !.len = Joined, !.capa = capa, !.size = size]
           c == Entered(b, capa - Joined)
<1>1. call \in Calls /\ call.all = TRUE /\ call.at = "done"
  BY Typed DEF AllDone, Calls
<1>2. Joined \in Nat /\ Joined = call.len + call.out
  BY <1>1 DEF Joined, Calls
<1>3. UNCHANGED <<source, supplied, context, readbuf, inbuf, reached_eof, closed>>
  BY DEF AllDone
<1>4. CASE call.out = 0 \/ RoomLeft
  BY <1>2, <1>3, <1>4, DeliverInv DEF AllDone
<1>5. CASE ~(call.out = 0 \/ RoomLeft)
  <2>1. Step(c)
    BY <1>5 DEF AllDone
  <2>2. Joined <= call.capa
    BY <1>1, <1>2 DEF Inv, CallInv, CallOK, Calls
  <2>3. capa \in Nat /\ size \in Nat /\ capa - Joined \in Nat
    BY <1>1, <1>2, <2>2 DEF Calls
  <2>4. b \in Calls /\ b.len = Joined /\ b.all = TRUE /\ b.capa = capa
    <3> HIDE DEF capa, size
    <3> QED
      BY <1>1, <1>2, <2>3 DEF Calls
  <2> HIDE DEF capa, size, b
  <2>5. /\ c \in Calls /\ c.out = 0 /\ c.room = capa - Joined /\ c.len = Joined
        /\ c.all = TRUE /\ c.at = (IF reached_eof THEN "done" ELSE "head")
        /\ c.capa = capa
    BY <2>3, <2>4, EnteredCall
  <2> HIDE DEF c
  <2>6. /\ c.len + c.out = call.len + call.out /\ c.out <= c.room
        /\ c.len + c.room = c.capa /\ c.at \in {"done", "head"}
        /\ c.at = "done" => reached_eof
    BY <1>2, <2>3, <2>5
  <2> QED
    BY <1>3, <2>1, <2>5, <2>6, StepInv
<1> QED
  BY <1>4, <1>5

LEMMA PortRaisesInv ==
  ASSUME Inv, PortRaises
  PROVE  Inv' /\ Balanced
<1>1. readbuf' \in Nat
  BY Typed, DecoderAssumption DEF PortRaises
<1>2. ~(inbuf.pos < inbuf.size)
  BY Typed DEF PortRaises, Inv, InputInv
<1> QED
  BY <1>1, <1>2, RaiseInv DEF PortRaises

LEMMA InterruptInv ==
  ASSUME Inv, Interrupt
  PROVE  Inv' /\ Balanced
BY Typed, RaiseInv DEF Interrupt

LEMMA PortGivesInv ==
  ASSUME Inv, PortGives
  PROVE  Inv' /\ Balanced
<1> USE DecoderAssumption
<1>1. PICK n \in 0 .. ChunkSize :
        /\ supplied + n <= source.avail
        /\ supplied' = supplied + n
        /\ readbuf' = n
        /\ inbuf' = [src |-> TRUE, pos |-> 0, size |-> n]
  BY DEF PortGives, Refilled
<1>2. /\ UNCHANGED <<source, context, reached_eof, closed, result, given, dropped>>
      /\ call.at = "port" /\ call' = [call EXCEPT !.at = "ints"]
  BY DEF PortGives, Step
<1>3. /\ call \in Calls /\ supplied \in 0 .. source.avail /\ inbuf.pos = inbuf.size
      /\ inbuf.size \in Nat /\ source.avail \in Nat
  BY <1>2, Typed DEF Inv, InputInv
<1>4. /\ call' \in Calls /\ call'.at = "ints" /\ call'.len = call.len
      /\ call'.out = call.out /\ call'.room = call.room /\ call'.all = call.all
      /\ call'.capa = call.capa
  BY <1>2, <1>3 DEF Calls
<1>5. ReaderOK'
  <2>1. supplied' \in 0 .. source'.avail /\ n \in Nat
    BY <1>1, <1>2, <1>3
  <2>2. inbuf' \in {b \in [src : BOOLEAN, pos : Nat, size : Nat] : b.pos <= b.size}
    BY <1>1, <2>1
  <2> QED
    BY <1>1, <1>2, <1>4, <2>1, <2>2 DEF Inv, ReaderOK
<1>6. InputInv' /\ CallInv' /\ NoFalseEof'
  BY <1>1, <1>2, <1>4 DEF Inv, InputInv, CallInv, CallOK, NoFalseEof
<1>7. SessionInv'
  <2> SUFFICES ASSUME ~context.lost PROVE SessionInv'
    BY <1>2 DEF SessionInv
  <2>1. supplied' - (inbuf'.size - inbuf'.pos) = supplied - (inbuf.size - inbuf.pos)
    BY <1>1, <1>3
  <2>2. context.at <= supplied'
    BY <1>1, <1>3, Typed DEF Inv, SessionInv, Contexts
  <2>3. SessionInv
    BY DEF Inv
  <2> QED
    BY <1>2, <2>1, <2>2, <2>3 DEF SessionInv
<1>8. Inv'
  BY <1>2, <1>5, <1>6, <1>7 DEF Inv
<1> QED
  BY <1>2, <1>4, <1>8, Typed DEF Balanced, Held

(* "unexpected EOF" is raised only when the frame's last byte is missing:  *)
(* had the session read it, it would still be in the input, and nothing    *)
(* would be pulled.                                                        *)
LEMMA PortEndsInv ==
  ASSUME Inv, PortEnds
  PROVE  Inv' /\ Balanced
<1>1. /\ call.at = "port" /\ supplied = source.avail /\ inbuf.pos = inbuf.size
      /\ call \in Calls /\ inbuf.size \in Nat /\ readbuf' \in Nat
  BY Typed DEF PortEnds, Inv, InputInv
<1>2. UNCHANGED <<source, supplied, context, inbuf, reached_eof, closed>>
  BY DEF PortEnds, EndOfInput
<1>3. CASE reached_eof
  <2>1. call' = [call EXCEPT !.at = "done"] /\ UNCHANGED <<result, given, dropped>>
    BY <1>3 DEF PortEnds, EndOfInput, Step
  <2>2. /\ call' \in Calls /\ call'.at = "done" /\ call'.len = call.len
        /\ call'.out = call.out /\ call'.room = call.room /\ call'.all = call.all
        /\ call'.capa = call.capa
    BY <1>1, <2>1 DEF Calls
  <2>3. ReaderOK'
    BY <1>1, <1>2, <2>1, <2>2 DEF Inv, ReaderOK
  <2>4. CallOK(call')
    BY <2>2 DEF Inv, CallInv, CallOK
  <2>5. Inv'
    BY <1>1, <1>2, <1>3, <2>1, <2>2, <2>3, <2>4, QuietInv
  <2> QED
    BY <1>2, <2>1, <2>2, <2>5, Typed DEF Balanced, Held
<1>4. CASE ~reached_eof
  <2>1. Raise("eof")
    BY <1>4 DEF PortEnds, EndOfInput
  <2>2. ~context.lost => source.avail < source.len
    <3> SUFFICES ASSUME ~context.lost PROVE source.avail < source.len
      OBVIOUS
    <3>1. /\ context.at <= source.len /\ context.at <= supplied /\ context.at \in Nat
          /\ context.hostage => context.at = source.len
          /\ context.at = source.len => context.hostage
          /\ Consumed(context) = supplied - (inbuf.size - inbuf.pos)
      BY <1>4, Typed DEF Inv, SessionInv, Follows, Contexts
    <3>2. Consumed(context) = supplied
      BY <1>1, <3>1, Typed
    <3>3. ~context.hostage
      BY <1>1, <3>1, <3>2, Typed DEF Consumed
    <3> QED
      BY <1>1, <3>1, <3>2, <3>3, Typed DEF Consumed
  <2>3. ~(inbuf.pos < inbuf.size)
    BY <1>1
  <2> QED
    BY <1>1, <1>2, <2>1, <2>2, <2>3, RaiseInv
<1> QED
  BY <1>3, <1>4

(* A call of a session that is over or lost its place. *)
LEMMA LostOutcome ==
  ASSUME NEW d \in Contexts, NEW fill \in Nat, NEW room \in Nat,
         NEW r \in LostResults(d, fill, room)
  PROVE  /\ r.ctx \in Contexts /\ r.used \in 0 .. fill /\ r.out \in 0 .. room
         /\ r.ctx.lost \/ (fill = 0 /\ r = StallResult(d))
<1> DEFINE ctx == [d EXCEPT !.lost = TRUE, !.stall = 0]
<1>1. CASE fill = 0
  <2>1. r = StallResult(d)
    BY <1>1 DEF LostResults
  <2>2. Stalled(d) \in 0 .. MaxStall
    BY DCtxAssumption DEF Stalled, Contexts
  <2>3. r.ctx = [d EXCEPT !.stall = Stalled(d)] /\ r.used = 0 /\ r.out = 0
    BY <2>1 DEF StallResult
  <2>4. r.ctx \in Contexts
    BY <2>2, <2>3 DEF Contexts
  <2> QED
    BY <1>1, <2>1, <2>3, <2>4
<1>2. CASE fill # 0
  <2>1. \/ r = [ctx |-> ctx, used |-> 0, out |-> 0, ret |-> "error"]
        \/ r \in [ctx : {ctx}, used : 1 .. fill, out : 0 .. room, ret : {"more", "end"}]
    BY <1>2, Zenon DEF LostResults
  <2>2. ctx \in Contexts /\ ctx.lost
    <3>1. MaxStall \in Nat /\ 0 \in 0 .. MaxStall
      BY DCtxAssumption
    <3> QED
      BY <3>1 DEF Contexts
  <2> HIDE DEF ctx
  <2>3. CASE r = [ctx |-> ctx, used |-> 0, out |-> 0, ret |-> "error"]
    BY <2>2, <2>3
  <2>4. CASE r \in [ctx : {ctx}, used : 1 .. fill, out : 0 .. room, ret : {"more", "end"}]
    <3>1. r.ctx = ctx /\ r.used \in 1 .. fill /\ r.out \in 0 .. room
      BY <2>4
    <3> QED
      BY <2>2, <3>1
  <2> QED
    BY <2>1, <2>3, <2>4
<1> QED
  BY <1>1, <1>2

(* A call without input makes no progress. *)
LEMMA StallOutcome ==
  ASSUME NEW d \in Contexts, NEW r, r = StallResult(d)
  PROVE  /\ r.ctx \in Contexts /\ r.used = 0 /\ r.out = 0 /\ r.ret \in {"error", "more"}
         /\ r.ctx.at = d.at /\ r.ctx.out = d.out /\ r.ctx.hostage = d.hostage
         /\ r.ctx.lost = d.lost
         /\ r.ctx.stall <= d.stall + 1 /\ (r.ret = "error" => d.stall + 1 >= MaxStall)
<1>1. Stalled(d) \in 0 .. MaxStall /\ Stalled(d) <= d.stall + 1
      /\ (Stalled(d) = MaxStall => d.stall + 1 >= MaxStall)
  BY DCtxAssumption DEF Stalled, Contexts
<1>2. /\ r.ctx = [d EXCEPT !.stall = Stalled(d)] /\ r.used = 0 /\ r.out = 0
      /\ r.ret = IF Stalled(d) = MaxStall THEN "error" ELSE "more"
  BY DEF StallResult
<1> QED
  BY <1>1, <1>2 DEF Contexts

(* Every call that dec_read_decode makes: of a session in the frame, of    *)
(* one that other threads have brought to its end, and of one that lost    *)
(* its place.                                                              *)
LEMMA DecompressCall ==
  ASSUME Inv, call.at = "ints",
         NEW r \in DecompressResults(context, source, inbuf.size - inbuf.pos,
                                     call.room - call.out)
  PROVE  LET fill == inbuf.size - inbuf.pos
         IN  /\ r.ctx \in Contexts /\ r.used \in 0 .. fill
             /\ r.out \in 0 .. call.room - call.out
             /\ ~r.ctx.lost =>
                  /\ ~context.lost /\ Follows(r.ctx, source)
                  /\ Consumed(r.ctx) = Consumed(context) + r.used
                  /\ r.ctx.at <= supplied
                  /\ r.ctx.out = context.out + r.out /\ (r.ret = "error" => r.out = 0)
                  /\ r.ret = "end" => /\ r.ctx.at = source.len /\ ~r.ctx.hostage
                                      /\ r.ctx.out = Total(source)
                  /\ r.ctx.at = source.len =>
                       \/ r.ctx.hostage
                       \/ (reached_eof \/ r.ret = "end") /\ r.ctx.out = Total(source)
                  /\ context.at = source.len /\ ~context.hostage =>
                       r.ctx.at = source.len /\ ~r.ctx.hostage
                  /\ r.ctx.stall <= context.stall + 1
                  /\ r.ret = "error" => context.stall + 1 >= MaxStall
                  /\ fill > 0 => r.ctx.stall = 0 /\ r.ret # "error"
<1> DEFINE fill == inbuf.size - inbuf.pos
           room == call.room - call.out
<1>1. /\ fill \in Nat /\ room \in Nat /\ context \in Contexts /\ IsFrame(source)
      /\ room > 0 /\ context.stall \in Nat
  BY Typed, DCtxAssumption DEF Inv, CallInv, CallOK, Contexts
<1>2. ~context.lost =>
        /\ Follows(context, source)
        /\ Consumed(context) = supplied - fill
        /\ context.at <= supplied
        /\ context.at = source.len =>
             context.hostage \/ (reached_eof /\ context.out = Total(source))
  BY DEF Inv, SessionInv
<1>3. CASE context.lost
  <2>1. r \in LostResults(context, fill, room)
    BY <1>3 DEF DecompressResults
  <2> HIDE DEF fill, room
  <2>2. /\ r.ctx \in Contexts /\ r.used \in 0 .. fill /\ r.out \in 0 .. room
        /\ r.ctx.lost \/ r = StallResult(context)
    BY <1>1, <2>1, LostOutcome
  <2>3. r = StallResult(context) => r.ctx.lost = context.lost
    BY <1>1, StallOutcome
  <2> QED
    BY <1>3, <2>2, <2>3 DEF fill, room
<1>4. CASE ~context.lost /\ Over(context, source)
  <2>1. r \in LostResults(context, fill, room)
    BY <1>4 DEF DecompressResults
  <2>2. context.at = source.len /\ ~context.hostage /\ context.out = Total(source)
    BY <1>4 DEF Over
  <2>3. context.at <= supplied /\ Follows(context, source) /\ reached_eof
    BY <1>2, <1>4, <2>2
  <2> HIDE DEF fill, room
  <2>4. /\ r.ctx \in Contexts /\ r.used \in 0 .. fill /\ r.out \in 0 .. room
        /\ r.ctx.lost \/ (fill = 0 /\ r = StallResult(context))
    BY <1>1, <2>1, LostOutcome
  <2>5. CASE r.ctx.lost
    BY <2>4, <2>5 DEF fill, room
  <2>6. CASE fill = 0 /\ r = StallResult(context)
    <3>1. /\ r.used = 0 /\ r.out = 0 /\ r.ret # "end"
          /\ r.ctx.at = context.at /\ r.ctx.out = context.out
          /\ r.ctx.hostage = context.hostage
          /\ r.ctx.stall <= context.stall + 1
          /\ r.ret = "error" => context.stall + 1 >= MaxStall
      BY <1>1, <2>6, StallOutcome
    <3>2. Follows(r.ctx, source) /\ Consumed(r.ctx) = Consumed(context)
      BY <2>3, <3>1 DEF Follows, Consumed
    <3>3. Consumed(context) \in Int /\ context.out \in Nat
      BY <1>1 DEF Consumed, Contexts
    <3>4. Consumed(r.ctx) = Consumed(context) + r.used /\ r.ctx.out = context.out + r.out
      BY <3>1, <3>2, <3>3
    <3>5. ~(fill > 0)
      BY <2>6
    <3> QED
      BY <1>4, <2>2, <2>3, <2>4, <3>1, <3>2, <3>4, <3>5 DEF fill, room
  <2> QED
    BY <2>4, <2>5, <2>6
<1>5. CASE ~context.lost /\ ~Over(context, source)
  <2>1. Follows(context, source) /\ (context.at = source.len => context.hostage)
    BY <1>2, <1>5 DEF Over
  <2>2. context.hostage => fill > 0
    <3>1. context.hostage => Consumed(context) = context.at - 1 /\ context.at \in Nat
      BY <1>1 DEF Consumed, Contexts
    <3> QED
      BY <1>1, <1>2, <1>5, <3>1, Typed
  <2> HIDE DEF fill, room
  <2>3. /\ r.ctx \in Contexts /\ ~r.ctx.lost /\ Follows(r.ctx, source)
        /\ r.ctx.at = context.at \/ r.ctx.at <= context.at + fill
        /\ r.used \in 0 .. fill /\ Consumed(r.ctx) = Consumed(context) + r.used
        /\ r.out \in 0 .. room /\ r.ctx.out = context.out + r.out
        /\ r.ret = "error" => r.out = 0
        /\ r.ret = "end" => r.ctx.at = source.len /\ ~r.ctx.hostage /\ r.ctx.out = Total(source)
        /\ r.ret # "end" /\ r.ctx.at = source.len => r.ctx.hostage
        /\ r.ctx.stall <= context.stall + 1
        /\ r.ret = "error" => context.stall + 1 >= MaxStall
        /\ fill > 0 /\ room > 0 => r.ctx.stall = 0 /\ r.ret # "error"
    BY <1>1, <1>5, <2>1, <2>2, DecompressOutcome DEF fill, room
  <2>4. r.ctx.at <= supplied
    <3>1. CASE context.hostage
      <4>1. r.ctx.at <= source.len /\ context.at = source.len
        BY <2>1, <2>3, <3>1 DEF Follows
      <4> QED
        BY <1>2, <1>5, <2>3, <4>1, Typed DEF Contexts
    <3>2. CASE ~context.hostage
      <4>1. context.at = supplied - fill
        BY <1>2, <1>5, <3>2 DEF Consumed
      <4> QED
        BY <1>1, <1>2, <1>5, <2>3, <4>1, Typed DEF Contexts
    <3> QED
      BY <3>1, <3>2
  <2> QED
    BY <1>1, <1>5, <2>1, <2>3, <2>4 DEF fill, room
<1> QED
  BY <1>3, <1>4, <1>5

LEMMA DecompressInv ==
  ASSUME Inv, Decompress
  PROVE  Inv' /\ Balanced
<1> DEFINE fill == inbuf.size - inbuf.pos
           room == call.room - call.out
<1>1. PICK r \in DecompressResults(context, source, fill, room) :
        /\ context' = r.ctx
        /\ inbuf' = [inbuf EXCEPT !.pos = @ + r.used]
        /\ reached_eof' = (reached_eof \/ FoundEnd(r.ret))
        /\ IF IsError(r.ret) THEN Raise("zstd")
           ELSE Step([call EXCEPT !.out = @ + r.out,
                                  !.at = IF FoundEnd(r.ret) THEN "done" ELSE "head"])
  BY DEF Decompress
<1>2. UNCHANGED <<source, supplied, readbuf, closed>> /\ call.at = "ints"
  BY DEF Decompress
<1>3. /\ r.ctx \in Contexts /\ r.used \in 0 .. fill /\ r.out \in 0 .. room
  BY <1>2, DecompressCall
<1>4. /\ call \in Calls /\ given \in Nat /\ dropped \in Nat /\ supplied \in Nat
      /\ inbuf \in [src : BOOLEAN, pos : Nat, size : Nat] /\ inbuf.pos <= inbuf.size
      /\ fill \in Nat /\ room \in Nat
  BY Typed
<1>5. /\ inbuf'.pos = inbuf.pos + r.used /\ inbuf'.size = inbuf.size
      /\ inbuf'.src = inbuf.src
      /\ inbuf' \in {b \in [src : BOOLEAN, pos : Nat, size : Nat] : b.pos <= b.size}
      /\ inbuf'.size - inbuf'.pos = fill - r.used
      /\ inbuf'.pos < inbuf'.size => inbuf.pos < inbuf.size
  <2>1. inbuf' = [inbuf EXCEPT !.pos = @ + r.used]
    BY <1>1
  <2> QED
    BY <1>3, <1>4, <2>1
(* What the step does to the read: bytes appear in it, or go with it. *)
<1>6. /\ call' \in Calls /\ given' \in Nat /\ dropped' \in Nat
      /\ call'.at \in {"idle", "head", "done"} /\ CallOK(call')
      /\ call'.at = "done" => FoundEnd(r.ret)
      /\ (r.ret = "error" => r.out = 0) => Held' = Held + r.out
  <2>1. CASE IsError(r.ret)
    <3>1. call' = Idle /\ given' = given /\ dropped' = dropped + call.len + call.out
      BY <1>1, <2>1 DEF Raise
    <3>2. r.out = 0 => Held' = Held + r.out
      BY <1>4, <3>1, IdleCall, Typed DEF Held
    <3> QED
      BY <1>4, <2>1, <3>1, <3>2, IdleCall, Typed DEF IsError
  <2>2. CASE ~IsError(r.ret)
    <3>1. call' = [call EXCEPT !.out = @ + r.out,
                               !.at = IF FoundEnd(r.ret) THEN "done" ELSE "head"]
          /\ UNCHANGED <<given, dropped>>
      BY <1>1, <2>2 DEF Step
    <3>2. /\ call'.out = call.out + r.out /\ call'.len = call.len /\ call'.room = call.room
          /\ call'.all = call.all /\ call'.capa = call.capa
          /\ call'.at = IF FoundEnd(r.ret) THEN "done" ELSE "head"
          /\ call' \in Calls
      <4>1. call.out + r.out \in Nat
        BY <1>3, <1>4 DEF Calls
      <4>2. (IF FoundEnd(r.ret) THEN "done" ELSE "head") \in {"head", "done"}
        OBVIOUS
      <4> HIDE DEF fill, room
      <4> QED
        BY <1>4, <3>1, <4>1, <4>2 DEF Calls
    <3>3. call.out + r.out <= call.room
      BY <1>3, <1>4 DEF Calls
    <3>4. IF call.all THEN call.len + call.room = call.capa ELSE call.len = 0
      BY DEF Inv, CallInv, CallOK
    <3>5. Held' = Held + r.out
      BY <1>3, <1>4, <3>1, <3>2, Typed DEF Held
    <3>6. CallOK(call')
      BY <3>2, <3>3, <3>4 DEF CallOK
    <3> QED
      BY <1>4, <3>1, <3>2, <3>5, <3>6
  <2> QED
    BY <2>1, <2>2
<1>7. /\ result' \in [kind : {"none", "data", "nil", "empty", "eof", "port",
                             "interrupt", "zstd"},
                     all : BOOLEAN, len : Nat, want : Nat]
      /\ result'.kind = "eof" => result.kind = "eof"
  <2>1. CASE IsError(r.ret)
    <3>1. result' = [kind |-> "zstd", all |-> call.all, len |-> 0, want |-> call.room]
      BY <1>1, <2>1 DEF Raise
    <3> QED
      BY <1>4, <3>1 DEF Calls
  <2>2. CASE ~IsError(r.ret)
    BY <1>1, <2>2 DEF Step, Inv, ReaderOK
  <2> QED
    BY <2>1, <2>2
<1>8. ReaderOK'
  <2>1. reached_eof' \in BOOLEAN
    BY <1>1, Typed DEF FoundEnd
  <2> QED
    BY <1>1, <1>2, <1>3, <1>5, <1>6, <1>7, <2>1 DEF Inv, ReaderOK
<1>9. InputInv'
  BY <1>2, <1>5, <1>6 DEF Inv, InputInv
<1>10. CallInv'
  BY <1>1, <1>6 DEF CallInv
<1>11. ~r.ctx.lost =>
         /\ ~context.lost /\ Follows(r.ctx, source)
         /\ Consumed(r.ctx) = Consumed(context) + r.used
         /\ r.ctx.at <= supplied
         /\ r.ctx.out = context.out + r.out /\ (r.ret = "error" => r.out = 0)
         /\ r.ret = "end" => /\ r.ctx.at = source.len /\ ~r.ctx.hostage
                             /\ r.ctx.out = Total(source)
         /\ r.ctx.at = source.len =>
              \/ r.ctx.hostage
              \/ (reached_eof \/ r.ret = "end") /\ r.ctx.out = Total(source)
         /\ context.at = source.len /\ ~context.hostage =>
              r.ctx.at = source.len /\ ~r.ctx.hostage
  BY <1>2, DecompressCall
<1>12. NoFalseEof'
  BY <1>1, <1>2, <1>7, <1>11 DEF Inv, NoFalseEof
<1>13. SessionInv'
  <2> SUFFICES ASSUME ~r.ctx.lost PROVE SessionInv'
    BY <1>1 DEF SessionInv
  <2>1. /\ Consumed(context) = supplied - fill
        /\ reached_eof /\ ~closed => context.at = source.len /\ ~context.hostage
    BY <1>11 DEF Inv, SessionInv
  <2>2. Consumed(r.ctx) = supplied - (inbuf'.size - inbuf'.pos)
    BY <1>3, <1>4, <1>5, <1>11, <2>1
  <2>3. r.ctx.at = source.len => r.ctx.hostage \/ (reached_eof' /\ r.ctx.out = Total(source))
    BY <1>1, <1>11 DEF FoundEnd
  <2>4. reached_eof' /\ ~closed => r.ctx.at = source.len /\ ~r.ctx.hostage
    BY <1>1, <1>11, <2>1 DEF FoundEnd
  <2> HIDE DEF fill, room
  <2> QED
    BY <1>1, <1>2, <1>11, <2>2, <2>3, <2>4 DEF SessionInv
<1>14. Inv'
  BY <1>2, <1>8, <1>9, <1>10, <1>12, <1>13 DEF Inv
<1>15. Balanced
  <2> SUFFICES ASSUME ~r.ctx.lost PROVE Held' - r.ctx.out = Held - context.out
    BY <1>1 DEF Balanced
  <2> QED
    BY <1>3, <1>4, <1>6, <1>11, Typed DEF Contexts
<1> QED
  BY <1>14, <1>15

LEMMA CloseInv ==
  ASSUME Inv, Close
  PROVE  Inv' /\ Balanced
<1>1. /\ reached_eof' = TRUE /\ closed' = TRUE
      /\ UNCHANGED <<source, supplied, context, readbuf, inbuf, call, result, given, dropped>>
  BY DEF Close
<1>2. ReaderOK' /\ InputInv' /\ CallInv' /\ NoFalseEof'
  BY <1>1 DEF Inv, ReaderOK, InputInv, CallInv, CallOK, NoFalseEof
<1>3. SessionInv'
  BY <1>1 DEF Inv, SessionInv
<1> QED
  BY <1>1, <1>2, <1>3, Typed DEF Inv, Balanced, Held

(* A session that is not lost afterwards had not read a byte. *)
LEMMA ResetInv ==
  ASSUME Inv, Reset
  PROVE  Inv' /\ Balanced
<1>1. /\ context' = NewSession(context.lost \/ context.at > 0)
      /\ UNCHANGED <<source, supplied, readbuf, inbuf, reached_eof, call, result, given,
                     dropped, closed>>
  BY DEF Reset
<1>2. /\ context \in Contexts /\ source.len \in Nat /\ source.len > 0
      /\ source.yield[0] = 0 /\ source.yield \in [0 .. source.len -> Nat]
  BY Typed DEF Inv, IsFrame
<1>3. context' \in Contexts /\ (context'.lost <=> context.lost \/ context.at > 0)
  <2>1. (context.lost \/ context.at > 0) \in BOOLEAN /\ 0 \in 0 .. MaxStall
    BY DCtxAssumption
  <2> QED
    BY <1>1, <2>1 DEF NewSession, Contexts
<1>4. ReaderOK' /\ InputInv' /\ CallInv' /\ NoFalseEof'
  BY <1>1, <1>3 DEF Inv, ReaderOK, InputInv, CallInv, CallOK, NoFalseEof
<1>5. ASSUME ~context.lost, context.at = 0
      PROVE  SessionInv' /\ context'.out = 0 /\ context.out = 0
  <2>1. /\ context'.at = 0 /\ context'.out = 0 /\ ~context'.hostage
    BY <1>1 DEF NewSession
  <2>2. /\ context.out = 0 /\ ~context.hostage
    BY <1>2, <1>5 DEF Inv, SessionInv, Follows, Contexts
  <2>3. Consumed(context') = 0 /\ Consumed(context) = 0
    BY <1>5, <2>1, <2>2 DEF Consumed
  <2>4. Follows(context', source)
    BY <1>2, <2>1 DEF Follows
  <2>5. /\ Consumed(context) = supplied - (inbuf.size - inbuf.pos)
        /\ context.at <= supplied
        /\ reached_eof => closed
    BY <1>2, <1>5 DEF Inv, SessionInv
  <2> QED
    BY <1>1, <1>2, <1>5, <2>1, <2>2, <2>3, <2>4, <2>5 DEF SessionInv
<1>6. context'.lost => SessionInv'
  BY DEF SessionInv
<1>7. ~context'.lost => ~context.lost /\ context.at = 0
  BY <1>2, <1>3 DEF Contexts
<1> QED
  BY <1>1, <1>4, <1>5, <1>6, <1>7, Typed DEF Inv, Balanced, Held

LEMMA NextInv ==
  ASSUME Inv, [Next]_vars
  PROVE  Inv' /\ Balanced
<1>1. ASSUME UNCHANGED vars PROVE Inv' /\ Balanced
  <2>1. Inv'
    BY <1>1 DEF vars, Inv, ReaderOK, InputInv, CallInv, CallOK, SessionInv, NoFalseEof
  <2> QED
    BY <1>1, <2>1 DEF vars, Balanced, Held
<1> QED
  BY <1>1, ReadSomeInv, ReadAllInv, LoopHeadInv, PortGivesInv, PortEndsInv, PortRaisesInv,
     InterruptInv, DecompressInv, SomeDoneInv, AllDoneInv, CloseInv, ResetInv
     DEF Next, Client, Answer

(* What was decoded is in one place. *)
OutputInv == ~context.lost => Held = context.out

(* A frame may grow while it is read: what the inport has had stays as it  *)
(* was, and the end, when it moves, is not reached before or after.        *)
LEMMA FrameGrows ==
  ASSUME Inv, IsFrame(source'), source.avail <= source'.avail,
         \A i \in 0 .. source.len : i <= source.avail => source'.yield[i] = source.yield[i],
         source'.len = source.len \/ (source.avail < source.len /\ source.avail < source'.len),
         result.kind # "eof",
         UNCHANGED <<supplied, context, readbuf, inbuf, reached_eof, call, result, given,
                     dropped, closed>>
  PROVE  Inv'
<1>1. /\ source.avail \in Nat /\ source.len \in Nat /\ source'.avail \in Nat
      /\ source'.len \in Nat
  BY DEF Inv, IsFrame
<1>2. ReaderOK'
  BY <1>1 DEF Inv, ReaderOK
<1>3. InputInv' /\ CallInv' /\ NoFalseEof'
  BY DEF Inv, InputInv, CallInv, NoFalseEof
<1>4. SessionInv'
  <2>1. SUFFICES ASSUME ~context.lost
                 PROVE  /\ Follows(context, source')
                        /\ context.at = source'.len =>
                             context.hostage \/ (reached_eof /\ context.out = Total(source'))
                        /\ reached_eof /\ ~closed =>
                             context.at = source'.len /\ ~context.hostage
    BY DEF Inv, SessionInv
  <2>2. /\ Follows(context, source) /\ context.at <= supplied /\ supplied <= source.avail
        /\ context.at = source.len =>
             context.hostage \/ (reached_eof /\ context.out = Total(source))
        /\ reached_eof /\ ~closed => context.at = source.len /\ ~context.hostage
        /\ context.at \in Nat /\ supplied \in Nat
    BY <1>1, <2>1 DEF Inv, SessionInv, ReaderOK, Contexts
  <2>3. context.at <= source.avail /\ context.at \in 0 .. source.len
    BY <1>1, <2>2 DEF Follows
  <2>4. source'.yield[context.at] = source.yield[context.at]
    BY <2>3
  <2>5. CASE source'.len = source.len
    <3>1. context.at = source.len => Total(source') = Total(source)
      BY <2>4, <2>5 DEF Total
    <3>2. Follows(context, source')
      BY <2>2, <2>4, <2>5, <3>1 DEF Follows
    <3> QED
      BY <2>2, <2>5, <3>1, <3>2
  <2>6. CASE source.avail < source.len /\ source.avail < source'.len
    <3>1. context.at < source.len /\ context.at < source'.len
      BY <1>1, <2>2, <2>3, <2>6
    <3>2. ~context.hostage /\ context.at # source.len /\ context.at # source'.len
      BY <1>1, <2>2, <3>1 DEF Follows
    <3>3. Follows(context, source')
      BY <1>1, <2>2, <2>4, <3>1, <3>2 DEF Follows
    <3> QED
      BY <2>2, <3>2, <3>3
  <2> QED
    BY <2>5, <2>6
<1> QED
  BY <1>2, <1>3, <1>4 DEF Inv

(* A session that is not lost was not lost before. *)
LEMMA LostStays ==
  ASSUME Inv, [Next]_vars
  PROVE  context.lost => context'.lost
<1>1. CASE Decompress
  <2>1. PICK r \in DecompressResults(context, source, inbuf.size - inbuf.pos,
                                     call.room - call.out) : context' = r.ctx
    BY <1>1 DEF Decompress
  <2> QED
    BY <1>1, <2>1, DecompressCall DEF Decompress
<1>2. CASE Reset
  <2>1. context'.lost = (context.lost \/ context.at > 0)
    BY <1>2 DEF Reset, NewSession
  <2> QED
    BY <2>1
<1>3. CASE ~Decompress /\ ~Reset
  <2>1. context' = context
    BY <1>3 DEF Next, Client, Answer, ReadSome, ReadAll, LoopHead, PortGives, PortEnds,
                PortRaises, Interrupt, SomeDone, AllDone, Close, vars
  <2> QED
    BY <2>1
<1> QED
  BY <1>1, <1>2, <1>3

-----------------------------------------------------------------------------
(* The invariant the other theorems rest on. *)
THEOREM InvCorrect == Spec => [](Inv /\ OutputInv /\ source \in Sources)
<1>1. Init => Inv /\ OutputInv /\ source \in Sources
  BY InitInv DEF Init, OutputInv
<1>2. Inv /\ OutputInv /\ source \in Sources /\ [Next]_vars
        => Inv' /\ OutputInv' /\ (source \in Sources)'
  <2> SUFFICES ASSUME Inv, OutputInv, source \in Sources, [Next]_vars
               PROVE  Inv' /\ OutputInv' /\ source' \in Sources
    OBVIOUS
  <2>1. Inv' /\ Balanced /\ (context.lost => context'.lost)
    BY NextInv, LostStays
  <2>2. source' = source
    BY DEF Next, Client, Answer, ReadSome, ReadAll, LoopHead, PortGives, PortEnds,
                PortRaises, Interrupt, Decompress, SomeDone, AllDone, Close, Reset, vars
  <2>3. Held \in Nat /\ context.out \in Nat
    BY Typed DEF Contexts
  <2>4. Held' \in Nat /\ context'.out \in Nat
    <3>1. /\ call' \in Calls /\ given' \in Nat /\ dropped' \in Nat /\ context' \in Contexts
      BY <2>1 DEF Inv, ReaderOK
    <3> QED
      BY <3>1 DEF Held, Calls, Contexts
  <2> QED
    BY <2>1, <2>2, <2>3, <2>4 DEF OutputInv, Balanced
<1> QED
  BY <1>1, <1>2, PTL DEF Spec

(* Every variable keeps its type, and no input position passes its chunk.  *)
THEOREM TypeCorrect == Spec => []TypeOK
<1>1. Inv /\ source \in Sources => TypeOK
  BY DEF Inv, TypeOK
<1> QED
  BY <1>1, InvCorrect, PTL

(* No byte of the inport is lost, doubled or overtaken on its way to the   *)
(* session, for any chunk sizes and any exceptions.                        *)
THEOREM InputConservedCorrect == Spec => []InputConserved
<1>1. Inv => InputConserved
  BY DEF Inv, SessionInv, InputConserved
<1> QED
  BY <1>1, InvCorrect, PTL

(* Decoded bytes are lost with an exception only. *)
THEOREM OutputConservedCorrect == Spec => []OutputConserved
<1>1. OutputInv => OutputConserved
  BY DEF OutputInv, Held, OutputConserved
<1> QED
  BY <1>1, InvCorrect, PTL

(* "unexpected EOF" is raised for a frame that was cut, and no other.      *)
THEOREM NoFalseEofCorrect == Spec => []NoFalseEof
<1>1. Inv => NoFalseEof
  BY DEF Inv
<1> QED
  BY <1>1, InvCorrect, PTL

(* eof means that all decoded data has left the session.                   *)
THEOREM EofHasEverythingCorrect == Spec => []EofHasEverything
<1>1. Inv => EofHasEverything
  BY DEF Inv, SessionInv, EofHasEverything
<1> QED
  BY <1>1, InvCorrect, PTL

-----------------------------------------------------------------------------
(* How a step may end a read. *)
LEMMA StepKeepsEof ==
  ASSUME Inv, [Next]_vars
  PROVE  /\ reached_eof => reached_eof'
         /\ \/ result' = result
            \/ result'.kind \notin {"data", "nil"}
            \/ SomeDone \/ AllDone
<1>1. CASE ReadSome
  <2>1. reached_eof' = reached_eof
    BY <1>1 DEF ReadSome
  <2>2. \/ result' = [kind |-> "empty", all |-> FALSE, len |-> 0, want |-> 0]
        \/ result' = result
    BY <1>1 DEF ReadSome, Step
  <2> QED
    BY <2>1, <2>2
<1>2. CASE ReadAll
  BY <1>2 DEF ReadAll, Step
<1>3. CASE LoopHead \/ PortGives
  BY <1>3 DEF LoopHead, PortGives, Step
<1>4. CASE PortEnds
  <2>1. reached_eof' = reached_eof
    BY <1>4 DEF PortEnds, EndOfInput
  <2>2. result' = result \/ result'.kind = "eof"
    BY <1>4 DEF PortEnds, EndOfInput, Step, Raise
  <2> QED
    BY <2>1, <2>2
<1>5. CASE PortRaises \/ Interrupt
  BY <1>5 DEF PortRaises, Interrupt, Raise
<1>6. CASE Decompress
  <2>1. reached_eof => reached_eof'
    BY <1>6 DEF Decompress
  <2>2. Raise("zstd") \/ \E c : Step(c)
    BY <1>6 DEF Decompress
  <2>3. result' = result \/ result'.kind = "zstd"
    BY <2>2 DEF Step, Raise
  <2> QED
    BY <2>1, <2>3
<1>7. CASE SomeDone \/ AllDone
  BY <1>7 DEF SomeDone, AllDone
<1>8. CASE Close \/ Reset
  BY <1>8 DEF Close, Reset
<1>9. CASE UNCHANGED vars
  BY <1>9 DEF vars
<1> QED
  BY <1>1, <1>2, <1>3, <1>4, <1>5, <1>6, <1>7, <1>8, <1>9 DEF Next, Client, Answer

LEMMA ShortStep ==
  ASSUME Inv, ShortOnlyAtEof, [Next]_vars
  PROVE  ShortOnlyAtEof'
<1>1. CASE SomeDone
  <2>1. /\ result'.len = call.out /\ result'.want = call.room
        /\ reached_eof' = reached_eof
    BY <1>1 DEF SomeDone, Deliver
  <2>2. reached_eof \/ call.out >= call.room
    BY <1>1 DEF SomeDone, Inv, CallInv
  <2>3. call.out \in Nat /\ call.room \in Nat
    BY Typed
  <2> QED
    BY <2>1, <2>2, <2>3 DEF ShortOnlyAtEof
<1>2. CASE AllDone
  <2>1. result' = result \/ result'.all = TRUE
    BY <1>2 DEF AllDone, Deliver, Step
  <2>2. reached_eof' = reached_eof
    BY <1>2 DEF AllDone
  <2> QED
    BY <2>1, <2>2 DEF ShortOnlyAtEof
<1>3. CASE ~SomeDone /\ ~AllDone
  BY <1>3, StepKeepsEof DEF ShortOnlyAtEof
<1> QED
  BY <1>1, <1>2, <1>3

(* read(n) comes back short at the end only. *)
THEOREM ShortOnlyAtEofCorrect == Spec => []ShortOnlyAtEof
<1>1. Init => ShortOnlyAtEof
  BY DEF Init, NoResult, ShortOnlyAtEof
<1>2. Inv /\ ShortOnlyAtEof /\ [Next]_vars => ShortOnlyAtEof'
  BY ShortStep
<1> QED
  BY <1>1, <1>2, InvCorrect, PTL DEF Spec

-----------------------------------------------------------------------------
(* The strings given to read(nil, buf) have no more capacity than a new    *)
(* result string.                                                          *)
SmallStrings == \A capa \in BufferCapas : capa <= Growup

(* Then the result string is as large as the target of the decoding loop.  *)
GrowInv == call.all => call.size = call.capa /\ call.room > 0

LEMMA StepGrow ==
  ASSUME Inv, GrowInv, [Next]_vars, SmallStrings
  PROVE  GrowInv'
<1> USE DecoderAssumption
<1>1. ASSUME NEW c, Step(c), c.all = call.all, c.size = call.size, c.capa = call.capa,
             c.room = call.room
      PROVE  GrowInv'
  BY <1>1 DEF Step, GrowInv
<1>2. call \in Calls
  BY Typed
<1>3. ASSUME NEW kind, Raise(kind) PROVE GrowInv'
  BY <1>3 DEF Raise, GrowInv, Idle
<1>4. ASSUME NEW n, Deliver(n) PROVE GrowInv'
  BY <1>4 DEF Deliver, GrowInv, Idle
<1>5. ASSUME NEW at \in {"head", "port", "ints", "done"}, NEW out \in Nat,
             Step([call EXCEPT !.out = out, !.at = at])
      PROVE  GrowInv'
  BY <1>2, <1>5 DEF Step, GrowInv, Calls
<1>6. ASSUME NEW at \in {"head", "port", "ints", "done"}, Step([call EXCEPT !.at = at])
      PROVE  GrowInv'
  BY <1>2, <1>6 DEF Step, GrowInv, Calls
<1>7. CASE ReadSome
  BY <1>7, <1>2 DEF ReadSome, Step, Entered, Idle, GrowInv
<1>8. CASE ReadAll
  <2>1. PICK capa \in BufferCapas :
          call' = Entered([Idle EXCEPT !.all = TRUE, !.capa = Growup,
                                       !.size = IF capa < Growup THEN Growup ELSE capa],
                          Growup)
    BY <1>8 DEF ReadAll, Step
  <2>2. (IF capa < Growup THEN Growup ELSE capa) = Growup
    BY DEF SmallStrings
  <2>3. call'.size = Growup /\ call'.capa = Growup /\ call'.room = Growup
    BY <2>1, <2>2 DEF Entered, Idle
  <2> QED
    BY <2>3 DEF GrowInv
<1>9. CASE LoopHead
  BY <1>6, <1>9 DEF LoopHead
<1>10. CASE PortGives
  BY <1>6, <1>10 DEF PortGives
<1>11. CASE PortEnds
  BY <1>3, <1>6, <1>11 DEF PortEnds, EndOfInput
<1>12. CASE PortRaises \/ Interrupt
  BY <1>3, <1>12 DEF PortRaises, Interrupt
<1>13. CASE Decompress
  <2>1. PICK r \in DecompressResults(context, source, inbuf.size - inbuf.pos,
                                     call.room - call.out) :
          IF IsError(r.ret) THEN Raise("zstd")
          ELSE Step([call EXCEPT !.out = @ + r.out,
                                 !.at = IF FoundEnd(r.ret) THEN "done" ELSE "head"])
    BY <1>13 DEF Decompress
  <2>2. call.out + r.out \in Nat
    BY <1>2, <1>13, DecompressCall, Typed DEF Decompress
  <2> QED
    BY <1>3, <1>5, <2>1, <2>2
<1>14. CASE SomeDone
  BY <1>4, <1>14 DEF SomeDone
<1>15. CASE AllDone
  <2> DEFINE capa == IF call.size > GrowupLimit THEN call.capa + GrowupLimit
                     ELSE 2 * call.capa
             size == IF call.size < capa THEN capa ELSE call.size
  <2>1. CASE call.out = 0 \/ RoomLeft
    BY <1>4, <1>15, <2>1 DEF AllDone
  <2>2. CASE ~(call.out = 0 \/ RoomLeft)
    <3>1. call' = Entered([call EXCEPT !.len = Joined, !.capa = capa, !.size = size],
                          capa - Joined)
      BY <1>15, <2>2 DEF AllDone, Step
    <3>2. /\ call.size = call.capa /\ call.room > 0 /\ call.len + call.room = call.capa
          /\ call.out <= call.room
      BY <1>15 DEF AllDone, GrowInv, Inv, CallInv, CallOK
    <3>3. capa > call.size /\ capa \in Nat /\ Joined <= call.capa /\ Joined \in Nat
      BY <1>2, <3>2 DEF Joined, Calls
    <3>4. size = capa /\ capa - Joined > 0
      BY <1>2, <3>2, <3>3 DEF Calls
    <3> HIDE DEF capa, size
    <3>5. call'.size = size /\ call'.capa = capa /\ call'.room = capa - Joined
      BY <1>2, <3>1 DEF Entered, Calls
    <3> QED
      BY <3>4, <3>5 DEF GrowInv
  <2> QED
    BY <2>1, <2>2
<1>16. CASE Close \/ Reset
  BY <1>16 DEF Close, Reset, GrowInv
<1>17. CASE UNCHANGED vars
  BY <1>17 DEF vars, GrowInv
<1> QED
  BY <1>7, <1>8, <1>9, <1>10, <1>11, <1>12, <1>13, <1>14, <1>15, <1>16, <1>17
     DEF Next, Client, Answer

(* A read to the end comes to the end when its string is a new or a small  *)
(* one.  A string with room for more ends it early: RoomLeft is then true  *)
(* of a full part.                                                         *)
THEOREM ReadAllReachesEofCorrect ==
  ASSUME SmallStrings
  PROVE  Spec => []ReadAllReachesEof
<1>1. Init => GrowInv /\ ReadAllReachesEof
  BY DEF Init, Idle, NoResult, GrowInv, ReadAllReachesEof
<1>2. Inv /\ GrowInv /\ ReadAllReachesEof /\ [Next]_vars
        => GrowInv' /\ ReadAllReachesEof'
  <2> SUFFICES ASSUME Inv, GrowInv, ReadAllReachesEof, [Next]_vars
               PROVE  ReadAllReachesEof'
    BY StepGrow
  <2>1. CASE AllDone
    <3>1. reached_eof' = reached_eof /\ call.all
      BY <2>1 DEF AllDone
    <3>2. CASE call.out = 0 \/ RoomLeft
      <4>1. call.out < call.room
        BY <3>1, <3>2 DEF RoomLeft, Joined, GrowInv, Inv, ReaderOK, Calls, CallInv, CallOK
      <4>2. reached_eof
        BY <2>1, <4>1 DEF AllDone, Inv, ReaderOK, Calls, CallInv
      <4> QED
        BY <3>1, <4>2 DEF ReadAllReachesEof
    <3>3. CASE ~(call.out = 0 \/ RoomLeft)
      <4>1. result' = result
        BY <2>1, <3>3 DEF AllDone, Step
      <4> QED
        BY <3>1, <4>1 DEF ReadAllReachesEof
    <3> QED
      BY <3>2, <3>3
  <2>2. CASE SomeDone
    <3>1. result'.all = call.all /\ call.all = FALSE
      BY <2>2 DEF SomeDone, Deliver, Inv, ReaderOK, Calls
    <3> QED
      BY <3>1 DEF ReadAllReachesEof
  <2>3. CASE ~SomeDone /\ ~AllDone
    BY <2>3, StepKeepsEof DEF ReadAllReachesEof
  <2> QED
    BY <2>1, <2>2, <2>3
<1> QED
  BY <1>1, <1>2, InvCorrect, PTL DEF Spec

-----------------------------------------------------------------------------
(* A reader on its own: nobody closes or resets the decoder under it, its  *)
(* inport neither fails nor returns an empty string, and read(0) is left   *)
(* out.  Then it pulls and decodes only while the end is not found, each   *)
(* call of libzstd has input and room, and no read fails.                  *)
AloneCall ==
  /\ call.at \in {"head", "port", "ints"} => ~reached_eof
  /\ call.at = "ints" => inbuf.pos < inbuf.size
  /\ call.at # "idle" => IF call.all THEN call.capa > 0 ELSE call.room > 0
  /\ result.kind = "nil" => reached_eof /\ call.len = 0 /\ call.out = 0

AloneInv ==
  /\ Inv /\ Held = context.out /\ ~context.lost /\ ~closed
  /\ readbuf <= inbuf.size
  /\ result.kind \notin {"eof", "zstd"}
  /\ AloneCall

(* What its caller sees of a step: nothing, some bytes, an exception that  *)
(* some bytes went with, or the end when there is no more to come.         *)
Passes ==
  \/ UNCHANGED <<given, dropped>> /\ (result'.kind = "nil" <=> result.kind = "nil")
  \/ /\ result'.kind # "nil" /\ result.kind # "nil"
     /\ \/ given' > given /\ UNCHANGED dropped
        \/ dropped' > dropped /\ UNCHANGED given
  \/ /\ UNCHANGED <<given, dropped>> /\ result'.kind = "nil"
     /\ reached_eof /\ given + dropped = Total(source)

LEMMA InitAlone == Init => AloneInv
<1> SUFFICES ASSUME Init PROVE AloneInv
  OBVIOUS
<1>1. Inv /\ Held = context.out
  BY InitInv
<1>2. /\ ~context.lost /\ ~closed /\ readbuf = 0 /\ inbuf.size = 0
      /\ result.kind = "none" /\ call.at = "idle"
  BY IdleCall DEF Init, NewSession, NoResult
<1> QED
  BY <1>1, <1>2 DEF AloneInv, AloneCall

LEMMA HeldNat == Inv => Held \in Nat /\ context.out \in Nat
  BY Typed DEF Contexts

LEMMA HeldNatNext == Inv' => (Held \in Nat /\ context.out \in Nat)'
  BY HeldNat, PTL

LEMMA AloneHolds ==
  ASSUME AloneInv, Inv', Balanced, ~context'.lost
  PROVE  Held' = context'.out
<1>1. Held' \in Nat /\ context'.out \in Nat
  BY HeldNatNext
<1>2. Held' - context'.out = 0
  BY HeldNat DEF AloneInv, Balanced
<1>3. \A x, y \in Nat : x - y = 0 => x = y
  OBVIOUS
<1> QED
  BY <1>1, <1>2, <1>3

(* A step that goes on with the read. *)
LEMMA AloneGoesOn ==
  ASSUME AloneInv, Inv', Balanced, NEW c, Step(c),
         UNCHANGED <<context, readbuf, inbuf, reached_eof, closed>>,
         c.at \in {"head", "port", "ints"} => ~reached_eof,
         c.at = "ints" => inbuf.pos < inbuf.size,
         c.at # "idle" => IF c.all THEN c.capa > 0 ELSE c.room > 0,
         result.kind = "nil" => c.len = 0 /\ c.out = 0
  PROVE  AloneInv' /\ Passes
<1>1. call' = c /\ UNCHANGED <<result, given, dropped>>
  BY DEF Step
<1>2. Held' = context'.out
  BY AloneHolds DEF AloneInv
<1>3. AloneCall'
  BY <1>1 DEF AloneInv, AloneCall
<1> QED
  BY <1>1, <1>2, <1>3 DEF AloneInv, Passes

(* A step that ends the read and leaves the input alone. *)
LEMMA AloneEnds ==
  ASSUME AloneInv, Inv', Balanced, call' = Idle,
         UNCHANGED <<context, readbuf, inbuf, reached_eof, closed>>,
         result'.kind \notin {"eof", "zstd"}, result.kind = "nil" => result'.kind = "nil",
         result'.kind = "nil" => reached_eof
  PROVE  AloneInv'
<1>1. Held' = context'.out
  BY AloneHolds DEF AloneInv
<1>2. AloneCall'
  BY IdleCall DEF AloneCall
<1> QED
  BY <1>1, <1>2 DEF AloneInv

(* What is delivered empty is the end. *)
LEMMA AloneDelivers ==
  ASSUME AloneInv, Inv', Balanced, call.at = "done", Deliver(call.len + call.out),
         call.len + call.out = 0 => reached_eof,
         UNCHANGED <<source, context, readbuf, inbuf, reached_eof, closed>>
  PROVE  AloneInv' /\ Passes
<1> DEFINE n == call.len + call.out
<1>1. /\ n \in Nat /\ given \in Nat /\ dropped \in Nat /\ Held = given + dropped + n
      /\ call.len \in Nat /\ call.out \in Nat
  <2>1. /\ call.len \in Nat /\ call.out \in Nat /\ given \in Nat /\ dropped \in Nat
    BY Typed DEF AloneInv
  <2> QED
    BY <2>1 DEF Held
<1>2. /\ call' = Idle /\ given' = given + n /\ UNCHANGED dropped
      /\ result'.kind = IF n = 0 THEN "nil" ELSE "data"
  BY DEF Deliver
<1>3. result.kind = "nil" => n = 0
  BY DEF AloneInv, AloneCall
<1>4. result'.kind \in {"nil", "data"} /\ (result'.kind = "nil" => n = 0)
  BY <1>2
<1>5. AloneInv'
  BY <1>2, <1>3, <1>4, AloneEnds
<1>6. CASE n = 0
  <2>1. reached_eof /\ given' = given /\ dropped' = dropped /\ result'.kind = "nil"
    BY <1>1, <1>2, <1>6
  <2>2. context.out = Total(source)
    BY <2>1 DEF AloneInv, Inv, SessionInv
  <2>3. given + dropped = Total(source)
    <3>1. Held = Total(source)
      BY <2>2 DEF AloneInv
    <3> HIDE DEF n
    <3> QED
      BY <1>1, <1>6, <3>1
  <2> QED
    BY <1>5, <2>1, <2>3 DEF Passes
<1>7. CASE n # 0
  <2>1. given' > given /\ dropped' = dropped
    BY <1>1, <1>2, <1>7
  <2>2. result'.kind # "nil" /\ result.kind # "nil"
    BY <1>3, <1>4, <1>7
  <2> QED
    BY <1>5, <2>1, <2>2 DEF Passes
<1> QED
  BY <1>6, <1>7

LEMMA ReadSomeAlone ==
  ASSUME AloneInv, ReadSome, ReadSizes \subseteq Nat \ {0}
  PROVE  AloneInv' /\ Passes
<1>1. Inv' /\ Balanced
  BY ReadSomeInv DEF AloneInv
<1>2. PICK n \in ReadSizes : Step(Entered([Idle EXCEPT !.size = n], n))
  BY DEF ReadSome
<1> DEFINE b == [Idle EXCEPT !.size = n]
<1>3. n \in Nat /\ n > 0
  BY <1>2
<1>4. b \in Calls /\ b.len = 0 /\ b.out = 0 /\ b.all = FALSE
  BY <1>3 DEF Idle, Calls
<1> HIDE DEF b
<1>5. /\ Entered(b, n).out = 0 /\ Entered(b, n).room = n
      /\ Entered(b, n).len = 0 /\ Entered(b, n).all = FALSE
      /\ Entered(b, n).at = IF reached_eof THEN "done" ELSE "head"
  BY <1>3, <1>4, EnteredCall DEF AloneInv
<1>6. UNCHANGED <<context, readbuf, inbuf, reached_eof, closed>>
  BY DEF ReadSome
<1>7. Step(Entered(b, n))
  BY <1>2 DEF b
<1> QED
  BY <1>1, <1>3, <1>5, <1>6, <1>7, AloneGoesOn

LEMMA ReadAllAlone ==
  ASSUME AloneInv, ReadAll
  PROVE  AloneInv' /\ Passes
<1> USE DecoderAssumption
<1>1. Inv' /\ Balanced
  BY ReadAllInv DEF AloneInv
<1>2. PICK capa \in BufferCapas :
        Step(Entered([Idle EXCEPT !.all = TRUE, !.capa = Growup,
                                  !.size = IF capa < Growup THEN Growup ELSE capa],
                     Growup))
  BY DEF ReadAll
<1> DEFINE b == [Idle EXCEPT !.all = TRUE, !.capa = Growup,
                             !.size = IF capa < Growup THEN Growup ELSE capa]
<1>3. b \in Calls /\ b.len = 0 /\ b.out = 0 /\ b.all = TRUE /\ b.capa = Growup
  BY <1>2 DEF Idle, Calls
<1>4. Step(Entered(b, Growup))
  BY <1>2
<1> HIDE DEF b
<1>5. /\ Entered(b, Growup).out = 0 /\ Entered(b, Growup).len = 0
      /\ Entered(b, Growup).all = TRUE /\ Entered(b, Growup).capa = Growup
      /\ Entered(b, Growup).at = IF reached_eof THEN "done" ELSE "head"
  BY <1>3, EnteredCall DEF AloneInv
<1>6. UNCHANGED <<context, readbuf, inbuf, reached_eof, closed>> /\ Growup > 0
  BY DEF ReadAll
<1> QED
  BY <1>1, <1>4, <1>5, <1>6, AloneGoesOn

LEMMA LoopHeadAlone ==
  ASSUME AloneInv, LoopHead
  PROVE  AloneInv' /\ Passes
<1> DEFINE at == IF RoomFull THEN "done" ELSE IF NeedsInput THEN "port" ELSE "ints"
           c  == [call EXCEPT !.at = at]
<1>1. Inv' /\ Balanced
  BY LoopHeadInv DEF AloneInv
<1>2. /\ Step(c) /\ call.at = "head"
      /\ UNCHANGED <<context, readbuf, inbuf, reached_eof, closed>>
  BY DEF LoopHead
<1>3. /\ c.len = call.len /\ c.out = call.out /\ c.all = call.all /\ c.capa = call.capa
      /\ c.room = call.room /\ c.at = at
  BY Typed DEF AloneInv, Calls
<1>4. ~reached_eof /\ result.kind # "nil"
  BY <1>2 DEF AloneInv, AloneCall
<1>5. at = "ints" => inbuf.pos < inbuf.size
  <2>1. at = "ints" => inbuf.pos < readbuf
    BY Typed DEF NeedsInput, AloneInv
  <2> QED
    BY <2>1, Typed DEF AloneInv
<1>6. IF c.all THEN c.capa > 0 ELSE c.room > 0
  BY <1>2, <1>3 DEF AloneInv, AloneCall
<1> HIDE DEF at, c
<1> QED
  BY <1>1, <1>2, <1>3, <1>4, <1>5, <1>6, AloneGoesOn

LEMMA SomeDoneAlone ==
  ASSUME AloneInv, SomeDone
  PROVE  AloneInv' /\ Passes
<1>1. Inv' /\ Balanced
  BY SomeDoneInv DEF AloneInv
<1>2. call.out \in Nat /\ call.len = 0 /\ call.room \in Nat /\ call.room > 0
  BY Typed DEF SomeDone, AloneInv, AloneCall, Inv, CallInv, CallOK
<1>3. reached_eof \/ call.out >= call.room
  BY DEF SomeDone, AloneInv, Inv, CallInv
<1>4. call.len + call.out = call.out
  BY <1>2
<1>5. call.out = 0 => reached_eof
  BY <1>2, <1>3
<1> QED
  BY <1>1, <1>4, <1>5, AloneDelivers DEF SomeDone

LEMMA AllDoneAlone ==
  ASSUME AloneInv, AllDone
  PROVE  AloneInv' /\ Passes
<1> USE DecoderAssumption
<1> DEFINE capa == IF call.size > GrowupLimit THEN call.capa + GrowupLimit ELSE 2 * call.capa
           size == IF call.size < capa THEN capa ELSE call.size
           b == [call EXCEPT !.len = Joined, !.capa = capa, !.size = size]
           c == Entered(b, capa - Joined)
<1>1. Inv' /\ Balanced
  BY AllDoneInv DEF AloneInv
<1>2. /\ call \in Calls /\ call.all = TRUE /\ call.at = "done" /\ call.capa > 0
      /\ call.len + call.room = call.capa /\ call.out <= call.room
      /\ reached_eof \/ call.out >= call.room
      /\ UNCHANGED <<source, context, readbuf, inbuf, reached_eof, closed>>
  BY Typed DEF AllDone, AloneInv, AloneCall, Inv, CallInv, CallOK, Calls
<1>3. CASE call.out = 0 \/ RoomLeft
  <2>1. Deliver(call.len + call.out)
    BY <1>3 DEF AllDone, Joined
  <2>2. call.len + call.out = 0 => reached_eof
    BY <1>2 DEF Calls
  <2> QED
    BY <1>1, <1>2, <2>1, <2>2, AloneDelivers
<1>4. CASE ~(call.out = 0 \/ RoomLeft)
  <2>1. Step(c)
    BY <1>4 DEF AllDone
  <2>2. /\ Joined \in Nat /\ capa \in Nat /\ capa > call.capa /\ Joined <= call.capa
        /\ size \in Nat /\ call.out > 0
    BY <1>2, <1>4 DEF Joined, Calls
  <2>3. b \in Calls /\ b.len = Joined /\ b.all = TRUE /\ b.capa = capa
    <3> HIDE DEF capa, size
    <3> QED
      BY <1>2, <2>2 DEF Calls
  <2>4. capa - Joined \in Nat /\ capa > 0
    BY <1>2, <2>2 DEF Calls
  <2> HIDE DEF b
  <2>5. c.at = IF reached_eof THEN "done" ELSE "head"
    BY <2>3, <2>4, EnteredCall DEF AloneInv
  <2>6. c.all = TRUE /\ c.capa > 0
    <3>1. c.all = b.all /\ c.capa = b.capa
      BY <2>3, <2>4, EnteredCall DEF AloneInv
    <3> HIDE DEF c, capa
    <3> QED
      BY <2>3, <2>4, <3>1
  <2>7. result.kind # "nil"
    BY <2>2 DEF AloneInv, AloneCall
  <2> HIDE DEF c
  <2> QED
    BY <1>1, <1>2, <2>1, <2>5, <2>6, <2>7, AloneGoesOn
<1> QED
  BY <1>3, <1>4

LEMMA InterruptAlone ==
  ASSUME AloneInv, Interrupt
  PROVE  AloneInv' /\ Passes
<1>1. Inv' /\ Balanced
  BY InterruptInv DEF AloneInv
<1>2. /\ call' = Idle /\ given' = given /\ dropped' = dropped + call.len + call.out
      /\ result'.kind = "interrupt"
      /\ UNCHANGED <<context, readbuf, inbuf, reached_eof, closed>>
  BY DEF Interrupt, Raise
<1>3. result.kind # "nil"
  BY DEF Interrupt, AloneInv, AloneCall
<1>4. AloneInv'
  BY <1>1, <1>2, <1>3, AloneEnds
<1>5. dropped' = dropped \/ dropped' > dropped
  BY <1>2, Typed DEF AloneInv
<1> QED
  BY <1>2, <1>3, <1>4, <1>5 DEF Passes

LEMMA PortGivesAlone ==
  ASSUME AloneInv, PortGives, supplied' > supplied
  PROVE  AloneInv' /\ Passes
<1>1. Inv' /\ Balanced
  BY PortGivesInv DEF AloneInv
<1>2. PICK n \in 0 .. ChunkSize :
        /\ supplied' = supplied + n
        /\ readbuf' = n
        /\ inbuf' = [src |-> TRUE, pos |-> 0, size |-> n]
  BY DEF PortGives, Refilled
<1>3. n \in Nat /\ n > 0
  BY <1>2, Typed, DecoderAssumption DEF AloneInv
<1>4. /\ call' = [call EXCEPT !.at = "ints"] /\ call.at = "port"
      /\ UNCHANGED <<context, reached_eof, closed, result, given, dropped>>
  BY DEF PortGives, Step
<1>5. /\ call'.all = call.all /\ call'.capa = call.capa /\ call'.room = call.room
      /\ call'.at = "ints"
  BY <1>4, Typed DEF AloneInv, Calls
<1>6. Held' = context'.out
  BY <1>1, <1>4, AloneHolds DEF AloneInv
<1>7. ~reached_eof /\ result.kind # "nil"
  BY <1>4 DEF AloneInv, AloneCall
<1>8. readbuf' <= inbuf'.size /\ inbuf'.pos < inbuf'.size
  BY <1>2, <1>3
<1>9. AloneCall'
  BY <1>4, <1>5, <1>7, <1>8 DEF AloneInv, AloneCall
<1> QED
  BY <1>1, <1>4, <1>6, <1>7, <1>8, <1>9 DEF AloneInv, Passes

(* The inport of a whole frame is not asked at its end.                    *)
LEMMA PortEndsAlone ==
  ASSUME AloneInv, PortEnds, source.len <= source.avail
  PROVE  FALSE
<1>1. Inv'
  BY PortEndsInv DEF AloneInv
<1>2. ~reached_eof
  BY DEF AloneInv, AloneCall, PortEnds
<1>3. result'.kind = "eof" /\ UNCHANGED <<source, context>>
  BY <1>2 DEF PortEnds, EndOfInput, Raise
<1>4. source.avail < source.len
  BY <1>1, <1>3 DEF AloneInv, Inv, NoFalseEof
<1> QED
  BY <1>4, Typed DEF AloneInv

LEMMA DecompressAlone ==
  ASSUME AloneInv, Decompress
  PROVE  AloneInv' /\ Passes
<1> DEFINE fill == inbuf.size - inbuf.pos
           room == call.room - call.out
<1>1. Inv' /\ Balanced
  BY DecompressInv DEF AloneInv
<1>2. PICK r \in DecompressResults(context, source, fill, room) :
        /\ context' = r.ctx
        /\ inbuf' = [inbuf EXCEPT !.pos = @ + r.used]
        /\ reached_eof' = (reached_eof \/ FoundEnd(r.ret))
        /\ IF IsError(r.ret) THEN Raise("zstd")
           ELSE Step([call EXCEPT !.out = @ + r.out,
                                  !.at = IF FoundEnd(r.ret) THEN "done" ELSE "head"])
  BY DEF Decompress
<1>3. call.at = "ints" /\ UNCHANGED <<readbuf, closed>>
  BY DEF Decompress
<1>4. ~reached_eof /\ result.kind # "nil" /\ inbuf.pos < inbuf.size
  BY <1>3 DEF AloneInv, AloneCall
<1>5. /\ fill \in Nat /\ fill > 0 /\ room \in Nat /\ room > 0
      /\ call \in Calls /\ context \in Contexts /\ IsFrame(source)
  BY <1>3, <1>4, Typed DEF AloneInv, Inv, CallInv, CallOK
<1>6. Follows(context, source) /\ (context.at = source.len => context.hostage)
  BY <1>4 DEF AloneInv, Inv, SessionInv
<1>7. r.ret # "error" /\ ~r.ctx.lost
  <2> HIDE DEF fill, room
  <2> QED
    BY <1>5, <1>6, DecompressOutcome DEF AloneInv
<1>8. /\ call' = [call EXCEPT !.out = @ + r.out,
                              !.at = IF FoundEnd(r.ret) THEN "done" ELSE "head"]
      /\ UNCHANGED <<result, given, dropped>>
  BY <1>2, <1>7 DEF IsError, Step
<1>9. /\ call'.at = IF FoundEnd(r.ret) THEN "done" ELSE "head"
      /\ call'.all = call.all /\ call'.capa = call.capa /\ call'.room = call.room
  BY <1>5, <1>8 DEF Calls
<1>10. Held' = context'.out
  BY <1>1, <1>2, <1>7, AloneHolds
<1>11. inbuf'.size = inbuf.size
  BY <1>2, Typed DEF AloneInv
<1>12. AloneCall'
  <2>1. call'.at = "head" => ~reached_eof'
    <3>1. CASE FoundEnd(r.ret)
      BY <1>9, <3>1
    <3>2. CASE ~FoundEnd(r.ret)
      BY <1>2, <1>4, <3>2
    <3> QED
      BY <3>1, <3>2
  <2>2. call'.at \in {"head", "done"}
    BY <1>9
  <2>3. IF call.all THEN call.capa > 0 ELSE call.room > 0
    BY <1>3 DEF AloneInv, AloneCall
  <2> QED
    BY <1>4, <1>8, <1>9, <2>1, <2>2, <2>3 DEF AloneCall
<1> QED
  BY <1>1, <1>2, <1>3, <1>4, <1>7, <1>8, <1>10, <1>11, <1>12 DEF AloneInv, Passes

(* The steps of such a reader. *)
AloneNext ==
  \/ ReadSome \/ ReadAll \/ LoopHead \/ Decompress \/ SomeDone \/ AllDone \/ Interrupt
  \/ PortGives /\ supplied' > supplied
  \/ PortEnds /\ source.len <= source.avail

LEMMA AloneStep ==
  ASSUME AloneInv, AloneNext, ReadSizes \subseteq Nat \ {0}
  PROVE  AloneInv' /\ Passes
BY ReadSomeAlone, ReadAllAlone, LoopHeadAlone, DecompressAlone, SomeDoneAlone,
   AllDoneAlone, PortGivesAlone, PortEndsAlone, InterruptAlone DEF AloneNext

(* What a reader has got is what the bytes that the inport has give back,  *)
(* at the most.                                                            *)
LEMMA AloneBound ==
  ASSUME AloneInv
  PROVE  /\ context.at \in 0 .. source.len /\ context.at <= source.avail
         /\ given + dropped <= source.yield[context.at]
         /\ given \in Nat /\ dropped \in Nat
<1>1. /\ context.at \in 0 .. source.len /\ context.at <= source.avail
      /\ context.out <= source.yield[context.at]
  BY Typed DEF AloneInv, Inv, SessionInv, Follows, Contexts
<1>2. /\ given \in Nat /\ dropped \in Nat /\ call.len \in Nat /\ call.out \in Nat
  BY Typed DEF AloneInv
<1>3. Held = given + dropped + call.len + call.out /\ Held = context.out
  BY DEF Held, AloneInv
<1>4. source.yield[context.at] \in Nat
  BY <1>1 DEF AloneInv, Inv, IsFrame
<1> QED
  BY <1>1, <1>2, <1>3, <1>4

-----------------------------------------------------------------------------
(***************************************************************************)
(* What Decoder promises one reader holds when reads overlap.  The step of *)
(* a thread that has the lock is a step of Decoder, so that Inv carries    *)
(* over, with the read of that thread as the one in progress.              *)
(***************************************************************************)

(* The threads that come out of rb_thread_check_ints and decode next.      *)
AtInts == {c \in Readers : Reads(c).at = "ints"}

(* Outstanding, by the number of bytes that each read holds. *)
Pieces(f, R) == UNION {{c} \X (1 .. f[c]) : c \in R}
Sizes == [c \in Readers |-> Reads(c).len + Reads(c).out]

(* The reads that wait for the lock are where they may lose it. *)
ParkedInv ==
  /\ active \in Readers /\ parked \in [Readers -> Calls] /\ parked[active] = Idle
  /\ \A c \in Readers : CallOK(parked[c]) /\ parked[c].at \in {"idle", "port", "ints"}

(* One thread at most is in inport.read, and nobody moves the input while  *)
(* it is there.                                                            *)
PortInv ==
  /\ \A c \in Readers : parked[c].at = "port" => inbuf.pos = inbuf.size
  /\ \A c, d \in Readers : Reads(c).at = "port" /\ Reads(d).at = "port" => c = d

(* A thread that will decode without input was let through when there was  *)
(* some: the calls without progress and those that may still come are      *)
(* fewer than the threads.                                                 *)
StallInv ==
  ~misled /\ ~context.lost =>
    /\ readbuf <= inbuf.size
    /\ inbuf.pos = inbuf.size =>
         context.stall + Cardinality(AtInts) < Cardinality(Readers)

SharedInv ==
  Inv /\ ParkedInv /\ PortInv /\ StallInv /\ SharedOutputConserved /\ NoFalseError

-----------------------------------------------------------------------------
LEMMA FinitePieces ==
  ASSUME NEW R, IsFiniteSet(R), NEW f \in [R -> Nat]
  PROVE  IsFiniteSet(Pieces(f, R))
<1> DEFINE S == {{c} \X (1 .. f[c]) : c \in R}
           g == [c \in R |-> {c} \X (1 .. f[c])]
<1>1. g \in Surjection(R, S)
  BY DEF Surjection
<1>2. IsFiniteSet(S)
  BY <1>1, FS_Surjection
<1>3. \A T \in S : IsFiniteSet(T)
  <2>1. SUFFICES ASSUME NEW c \in R PROVE IsFiniteSet({c} \X (1 .. f[c]))
    OBVIOUS
  <2>2. IsFiniteSet({c})
    BY FS_Singleton
  <2>3. f[c] \in Nat
    BY <2>1
  <2>4. IsFiniteSet(1 .. f[c])
    BY <2>3, FS_Interval
  <2> QED
    BY <2>2, <2>4, FS_Product
<1> QED
  BY <1>2, <1>3, FS_UNION DEF Pieces

(* The bytes of one read can be counted apart from those of the others.    *)
LEMMA PiecesSplit ==
  ASSUME NEW R, IsFiniteSet(R), NEW a \in R, NEW f \in [R -> Nat]
  PROVE  /\ Cardinality(Pieces(f, R \ {a})) \in Nat
         /\ Cardinality(Pieces(f, R)) = Cardinality(Pieces(f, R \ {a})) + f[a]
<1> DEFINE O == Pieces(f, R \ {a})
           A == {a} \X (1 .. f[a])
<1>1. IsFiniteSet(Pieces(f, R))
  BY FinitePieces
<1>2. Pieces(f, R) = O \cup A
  BY DEF Pieces
<1>3. O \cap A = {}
  BY DEF Pieces
<1>4. IsFiniteSet(A) /\ Cardinality(A) = f[a]
  <2>1. IsFiniteSet({a}) /\ Cardinality({a}) = 1 /\ f[a] \in Nat
    BY FS_Singleton
  <2>2. IsFiniteSet(1 .. f[a]) /\ Cardinality(1 .. f[a]) = f[a]
    BY <2>1, FS_Interval
  <2>3. IsFiniteSet(A) /\ Cardinality(A) = 1 * f[a]
    BY <2>1, <2>2, FS_Product
  <2> QED
    BY <2>1, <2>3
<1>5. IsFiniteSet(O) /\ Cardinality(O) \in Nat
  BY <1>1, <1>2, FS_Subset, FS_CardinalityType
<1>6. Cardinality(Pieces(f, R)) = Cardinality(O) + Cardinality(A) - Cardinality(O \cap A)
  BY <1>2, <1>4, <1>5, FS_Union
<1>7. Cardinality(O \cap A) = 0
  BY <1>3, FS_EmptySet
<1> QED
  BY <1>4, <1>5, <1>6, <1>7

LEMMA SizesType ==
  ASSUME Inv, ParkedInv
  PROVE  /\ Sizes \in [Readers -> Nat] /\ Sizes[active] = call.len + call.out
         /\ Outstanding = Pieces(Sizes, Readers)
<1>1. ASSUME NEW c \in Readers PROVE Reads(c) \in Calls
  BY Typed DEF ParkedInv, Reads
<1>2. \A c \in Readers : Reads(c).len + Reads(c).out \in Nat
  BY <1>1 DEF Calls
<1>3. Outstanding = Pieces(Sizes, Readers)
  BY DEF Outstanding, Pieces, Sizes
<1> QED
  BY <1>2, <1>3 DEF Sizes, Reads, ParkedInv

(* A step of the thread with the lock moves bytes of its own read only.    *)
LEMMA OutputStep ==
  ASSUME Inv, ParkedInv, SharedOutputConserved, Inv', Balanced,
         context.lost => context'.lost, UNCHANGED <<active, parked>>
  PROVE  SharedOutputConserved'
<1> SUFFICES ASSUME ~context'.lost
             PROVE  given' + dropped' + Cardinality(Outstanding') = context'.out
  BY DEF SharedOutputConserved
<1> DEFINE O == Pieces(Sizes, Readers \ {active})
<1>1. /\ Cardinality(O) \in Nat
      /\ Cardinality(Outstanding) = Cardinality(O) + (call.len + call.out)
  BY SizesType, PiecesSplit, SharedAssumption DEF ParkedInv
<1>2. /\ call'.len \in Nat /\ call'.out \in Nat /\ given' \in Nat /\ dropped' \in Nat
      /\ context' \in Contexts /\ call' \in Calls
  BY DEF Inv, ReaderOK, Calls
<1>3. /\ Sizes' \in [Readers -> Nat] /\ Sizes'[active] = call'.len + call'.out
      /\ Outstanding' = Pieces(Sizes', Readers)
  <2>1. \A c \in Readers : Reads(c)' \in Calls
    BY <1>2 DEF ParkedInv, Reads
  <2>2. \A c \in Readers : (Reads(c).len + Reads(c).out)' \in Nat
    BY <2>1 DEF Calls
  <2>3. Outstanding' = Pieces(Sizes', Readers)
    BY DEF Outstanding, Pieces, Sizes
  <2> QED
    BY <2>2, <2>3 DEF Sizes, Reads, ParkedInv
<1>4. Pieces(Sizes', Readers \ {active}) = O
  <2>1. \A c \in Readers \ {active} : Sizes'[c] = Sizes[c]
    BY DEF Sizes, Reads
  <2> QED
    BY <2>1 DEF Pieces
<1>5. Cardinality(Outstanding') = Cardinality(O) + (call'.len + call'.out)
  <2> HIDE DEF O
  <2>1. Cardinality(Pieces(Sizes', Readers))
          = Cardinality(Pieces(Sizes', Readers \ {active})) + Sizes'[active]
    BY <1>3, PiecesSplit, SharedAssumption DEF ParkedInv
  <2> QED
    BY <1>3, <1>4, <2>1
<1>6. given + dropped + Cardinality(Outstanding) = context.out
  BY DEF SharedOutputConserved
<1> HIDE DEF O
<1> QED
  BY <1>1, <1>2, <1>5, <1>6, Typed DEF Balanced, Held, Contexts

-----------------------------------------------------------------------------
(* The parts of SharedInv that a step of the thread with the lock keeps by *)
(* leaving the other threads alone.                                        *)
LEMMA LockInv ==
  ASSUME Inv, ParkedInv, PortInv, UNCHANGED <<active, parked>>,
         call'.at = "port" => call.at = "port" \/ ~ChunkLocked,
         ChunkLocked => inbuf'.pos = inbuf'.size
  PROVE  ParkedInv' /\ PortInv'
<1>1. ParkedInv'
  BY DEF ParkedInv
<1>2. \A c \in Readers : parked'[c].at = "port" => inbuf'.pos = inbuf'.size
  BY DEF ChunkLocked
<1>3. ASSUME NEW c \in Readers, NEW d \in Readers,
             Reads(c)'.at = "port", Reads(d)'.at = "port"
      PROVE  c = d
  <2>1. CASE Reads(c).at = "port" /\ Reads(d).at = "port"
    BY <2>1 DEF PortInv
  <2>2. CASE call.at # "port" /\ call'.at = "port"
    <3>1. c = active /\ d = active
      BY <1>3, <2>2 DEF ChunkLocked, Reads
    <3> QED
      BY <3>1
  <2> QED
    BY <1>3, <2>1, <2>2 DEF Reads
<1> QED
  BY <1>1, <1>2, <1>3 DEF PortInv

(* How many threads decode next after such a step. *)
LEMMA AtIntsStep ==
  ASSUME ParkedInv, UNCHANGED <<active, parked>>
  PROVE  /\ Cardinality(AtInts) \in Nat /\ Cardinality(AtInts') \in Nat
         /\ call'.at # "ints" \/ call.at = "ints" =>
              Cardinality(AtInts') <= Cardinality(AtInts)
         /\ call'.at # "ints" => Cardinality(AtInts') < Cardinality(Readers)
         /\ call'.at # "ints" /\ call.at = "ints" =>
              Cardinality(AtInts') < Cardinality(AtInts)
<1>1. /\ IsFiniteSet(Readers) /\ AtInts \subseteq Readers /\ AtInts' \subseteq Readers
      /\ active \in Readers
  BY SharedAssumption DEF AtInts, ParkedInv
<1>2. IsFiniteSet(AtInts) /\ IsFiniteSet(AtInts')
  BY <1>1, FS_Subset
<1>3. Cardinality(AtInts) \in Nat /\ Cardinality(AtInts') \in Nat
      /\ Cardinality(Readers) \in Nat
  BY <1>1, <1>2, FS_CardinalityType
<1>4. \A c \in Readers \ {active} : c \in AtInts' <=> c \in AtInts
  BY DEF AtInts, Reads
<1>5. (active \in AtInts <=> call.at = "ints") /\ (active \in AtInts' <=> call'.at = "ints")
  BY <1>1 DEF AtInts, Reads
<1>6. ASSUME call'.at # "ints" \/ call.at = "ints"
      PROVE  Cardinality(AtInts') <= Cardinality(AtInts)
  <2>1. AtInts' \subseteq AtInts
    BY <1>1, <1>4, <1>5, <1>6
  <2> QED
    BY <1>2, <2>1, FS_Subset
<1>7. ASSUME call'.at # "ints" PROVE Cardinality(AtInts') < Cardinality(Readers)
  <2>1. AtInts' \subseteq Readers /\ AtInts' # Readers
    BY <1>1, <1>5, <1>7
  <2>2. Cardinality(AtInts') <= Cardinality(Readers)
        /\ Cardinality(Readers) # Cardinality(AtInts')
    BY <1>1, <2>1, FS_Subset
  <2> QED
    BY <1>3, <2>2
<1>8. ASSUME call'.at # "ints", call.at = "ints"
      PROVE  Cardinality(AtInts') < Cardinality(AtInts)
  <2>1. AtInts' \subseteq AtInts /\ AtInts' # AtInts
    BY <1>1, <1>4, <1>5, <1>8
  <2>2. Cardinality(AtInts') <= Cardinality(AtInts)
        /\ Cardinality(AtInts) # Cardinality(AtInts')
    BY <1>2, <2>1, FS_Subset
  <2> QED
    BY <1>3, <2>2
<1> QED
  BY <1>3, <1>6, <1>7, <1>8

(* A step that decodes nothing and pulls nothing. *)
Quiet ==
  /\ UNCHANGED <<active, parked, inbuf>>
  /\ ~context'.lost => ~context.lost /\ context'.stall <= context.stall
  /\ ~misled' => ~misled /\ (readbuf <= inbuf.size => readbuf' <= inbuf.size)
  /\ call'.at = "port" => call.at = "port" \/ ~ChunkLocked
  /\ call'.at = "ints" =>
       call.at = "ints" \/ (readbuf <= inbuf.size => inbuf.pos < inbuf.size)
  /\ result'.kind = "zstd" => result.kind = "zstd"

LEMMA QuietStep ==
  ASSUME SharedInv, Quiet, Inv', Balanced
  PROVE  SharedInv'
<1>1. Inv /\ ParkedInv /\ PortInv /\ StallInv /\ SharedOutputConserved /\ NoFalseError
  BY DEF SharedInv
<1>2. UNCHANGED <<active, parked, inbuf>>
  BY DEF Quiet
<1>3. ParkedInv' /\ PortInv'
  <2>1. ChunkLocked => inbuf'.pos = inbuf'.size
    BY <1>1, <1>2 DEF PortInv, ChunkLocked
  <2> QED
    BY <1>1, <1>2, <2>1, LockInv DEF Quiet
<1>4. SharedOutputConserved'
  BY <1>1, <1>2, OutputStep DEF Quiet
<1>5. StallInv'
  <2> SUFFICES ASSUME ~misled', ~context'.lost
               PROVE  /\ readbuf' <= inbuf.size
                      /\ inbuf.pos = inbuf.size =>
                           context'.stall + Cardinality(AtInts') < Cardinality(Readers)
    BY <1>2 DEF StallInv
  <2>1. ~misled /\ ~context.lost /\ context'.stall <= context.stall
    BY DEF Quiet
  <2>2. /\ readbuf <= inbuf.size
        /\ inbuf.pos = inbuf.size =>
             context.stall + Cardinality(AtInts) < Cardinality(Readers)
    BY <1>1, <2>1 DEF StallInv
  <2>3. inbuf.pos = inbuf.size => call'.at # "ints" \/ call.at = "ints"
    BY <1>1, <2>2, Typed DEF Quiet
  <2>4. context.stall \in Nat /\ context'.stall \in Nat /\ Cardinality(Readers) \in Nat
    BY <1>1, DCtxAssumption, SharedAssumption, FS_CardinalityType DEF Inv, ReaderOK, Contexts
  <2> QED
    BY <1>1, <1>2, <2>1, <2>2, <2>3, <2>4, AtIntsStep DEF Quiet
<1>6. NoFalseError'
  BY <1>1 DEF Quiet, NoFalseError
<1> QED
  BY <1>3, <1>4, <1>5, <1>6 DEF SharedInv

-----------------------------------------------------------------------------
(* A new chunk is there for every thread; only an empty one misleads.      *)
LEMMA PortGivesShared ==
  ASSUME SharedInv, Runs, PortGives
  PROVE  SharedInv'
<1>1. /\ Inv /\ ParkedInv /\ PortInv /\ StallInv /\ SharedOutputConserved /\ NoFalseError
      /\ UNCHANGED <<active, parked>> /\ call.at = "port"
      /\ misled' = (misled \/ Misleads)
  BY DEF SharedInv, Runs, PortGives
<1>2. PICK n \in 0 .. ChunkSize :
        readbuf' = n /\ inbuf' = [src |-> TRUE, pos |-> 0, size |-> n]
  BY DEF PortGives, Refilled
<1>3. /\ context' = context /\ result' = result
      /\ call'.at = "ints"
  BY Typed, <1>1 DEF PortGives, Step, Calls
<1>4. ~ChunkLocked
  BY <1>1 DEF ChunkLocked, PortInv, ParkedInv, Reads, Idle
<1>5. Inv' /\ Balanced
  BY <1>1, PortGivesInv
<1>6. ParkedInv' /\ PortInv'
  BY <1>1, <1>3, <1>4, LockInv
<1>7. SharedOutputConserved'
  BY <1>1, <1>3, <1>5, OutputStep
<1>8. StallInv'
  <2>1. n = 0 => misled'
    BY <1>1, <1>2 DEF Misleads
  <2>2. n > 0 => inbuf'.pos # inbuf'.size /\ readbuf' <= inbuf'.size
    BY <1>2
  <2>3. n = 0 \/ n > 0
    BY DecoderAssumption
  <2> QED
    BY <2>1, <2>2, <2>3 DEF StallInv
<1>9. NoFalseError'
  BY <1>1, <1>3 DEF NoFalseError
<1> QED
  BY <1>5, <1>6, <1>7, <1>8, <1>9 DEF SharedInv

(* A thread that has input and room makes progress.  One whose input the   *)
(* others took makes none, and was counted before.                         *)
LEMMA DecompressShared ==
  ASSUME SharedInv, Runs, Decompress
  PROVE  SharedInv'
<1>1. /\ Inv /\ ParkedInv /\ PortInv /\ StallInv /\ SharedOutputConserved /\ NoFalseError
      /\ UNCHANGED <<active, parked>> /\ call.at = "ints" /\ readbuf' = readbuf
      /\ misled' = (misled \/ (call.at = "port" /\ Misleads))
  BY DEF SharedInv, Runs, Decompress
<1> DEFINE fill == inbuf.size - inbuf.pos
<1>2. PICK r \in DecompressResults(context, source, fill, call.room - call.out) :
        /\ context' = r.ctx
        /\ inbuf' = [inbuf EXCEPT !.pos = @ + r.used]
        /\ IF IsError(r.ret) THEN Raise("zstd")
           ELSE Step([call EXCEPT !.out = @ + r.out,
                                  !.at = IF FoundEnd(r.ret) THEN "done" ELSE "head"])
  BY DEF Decompress
<1>3. /\ r.used \in 0 .. fill
      /\ ~r.ctx.lost => /\ ~context.lost
                        /\ r.ctx.stall <= context.stall + 1
                        /\ r.ret = "error" => context.stall + 1 >= MaxStall
                        /\ fill > 0 => r.ctx.stall = 0 /\ r.ret # "error"
  BY <1>1, DecompressCall
<1>4. /\ fill \in Nat /\ inbuf.pos \in Nat /\ inbuf.size \in Nat /\ readbuf \in Nat
      /\ inbuf'.pos = inbuf.pos + r.used /\ inbuf'.size = inbuf.size
      /\ fill = 0 <=> inbuf.pos = inbuf.size
  BY <1>1, <1>2, Typed
<1>5. /\ IsError(r.ret) => call' = Idle /\ result'.kind = "zstd"
      /\ ~IsError(r.ret) => call'.at \in {"head", "done"} /\ result' = result
  <2>1. CASE IsError(r.ret)
    BY <1>2, <2>1 DEF Raise
  <2>2. CASE ~IsError(r.ret)
    BY <1>1, <1>2, <2>2, Typed DEF Step, Calls
  <2> QED
    BY <2>1, <2>2
<1>6. call'.at \in {"idle", "head", "done"}
  BY <1>5, IdleCall
<1>7. Inv' /\ Balanced
  BY <1>1, DecompressInv
<1>8. ParkedInv' /\ PortInv'
  <2>1. ChunkLocked => inbuf'.pos = inbuf'.size
    BY <1>1, <1>3, <1>4 DEF ChunkLocked, PortInv
  <2> QED
    BY <1>1, <1>6, <2>1, LockInv
<1>9. SharedOutputConserved'
  <2>1. context.lost => context'.lost
    BY <1>2, <1>3
  <2> QED
    BY <1>1, <1>7, <2>1, OutputStep
<1>10. ASSUME ~r.ctx.lost, ~misled, fill = 0
       PROVE  /\ context.stall + Cardinality(AtInts) < Cardinality(Readers)
              /\ context.stall + 1 < Cardinality(Readers)
              /\ context.stall + 1 + Cardinality(AtInts') < Cardinality(Readers)
  <2>1. context.stall + Cardinality(AtInts) < Cardinality(Readers)
    BY <1>1, <1>3, <1>4, <1>10 DEF StallInv
  <2>2. /\ Cardinality(AtInts) \in Nat /\ Cardinality(AtInts') \in Nat
        /\ Cardinality(AtInts') < Cardinality(AtInts)
    BY <1>1, <1>6, AtIntsStep
  <2>3. context.stall \in Nat /\ Cardinality(Readers) \in Nat
    BY <1>1, DCtxAssumption, SharedAssumption, FS_CardinalityType DEF Inv, ReaderOK, Contexts
  <2> QED
    BY <2>1, <2>2, <2>3
<1>11. StallInv'
  <2> SUFFICES ASSUME ~misled', ~context'.lost
               PROVE  /\ readbuf' <= inbuf'.size
                      /\ inbuf'.pos = inbuf'.size =>
                           context'.stall + Cardinality(AtInts') < Cardinality(Readers)
    BY DEF StallInv
  <2>1. ~misled /\ ~context.lost /\ ~r.ctx.lost
    BY <1>1, <1>2, <1>3
  <2>2. readbuf' <= inbuf'.size
    BY <1>1, <1>4, <2>1 DEF StallInv
  <2>3. /\ Cardinality(AtInts') \in Nat /\ Cardinality(AtInts') < Cardinality(Readers)
        /\ context.stall \in Nat /\ r.ctx.stall \in Nat /\ Cardinality(Readers) \in Nat
    <3>1. Cardinality(AtInts') \in Nat /\ Cardinality(AtInts') < Cardinality(Readers)
      BY <1>1, <1>6, AtIntsStep
    <3>2. context.stall \in Nat /\ r.ctx.stall \in Nat
      BY <1>1, <1>2, <1>7, DCtxAssumption DEF Inv, ReaderOK, Contexts
    <3>3. Cardinality(Readers) \in Nat
      BY SharedAssumption, FS_CardinalityType
    <3> QED
      BY <3>1, <3>2, <3>3
  <2>4. context'.stall + Cardinality(AtInts') < Cardinality(Readers)
    <3> HIDE DEF fill
    <3>1. CASE fill = 0
      BY <1>2, <1>3, <1>10, <2>1, <2>3, <3>1
    <3>2. CASE fill > 0
      BY <1>2, <1>3, <2>1, <2>3, <3>2
    <3> QED
      BY <1>4, <3>1, <3>2
  <2> QED
    BY <2>2, <2>4
<1>12. NoFalseError'
  <2>1. CASE IsError(r.ret)
    <3>1. SUFFICES ASSUME ~misled, Cardinality(Readers) <= MaxStall, ~r.ctx.lost
                   PROVE  FALSE
      BY <1>1, <1>2 DEF NoFalseError
    <3>2. fill = 0 /\ context.stall + 1 >= MaxStall
      <4> HIDE DEF fill
      <4> QED
        BY <1>3, <1>4, <2>1, <3>1 DEF IsError
    <3>3. context.stall + 1 < Cardinality(Readers)
      BY <1>10, <3>1, <3>2
    <3>4. context.stall \in Nat /\ Cardinality(Readers) \in Nat /\ MaxStall \in Nat
      BY <1>1, DCtxAssumption, SharedAssumption, FS_CardinalityType DEF Inv, ReaderOK, Contexts
    <3> QED
      BY <3>1, <3>2, <3>3, <3>4
  <2>2. CASE ~IsError(r.ret)
    <3>1. context.lost => context'.lost
      BY <1>2, <1>3
    <3> QED
      BY <1>1, <1>5, <2>2, <3>1 DEF NoFalseError
  <2> QED
    BY <2>1, <2>2
<1> QED
  BY <1>7, <1>8, <1>9, <1>11, <1>12 DEF SharedInv

-----------------------------------------------------------------------------
(* The other steps of a thread decode nothing and pull nothing. *)
LEMMA LoopHeadQuiet ==
  ASSUME SharedInv, Runs, LoopHead
  PROVE  Quiet
<1>1. /\ call.at = "head" /\ UNCHANGED <<active, parked, inbuf, context, readbuf, result>>
      /\ call' = [call EXCEPT !.at = IF RoomFull THEN "done"
                                     ELSE IF NeedsInput THEN "port" ELSE "ints"]
      /\ misled' = (misled \/ (call.at = "port" /\ Misleads))
      /\ Fetches => ~ChunkLocked
  BY DEF Runs, LoopHead, Step
<1>2. call'.at = IF RoomFull THEN "done" ELSE IF NeedsInput THEN "port" ELSE "ints"
  BY <1>1, Typed DEF SharedInv, Calls
<1>3. call'.at = "port" => ~ChunkLocked
  BY <1>1, <1>2 DEF Fetches
<1>4. call'.at = "ints" => (readbuf <= inbuf.size => inbuf.pos < inbuf.size)
  BY <1>2, Typed DEF SharedInv, NeedsInput
<1>5. ~misled' => ~misled
  BY <1>1
<1>6. context.stall <= context.stall
  BY Typed, DCtxAssumption DEF SharedInv, Contexts
<1> QED
  BY <1>1, <1>3, <1>4, <1>5, <1>6 DEF Quiet

LEMMA PortQuiet ==
  ASSUME SharedInv, Runs, PortEnds \/ PortRaises
  PROVE  Quiet
<1>1. /\ UNCHANGED <<active, parked, inbuf, context>> /\ call.at = "port"
      /\ misled' = (misled \/ (call.at = "port" /\ Misleads))
  BY DEF Runs, PortEnds, PortRaises
<1>2. readbuf' \in {0, readbuf} \cup 0 .. ChunkSize
  BY DEF PortEnds, PortRaises
<1>3. ~misled' => ~misled /\ readbuf' <= inbuf.size
  <2>1. readbuf' \in Nat /\ inbuf.size \in Nat
    BY <1>2, Typed, DecoderAssumption DEF SharedInv
  <2>2. ~misled' => ~misled /\ ~Misleads
    BY <1>1, Zenon
  <2>3. ~Misleads => ~(readbuf' > inbuf.size)
    BY <1>1, Zenon DEF Misleads
  <2>4. ~(readbuf' > inbuf.size) => readbuf' <= inbuf.size
    BY <2>1
  <2> QED
    BY <2>2, <2>3, <2>4, Zenon
<1>4. call'.at \in {"idle", "done"} /\ (result' = result \/ result'.kind # "zstd")
  BY Typed, IdleCall DEF SharedInv, PortEnds, PortRaises, EndOfInput, Step, Raise, Calls
<1>5. context.stall <= context.stall
  BY Typed, DCtxAssumption DEF SharedInv, Contexts
<1> QED
  BY <1>1, <1>3, <1>4, <1>5 DEF Quiet

(* Steps that leave the input alone.                                       *)
LEMMA StillQuiet ==
  ASSUME SharedInv, UNCHANGED <<active, parked, inbuf, context, readbuf>>,
         ~misled' => ~misled,
         call' = call \/ call'.at \notin {"port", "ints"},
         result' = result \/ result'.kind # "zstd"
  PROVE  Quiet
<1>1. context.stall <= context.stall
  BY Typed, DCtxAssumption DEF SharedInv, Contexts
<1> QED
  BY <1>1 DEF Quiet

LEMMA EndsQuiet ==
  ASSUME SharedInv, Runs, Interrupt \/ SomeDone \/ AllDone
  PROVE  Quiet
<1>1. /\ UNCHANGED <<active, parked, inbuf, context, readbuf>> /\ call.at # "port"
      /\ misled' = (misled \/ (call.at = "port" /\ Misleads))
  BY DEF Runs, Interrupt, SomeDone, AllDone
<1>2. call'.at \in {"idle", "head", "done"} /\ (result' = result \/ result'.kind # "zstd")
  <2>1. CASE Interrupt
    BY <2>1, IdleCall DEF Interrupt, Raise
  <2>2. CASE SomeDone
    BY <2>2, IdleCall DEF SomeDone, Deliver
  <2>3. CASE AllDone
    <3>1. (\E n : Deliver(n)) \/ (\E c, n : Step(Entered(c, n)) /\ c \in Calls)
      <4> DEFINE capa == IF call.size > GrowupLimit THEN call.capa + GrowupLimit
                         ELSE 2 * call.capa
                 size == IF call.size < capa THEN capa ELSE call.size
                 c == [call EXCEPT !.len = Joined, !.capa = capa, !.size = size]
      <4>1. Deliver(Joined) \/ Step(Entered(c, capa - Joined))
        BY <2>3 DEF AllDone
      <4>2. /\ call \in Calls /\ call.size \in Nat /\ call.capa \in Nat /\ call.len \in Nat
            /\ call.out \in Nat
        BY Typed DEF SharedInv, Calls
      <4>3. Joined \in Nat /\ capa \in Nat /\ size \in Nat
        BY <4>2, DecoderAssumption DEF Joined
      <4>4. c \in Calls
        <5> HIDE DEF capa, size
        <5> QED
          BY <4>2, <4>3 DEF Calls
      <4> QED
        BY <4>1, <4>4
    <3>2. CASE \E n : Deliver(n)
      BY <3>2, IdleCall DEF Deliver
    <3>3. CASE \E c, n : Step(Entered(c, n)) /\ c \in Calls
      BY <3>3 DEF Step, Entered, Calls
    <3> QED
      BY <3>1, <3>2, <3>3
  <2> QED
    BY <2>1, <2>2, <2>3
<1>3. ~misled' => ~misled
  BY <1>1
<1> QED
  BY <1>1, <1>2, <1>3, StillQuiet

LEMMA RefusedQuiet ==
  ASSUME SharedInv, FetchRefused
  PROVE  Quiet
BY IdleCall, StillQuiet DEF FetchRefused, Raise

LEMMA RequestsQuiet ==
  ASSUME SharedInv, Requests
  PROVE  Quiet
<1>1. UNCHANGED <<active, parked, misled>>
  BY DEF Requests
<1>2. CASE ReadSome
  <2>1. /\ UNCHANGED <<inbuf, context, readbuf>>
        /\ call' = call \/ \E n : call' = Entered([Idle EXCEPT !.size = n], n)
        /\ result' = result \/ result'.kind = "empty"
    BY <1>2 DEF ReadSome, Step
  <2>2. call' = call \/ call'.at \in {"head", "done"}
    BY <2>1 DEF Entered, Idle
  <2> QED
    BY <1>1, <2>1, <2>2, StillQuiet
<1>3. CASE ReadAll
  <2>1. UNCHANGED <<inbuf, context, readbuf, result>>
    BY <1>3 DEF ReadAll, Step
  <2>2. call'.at \in {"head", "done"}
    BY <1>3 DEF ReadAll, Step, Entered, Idle
  <2> QED
    BY <1>1, <2>1, <2>2, StillQuiet
<1>4. CASE Close
  BY <1>1, <1>4, StillQuiet DEF Close
<1>5. CASE Reset
  <2>1. /\ UNCHANGED <<inbuf, readbuf, call, result>>
        /\ context' = NewSession(context.lost \/ context.at > 0)
    BY <1>5 DEF Reset
  <2>2. context'.stall = 0 /\ (context.lost => context'.lost)
    BY <2>1 DEF NewSession
  <2>3. context'.stall <= context.stall
    BY <2>2, Typed, DCtxAssumption DEF SharedInv, Contexts
  <2> QED
    BY <1>1, <2>1, <2>2, <2>3 DEF Quiet
<1> QED
  BY <1>2, <1>3, <1>4, <1>5 DEF Requests, Client

-----------------------------------------------------------------------------
(* A thread that gets the lock goes on with its read as it left it, and    *)
(* with the input as it finds it.                                          *)
LEMMA SwitchShared ==
  ASSUME SharedInv, NEW c \in Readers, Switch(c)
  PROVE  SharedInv'
<1>1. Inv /\ ParkedInv /\ PortInv /\ StallInv /\ SharedOutputConserved /\ NoFalseError
  BY DEF SharedInv
<1>2. /\ c # active /\ call.at \in {"idle", "ints", "port"}
      /\ active' = c /\ parked' = [parked EXCEPT ![active] = call, ![c] = Idle]
      /\ call' = parked[c]
      /\ UNCHANGED <<source, supplied, context, readbuf, inbuf, reached_eof, result, given,
                     dropped, closed, misled>>
  BY DEF Switch, SwitchPoints, InputOnReturn, OutputOnReturn
<1>3. /\ active \in Readers /\ parked \in [Readers -> Calls] /\ parked[active] = Idle
      /\ call \in Calls /\ CallOK(call)
      /\ CallOK(parked[c]) /\ parked[c].at \in {"idle", "port", "ints"}
  BY <1>1, Typed DEF ParkedInv, Inv, CallInv
<1>4. \A d \in Readers : parked'[d] = IF d = c THEN Idle ELSE IF d = active THEN call
                                      ELSE parked[d]
  BY <1>2, <1>3
<1>5. \A d \in Readers : Reads(d)' = Reads(d)
  BY <1>2, <1>3, <1>4 DEF Reads
<1>6. Inv'
  <2>1. ReaderOK'
    BY <1>1, <1>2, <1>3 DEF Inv, ReaderOK
  <2>2. call'.at = "port" => inbuf.pos = inbuf.size
    BY <1>1, <1>2 DEF PortInv
  <2>3. call'.at # "done" /\ CallOK(call')
    BY <1>2, <1>3
  <2> QED
    BY <1>1, <1>2, <2>1, <2>2, <2>3, QuietInv
<1>7. ParkedInv'
  <2>1. parked' \in [Readers -> Calls]
    BY <1>2, <1>3, IdleCall
  <2>2. \A d \in Readers : CallOK(parked'[d]) /\ parked'[d].at \in {"idle", "port", "ints"}
    BY <1>1, <1>2, <1>3, <1>4, IdleCall DEF ParkedInv
  <2> QED
    BY <1>2, <1>4, <2>1, <2>2 DEF ParkedInv
<1>8. PortInv'
  <2>1. \A d \in Readers : parked'[d].at = "port" => inbuf'.pos = inbuf'.size
    BY <1>1, <1>2, <1>4, IdleCall DEF PortInv, Inv, InputInv
  <2>2. \A d, e \in Readers : Reads(d)'.at = "port" /\ Reads(e)'.at = "port" => d = e
    BY <1>1, <1>5 DEF PortInv
  <2> QED
    BY <2>1, <2>2 DEF PortInv
<1>9. AtInts' = AtInts
  BY <1>5 DEF AtInts
<1>10. StallInv' /\ NoFalseError'
  BY <1>1, <1>2, <1>9 DEF StallInv, NoFalseError
<1>11. Outstanding' = Outstanding
  BY <1>5 DEF Outstanding
<1>12. SharedOutputConserved'
  BY <1>1, <1>2, <1>11 DEF SharedOutputConserved
<1> QED
  BY <1>6, <1>7, <1>8, <1>10, <1>12 DEF SharedInv

-----------------------------------------------------------------------------
LEMMA SharedInitInv == SharedInit => SharedInv
<1> SUFFICES ASSUME SharedInit PROVE SharedInv
  OBVIOUS
<1>1. /\ Init /\ active \in Readers /\ parked = [c \in Readers |-> Idle] /\ misled = FALSE
  BY DEF SharedInit
<1>2. Inv /\ Held = context.out /\ call = Idle /\ readbuf = 0 /\ inbuf.size = 0
      /\ context.stall = 0 /\ result.kind = "none"
      /\ given = 0 /\ dropped = 0 /\ context.out = 0
  BY <1>1, InitInv DEF Init, NewSession, NoResult
<1>3. \A c \in Readers : parked[c] = Idle /\ Reads(c) = Idle
  BY <1>1, <1>2 DEF Reads
<1>4. ParkedInv /\ PortInv
  BY <1>1, <1>3, IdleCall DEF ParkedInv, PortInv
<1>5. StallInv
  <2>1. AtInts = {}
    BY <1>3, IdleCall DEF AtInts
  <2>2. Cardinality(AtInts) = 0
    BY <2>1, FS_EmptySet
  <2>3. Cardinality(Readers) \in Nat /\ Cardinality(Readers) # 0
    BY SharedAssumption, FS_EmptySet, FS_CardinalityType
  <2> QED
    BY <1>2, <2>2, <2>3 DEF StallInv
<1>6. SharedOutputConserved
  <2>1. \A c \in Readers : Reads(c).len + Reads(c).out = 0
    BY <1>3, IdleCall
  <2>2. Outstanding = {}
    BY <2>1 DEF Outstanding
  <2>3. Cardinality(Outstanding) = 0
    BY <2>2, FS_EmptySet
  <2> QED
    BY <1>2, <2>3 DEF SharedOutputConserved
<1>7. NoFalseError
  BY <1>2 DEF NoFalseError
<1> QED
  BY <1>2, <1>4, <1>5, <1>6, <1>7 DEF SharedInv

LEMMA SharedNextInv ==
  ASSUME SharedInv, [SharedNext]_sharedVars
  PROVE  SharedInv'
<1>1. Inv
  BY DEF SharedInv
<1>2. CASE Runs
  <2>1. Answer /\ [Next]_vars
    BY <1>2 DEF Runs, Next
  <2>2. Inv' /\ Balanced
    BY <1>1, <2>1, NextInv
  <2>3. Quiet => SharedInv'
    BY <2>2, QuietStep
  <2> QED
    BY <1>2, <2>1, <2>3, PortGivesShared, DecompressShared, LoopHeadQuiet, PortQuiet, EndsQuiet
       DEF Answer
<1>3. CASE FetchRefused
  <2>1. Inv' /\ Balanced
    BY <1>1, <1>3, Typed, RaiseInv DEF FetchRefused
  <2> QED
    BY <1>3, <2>1, RefusedQuiet, QuietStep
<1>4. CASE Requests
  <2>1. Inv' /\ Balanced
    BY <1>1, <1>4, NextInv DEF Requests, Next
  <2> QED
    BY <1>4, <2>1, RequestsQuiet, QuietStep
<1>5. CASE \E c \in Readers : Switch(c)
  BY <1>5, SwitchShared
<1>6. CASE UNCHANGED sharedVars
  <2>1. UNCHANGED <<vars, active, parked, misled>>
    BY <1>6 DEF sharedVars
  <2>2. Inv' /\ Balanced
    BY <1>1, <2>1, NextInv
  <2>3. UNCHANGED <<active, parked, misled, inbuf, context, readbuf, call, result>>
    BY <2>1 DEF vars
  <2> QED
    BY <2>2, <2>3, StillQuiet, QuietStep
<1> QED
  BY <1>2, <1>3, <1>4, <1>5, <1>6 DEF SharedNext

THEOREM SharedCorrect == SharedSpec => []SharedInv
<1>1. SharedInv /\ [SharedNext]_sharedVars => SharedInv'
  BY SharedNextInv
<1> QED
  BY SharedInitInv, <1>1, PTL DEF SharedSpec

(* Every byte of the inport reaches the session once and in order, also    *)
(* when threads take over from each other between dec_read_fetch and       *)
(* ZSTD_decompressStream.                                                  *)
THEOREM SharedInputConservedCorrect == SharedSpec => []InputConserved
<1>1. SharedInv => InputConserved
  BY DEF SharedInv, Inv, SessionInv, InputConserved
<1> QED
  BY <1>1, SharedCorrect, PTL

(* Every decoded byte goes to one read of one thread, for any number of    *)
(* threads.                                                                *)
THEOREM SharedOutputConservedCorrect == SharedSpec => []SharedOutputConserved
<1>1. SharedInv => SharedOutputConserved
  BY DEF SharedInv
<1> QED
  BY <1>1, SharedCorrect, PTL

(* "unexpected EOF" is raised for a frame that was cut, and no other, also *)
(* by a thread that asks the inport for what another has got already.      *)
THEOREM SharedNoFalseEofCorrect == SharedSpec => []NoFalseEof
<1>1. SharedInv => NoFalseEof
  BY DEF SharedInv, Inv
<1> QED
  BY <1>1, SharedCorrect, PTL

(* Threads that take the input from each other do not make libzstd give    *)
(* up, as long as they are no more than the calls it accepts without       *)
(* progress.                                                               *)
THEOREM NoFalseErrorCorrect == SharedSpec => []NoFalseError
<1>1. SharedInv => NoFalseError
  BY DEF SharedInv
<1> QED
  BY <1>1, SharedCorrect, PTL

(* The thread that finds the end does not find it early, whatever the      *)
(* others have decoded: no decoded data is left in the session then.       *)
THEOREM SharedEofHasEverythingCorrect == SharedSpec => []EofHasEverything
<1>1. SharedInv => EofHasEverything
  BY DEF SharedInv, Inv, SessionInv, EofHasEverything
<1> QED
  BY <1>1, SharedCorrect, PTL

(* Nor does a read come back short because another thread has taken what   *)
(* it waited for: it goes on until it is full or at the end.               *)
THEOREM SharedShortOnlyAtEofCorrect == SharedSpec => []ShortOnlyAtEof
<1>1. SharedInit => ShortOnlyAtEof
  BY DEF SharedInit, Init, NoResult, ShortOnlyAtEof
<1>2. SharedInv /\ ShortOnlyAtEof /\ [SharedNext]_sharedVars => ShortOnlyAtEof'
  <2> SUFFICES ASSUME SharedInv, ShortOnlyAtEof, [SharedNext]_sharedVars
               PROVE  ShortOnlyAtEof'
    OBVIOUS
  <2>1. CASE Runs \/ Requests \/ UNCHANGED sharedVars
    <3>1. [Next]_vars
      BY <2>1 DEF Runs, Requests, Next, sharedVars
    <3> QED
      BY <3>1, ShortStep DEF SharedInv
  <2>2. CASE FetchRefused
    BY <2>2 DEF FetchRefused, Raise, ShortOnlyAtEof
  <2>3. CASE \E c \in Readers : Switch(c)
    <3>1. UNCHANGED <<result, reached_eof>>
      BY <2>3 DEF Switch
    <3> QED
      BY <3>1 DEF ShortOnlyAtEof
  <2> QED
    BY <2>1, <2>2, <2>3 DEF SharedNext
<1> QED
  BY <1>1, <1>2, SharedCorrect, PTL DEF SharedSpec
=============================================================================
