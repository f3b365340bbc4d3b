------------------------------ MODULE Encoder ------------------------------
(***************************************************************************)
(* Zstd::Encoder of ext/extzstd_stream.c on an initialized object: write,  *)
(* sync, close, eof and reset.                                             *)
(*                                                                         *)
(* The C code holds Ruby's global lock, so a method runs without a break   *)
(* except while the outport's << is called (AUX_FUNCALL).  There the       *)
(* outport may run other threads, call the encoder again or raise.  Each   *)
(* action below is the code from one such point to the next.               *)
(*                                                                         *)
(* A compressed byte is named by its place in the output of libzstd, so a  *)
(* chunk is an interval lo .. hi-1 and the outport holds the stream when   *)
(* it takes the chunks without a gap and in order.                         *)
(***************************************************************************)
EXTENDS ZstdCStream

CONSTANTS
  Callers,     (* threads, and nested calls of one thread, that use the encoder *)
  Sizes,       (* lengths of the strings given to write                    *)
  Pledges,     (* arguments of reset, Unknown for nil                      *)
  AtomicPort,  (* the outport takes a chunk before any other caller runs   *)
  MaxMade      (* bound: no new call once this many bytes are made         *)

ASSUME EncoderAssumption ==
  /\ Sizes \subseteq Nat \ {0}
  /\ Pledges \subseteq Nat \cup {Unknown}
  /\ AtomicPort \in BOOLEAN
  /\ MaxMade \in Nat

VARIABLES
  context,      (* the ZSTD_CStream                                        *)
  destbuf,      (* capacity, frozen flag and content of the chunk string   *)
  reached_eof,
  call,         (* what each caller is doing                               *)
  made,         (* bytes libzstd has returned so far                       *)
  port,         (* bytes taken by the outport and whether none is missing  *)
  spoiled,      (* a chunk was refused, or a started frame was reset       *)
  late          (* source was written to an encoder that is at its eof     *)

vars == <<context, destbuf, reached_eof, call, made, port, spoiled, late>>

Idle == [op |-> "none", at |-> "none", rest |-> 0]
Calls == {Idle} \cup [op : {"write", "sync", "close"}, at : {"port", "taken"}, rest : Nat]

Chunks ==
  {b \in [capa : Nat, frozen : BOOLEAN, lo : Nat, hi : Nat] : b.lo <= b.hi}

Waiting(c) == call[c].at = "port"
Quiet == \A c \in Callers : call[c] = Idle

(* With an atomic port nobody runs while a chunk is on its way to it. *)
MayRun(c) == AtomicPort => \A d \in Callers \ {c} : ~Waiting(d)

(* Faulty variants of the operators below, which the properties must catch. *)
RecycledAsIs(capa) ==
  [capa   |-> IF destbuf.capa = 0 /\ made = 0 THEN capa ELSE destbuf.capa,
   frozen |-> FALSE, lo |-> made, hi |-> made]
Skips(n, used) == n - used - 1
Unchecked(r) == FALSE
AfterTheLoop(rest) == IF rest > 0 THEN "taken" ELSE "port"

Failed(r) == r.err                     (* extzstd_check_error *)
SourceLeft(n, used) == n - used        (* input.size - input.pos *)

(* << is called with each chunk, whatever source is left. *)
Handed(rest) == "port"

(* aux_str_buf_recycle: a string that is missing or frozen is replaced, and *)
(* any other is emptied and grown, never shrunk.                           *)
Recycled(capa) ==
  [capa   |-> IF destbuf.frozen \/ destbuf.capa < capa THEN capa ELSE destbuf.capa,
   frozen |-> FALSE, lo |-> made, hi |-> made]

(* The code between a libzstd call with result r and the call of <<: an    *)
(* error is raised before the string gets its new length.                  *)
HandOver(c, op, buf, r, rest) ==
  /\ context' = r.ctx
  /\ made' = made + r.out
  /\ destbuf' = [buf EXCEPT !.hi = made + r.out]
  /\ call' = [call EXCEPT ![c] =
                IF Failed(r) THEN Idle
                ELSE [op |-> op, at |-> Handed(rest), rest |-> rest]]

-----------------------------------------------------------------------------
Init ==
  /\ context = Fresh(Unknown)
  /\ destbuf = [capa |-> 0, frozen |-> FALSE, lo |-> 0, hi |-> 0]
  /\ reached_eof = FALSE
  /\ call = [c \in Callers |-> Idle]
  /\ made = 0
  /\ port = [taken |-> 0, whole |-> TRUE]
  /\ spoiled = FALSE
  /\ late = FALSE

(* One turn of enc_write's loop with n source bytes left. *)
Compress(c, n) ==
  /\ LET buf == Recycled(2 * OutSize)
     IN  \E r \in CompressResults(context, n, buf.capa) :
           HandOver(c, "write", buf, r, SourceLeft(n, r.used))
  /\ late' = (late \/ reached_eof \/ \E d \in Callers : call[d].op = "close")
  /\ UNCHANGED <<reached_eof, port, spoiled>>

Begin(c) == call[c] = Idle /\ MayRun(c) /\ made < MaxMade

Write(c) == \E n \in Sizes : Begin(c) /\ Compress(c, n)

Sync(c) ==
  /\ Begin(c)
  /\ LET buf == Recycled(OutSize)
     IN  \E r \in FlushResults(context, buf.capa) : HandOver(c, "sync", buf, r, 0)
  /\ UNCHANGED <<reached_eof, port, spoiled, late>>

Close(c) ==
  /\ Begin(c)
  /\ LET buf == Recycled(OutSize)
     IN  \E r \in EndResults(context, buf.capa) : HandOver(c, "close", buf, r, 0)
  /\ UNCHANGED <<reached_eof, port, spoiled, late>>

(* reset drops the session before it looks at its argument, so an argument *)
(* that NUM2ULL refuses leaves what reset(nil) leaves.  reached_eof stays. *)
Reset(c) ==
  /\ Begin(c)
  /\ \E pledge \in Pledges : context' = Fresh(pledge)
  /\ spoiled' = (spoiled \/ InFrame(context))
  /\ UNCHANGED <<destbuf, reached_eof, call, made, port, late>>

-----------------------------------------------------------------------------
(* The outport appends what destbuf holds now.  It may keep the string and *)
(* freeze it, or copy it, which leaves it the capacity of its content.     *)
PortTakes(c) ==
  /\ Waiting(c)
  /\ MayRun(c)
  /\ port' = [taken |-> IF destbuf.lo = port.taken THEN destbuf.hi ELSE port.taken,
              whole |-> port.whole /\ destbuf.lo = port.taken]
  /\ \E f \in BOOLEAN, capa \in {destbuf.capa, destbuf.hi - destbuf.lo} :
       destbuf' = [destbuf EXCEPT !.frozen = f, !.capa = capa]
  /\ call' = [call EXCEPT ![c].at = "taken"]
  /\ UNCHANGED <<context, reached_eof, made, spoiled, late>>

(* << returned and enc_write has source left. *)
Resume(c) ==
  /\ call[c].at = "taken" /\ call[c].rest > 0
  /\ MayRun(c)
  /\ Compress(c, call[c].rest)

(* << returned and the method returns. *)
Return(c) ==
  /\ call[c].at = "taken" /\ call[c].rest = 0
  /\ MayRun(c)
  /\ reached_eof' = (reached_eof \/ call[c].op = "close")
  /\ call' = [call EXCEPT ![c] = Idle]
  /\ UNCHANGED <<context, destbuf, made, port, spoiled, late>>

(* << raised, or an exception of another thread arrived in it.  The source *)
(* that is left is forgotten, and so is a chunk the outport did not take.  *)
PortRaises(c) ==
  /\ call[c] # Idle
  /\ MayRun(c)
  /\ call' = [call EXCEPT ![c] = Idle]
  /\ spoiled' = (spoiled \/ Waiting(c))
  /\ UNCHANGED <<context, destbuf, reached_eof, made, port, late>>

-----------------------------------------------------------------------------
Client(c) == Write(c) \/ Sync(c) \/ Close(c) \/ Reset(c)
Answer(c) == PortTakes(c) \/ Resume(c) \/ Return(c) \/ PortRaises(c)
Next == \E c \in Callers : Client(c) \/ Answer(c)

Spec == Init /\ [][Next]_vars

(* The outport answers every << it is given, and Ruby hands its lock to    *)
(* waiting threads in the order of their arrival.                          *)
Fairness == \A c \in Callers : SF_vars(Answer(c))
FairSpec == Spec /\ Fairness
-----------------------------------------------------------------------------
TypeOK ==
  /\ context \in Contexts
  /\ destbuf \in Chunks
  /\ reached_eof \in BOOLEAN
  /\ call \in [Callers -> Calls]
  /\ made \in Nat
  /\ port \in [taken : Nat, whole : BOOLEAN]
  /\ spoiled \in BOOLEAN
  /\ late \in BOOLEAN

(* sync and close call libzstd once and ignore the count of bytes it says  *)
(* are left.  All the same nothing is left inside: one chunk string of     *)
(* OutSize bytes takes the rest of the block a write left over, the last   *)
(* block, and the checksum.                                                *)
FlushDrains ==
  [][\A c \in Callers :
       call[c].op = "none" /\ call'[c].op \in {"sync", "close"} => Drained(context')]_vars

(* As long as no chunk is refused and no frame is cut by reset, the        *)
(* outport gets every byte libzstd makes, once and in order, although all  *)
(* methods share one chunk string, one caller may begin while another is   *)
(* inside <<, and the outport may freeze the string it is given.           *)
StreamWhole ==
  ~spoiled => /\ port.whole
              /\ Quiet => port.taken = made

(* eof tells the truth: once it is set, and unless source was written      *)
(* after the close began, the frame is finished and nothing waits in the   *)
(* session, whatever failed, was refused or was reset on the way there.    *)
EofIsComplete ==
  reached_eof /\ ~late => ~InFrame(context) /\ Drained(context)

(* Every method ends: enc_write's loop uses up its source however libzstd  *)
(* splits it over chunks, given an outport that answers.                   *)
CallsEnd == \A c \in Callers : call[c] # Idle ~> call[c] = Idle
=============================================================================
