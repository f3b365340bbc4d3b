---------------------------- MODULE EncoderOpen ----------------------------
(***************************************************************************)
(* Zstd::Encoder.open with a block (lib/extzstd.rb), over Encoder: the     *)
(* block uses the encoder as it likes, also closes or resets it, and ends  *)
(* with a value or an exception.  Then the ensure clause calls eof? and,   *)
(* unless it is true, close.  Ruby may run other callers between the two.  *)
(***************************************************************************)
EXTENDS Encoder

CONSTANT Body        (* the caller that runs open and its block *)

ASSUME BodyAssumption == Body \in Callers

VARIABLES
  block,       (* how far open is: "left" with the value or exception of   *)
               (* the block, "raised" with an exception of close           *)
  frames,      (* frames that close has ended                              *)
  own,         (* frames that were ended when the block ended              *)
  repeated     (* a close ended its frame and raised in the outport, or    *)
               (* another caller called close                              *)

openVars == <<vars, block, frames, own, repeated>>

(* Faulty variants of the operator below, which the properties must catch. *)
ClosesAgain == FALSE
Inverted == ~reached_eof

(* close unless eof? *)
AlreadyClosed == reached_eof

-----------------------------------------------------------------------------
OpenInit ==
  /\ Init
  /\ block = "body"
  /\ frames = 0
  /\ own = 0
  /\ repeated = FALSE

(* The frames a step of c ends: one when close goes on to its outport.     *)
Counted(c) ==
  frames' = IF call[c] = Idle /\ call'[c].op = "close" THEN frames + 1 ELSE frames

(* A method of c goes on.  When close raises, its frame has ended but       *)
(* eof? is not true.                                                       *)
GoesOn(c) ==
  \/ (PortTakes(c) \/ Resume(c) \/ Return(c)) /\ UNCHANGED repeated
  \/ PortRaises(c) /\ repeated' = (repeated \/ call[c].op = "close")

(* The block calls a method, which may fail at once or call the outport.   *)
BodyCalls ==
  /\ block = "body"
  /\ Client(Body)
  /\ Counted(Body)
  /\ UNCHANGED <<block, own, repeated>>

BodyGoesOn ==
  /\ block = "body"
  /\ GoesOn(Body)
  /\ UNCHANGED <<block, frames, own>>

(* The block has ended, and eof? is asked. *)
BlockEnds ==
  /\ block = "body" /\ call[Body] = Idle /\ MayRun(Body)
  /\ block' = IF AlreadyClosed THEN "left" ELSE "ensure"
  /\ own' = frames
  /\ UNCHANGED <<vars, frames, repeated>>

(* The ensure clause closes.  An error of libzstd replaces what the block  *)
(* ended with.                                                             *)
EnsureCloses ==
  /\ block = "ensure"
  /\ Close(Body)
  /\ Counted(Body)
  /\ block' = IF call'[Body] = Idle THEN "raised" ELSE "closing"
  /\ UNCHANGED <<own, repeated>>

EnsureGoesOn ==
  /\ block = "closing"
  /\ \/ PortTakes(Body) /\ UNCHANGED <<block, repeated>>
     \/ Return(Body) /\ block' = "left" /\ UNCHANGED repeated
     \/ PortRaises(Body) /\ block' = "raised" /\ repeated' = TRUE
  /\ UNCHANGED <<frames, own>>

(* Other callers use the encoder before, during and after the ensure.      *)
OtherRuns(c) ==
  /\ \/ /\ Client(c) /\ Counted(c)
        /\ repeated' = (repeated \/ (call[c] = Idle /\ call'[c].op = "close"))
     \/ GoesOn(c) /\ UNCHANGED frames
  /\ UNCHANGED <<block, own>>

OpenNext ==
  \/ BodyCalls \/ BodyGoesOn \/ BlockEnds \/ EnsureCloses \/ EnsureGoesOn
  \/ \E c \in Callers \ {Body} : OtherRuns(c)

OpenSpec == OpenInit /\ [][OpenNext]_openVars

(* As in Encoder, for the methods of the block, of the clause and of       *)
(* others.                                                                 *)
OpenFairSpec ==
  /\ OpenSpec
  /\ SF_openVars(BodyGoesOn) /\ SF_openVars(EnsureGoesOn)
  /\ \A c \in Callers \ {Body} :
       SF_openVars(GoesOn(c) /\ UNCHANGED <<block, frames, own>>)

-----------------------------------------------------------------------------
OpenTypeOK ==
  /\ TypeOK
  /\ block \in {"body", "ensure", "closing", "left", "raised"}
  /\ frames \in Nat /\ own \in Nat
  /\ repeated \in BOOLEAN

(* When open returns or passes the block's exception on, the outport has   *)
(* whole, finished frames, whatever the block did and however it ended,    *)
(* unless a chunk was refused, a frame was reset, or the block wrote after *)
(* its own close: then eof? is true and the clause does not close.         *)
LeavesFinishedStream ==
  block = "left" /\ Quiet /\ ~spoiled /\ ~late =>
    /\ port.whole /\ port.taken = made
    /\ ~InFrame(context) /\ Drained(context)
    /\ frames > 0

(* The stream has one frame when the block does not close, and no other    *)
(* than the block's own when it does, also for a block without a write and *)
(* one that shares the encoder with callers that do not close it.          *)
NoExtraFrame ==
  block = "left" /\ ~repeated =>
    frames = IF own = 0 THEN 1 ELSE own
=============================================================================
