------------------------- MODULE EncoderOpenProofs -------------------------
(***************************************************************************)
(* Theorems about EncoderOpen, for any callers and buffer sizes: the       *)
(* results about Encoder carry over to its block form.                     *)
(***************************************************************************)
EXTENDS EncoderOpen, EncoderProofs

(* The ensure clause is inside its own close until it is over, eof? is     *)
(* true only after a close that ended its frame, and open returns after    *)
(* such a close only.                                                      *)
OpenInv ==
  /\ block = "closing" => call[Body].op = "close"
  /\ block = "left" => reached_eof
  /\ reached_eof => frames > 0
  /\ \A c \in Callers : call[c].op = "close" => frames > 0
  /\ frames \in Nat

(* A method that is called may set frames and never clears it. *)
LEMMA ClientKeeps ==
  ASSUME NEW c \in Callers, TypeOK, OpenInv, Client(c), Counted(c)
  PROVE  /\ frames' \in Nat /\ frames' >= frames
         /\ reached_eof' = reached_eof
         /\ \A d \in Callers \ {c} : call'[d] = call[d]
         /\ call'[c].op = "close" => frames' > 0
<1>1. call \in [Callers -> Calls] /\ frames \in Nat
  BY DEF TypeOK, OpenInv
<1>2. call[c] = Idle
  BY DEF Client, Write, Sync, Close, Reset, Begin
<1>3. reached_eof' = reached_eof /\ \A d \in Callers \ {c} : call'[d] = call[d]
  BY <1>1 DEF Client, Write, Sync, Close, Reset, Compress, HandOver
<1>4. frames' = IF call'[c].op = "close" THEN frames + 1 ELSE frames
  BY <1>2 DEF Counted
<1> QED
  BY <1>1, <1>3, <1>4

(* A method that goes on sets eof at the end of close only. *)
LEMMA AnswerKeeps ==
  ASSUME NEW c \in Callers, TypeOK, Answer(c)
  PROVE  /\ \A d \in Callers \ {c} : call'[d] = call[d]
         /\ call'[c].op = "close" => call[c].op = "close"
         /\ reached_eof' => reached_eof \/ call[c].op = "close"
         /\ reached_eof => reached_eof'
<1>1. call \in [Callers -> Calls] /\ reached_eof \in BOOLEAN
  BY DEF TypeOK
<1>2. CASE PortTakes(c)
  <2>1. call[c] \in Calls /\ call' = [call EXCEPT ![c].at = "taken"] /\ reached_eof' = reached_eof
    BY <1>1, <1>2 DEF PortTakes
  <2>2. call'[c].op = call[c].op
    BY <1>1, <2>1 DEF Calls, Idle
  <2> QED
    BY <1>1, <2>1, <2>2
<1>3. CASE Resume(c)
  BY <1>1, <1>3 DEF Resume, Compress, HandOver, Idle
<1>4. CASE Return(c)
  BY <1>1, <1>4 DEF Return, Idle
<1>5. CASE PortRaises(c)
  BY <1>1, <1>5 DEF PortRaises, Idle
<1> QED
  BY <1>2, <1>3, <1>4, <1>5 DEF Answer

(* Every step of the block form is a step of the encoder or leaves it      *)
(* alone.                                                                  *)
THEOREM OpenIsEncoder == OpenSpec => Spec
<1>1. OpenInit => Init
  BY DEF OpenInit
<1>2. [OpenNext]_openVars => [Next]_vars
  <2>1. ASSUME BodyCalls \/ EnsureCloses PROVE Next
    BY <2>1, BodyAssumption DEF BodyCalls, EnsureCloses, Next, Client
  <2>2. ASSUME BodyGoesOn \/ EnsureGoesOn PROVE Next
    BY <2>2, BodyAssumption DEF BodyGoesOn, EnsureGoesOn, GoesOn, Next, Answer
  <2>3. ASSUME NEW c \in Callers, OtherRuns(c) PROVE Next
    BY <2>3 DEF OtherRuns, GoesOn, Next, Answer
  <2>4. BlockEnds => UNCHANGED vars
    BY DEF BlockEnds
  <2>5. UNCHANGED openVars => UNCHANGED vars
    BY DEF openVars
  <2> QED
    BY <2>1, <2>2, <2>3, <2>4, <2>5 DEF OpenNext
<1> QED
  BY <1>1, <1>2, PTL DEF OpenSpec, Spec

-----------------------------------------------------------------------------
LEMMA NextOpen ==
  ASSUME TypeOK, OpenInv, [OpenNext]_openVars
  PROVE  OpenInv'
<1> USE BodyAssumption
<1>1. call \in [Callers -> Calls] /\ frames \in Nat
  BY DEF TypeOK, OpenInv
<1>2. CASE BodyCalls
  <2>1. Client(Body) /\ Counted(Body) /\ block = "body" /\ block' = "body"
    BY <1>2 DEF BodyCalls
  <2> QED
    BY <1>1, <2>1, ClientKeeps DEF OpenInv
<1>3. CASE BodyGoesOn
  <2>1. Answer(Body) /\ block = "body" /\ block' = "body" /\ frames' = frames
    BY <1>3 DEF BodyGoesOn, GoesOn, Answer
  <2> QED
    BY <1>1, <2>1, AnswerKeeps DEF OpenInv
<1>4. CASE BlockEnds
  <2>1. /\ UNCHANGED <<call, reached_eof, frames>>
        /\ block' = IF reached_eof THEN "left" ELSE "ensure"
    BY <1>4 DEF BlockEnds, vars, AlreadyClosed
  <2> QED
    BY <1>1, <2>1 DEF OpenInv
<1>5. CASE EnsureCloses
  <2>1. /\ Client(Body) /\ Counted(Body)
        /\ block' = IF call'[Body] = Idle THEN "raised" ELSE "closing"
    BY <1>5 DEF EnsureCloses, Client
  <2>2. call'[Body] # Idle => call'[Body].op = "close"
    BY <1>1, <1>5 DEF EnsureCloses, Close, HandOver
  <2> QED
    BY <1>1, <2>1, <2>2, ClientKeeps DEF OpenInv
<1>6. CASE EnsureGoesOn
  <2>1. Answer(Body) /\ block = "closing" /\ frames' = frames
    BY <1>6 DEF EnsureGoesOn, Answer
  <2>2. call[Body].op = "close" /\ frames > 0
    BY <2>1 DEF OpenInv
  <2>3. block' = "closing" => call'[Body].op = "close"
    <3>1. ASSUME block' = "closing" PROVE call' = [call EXCEPT ![Body].at = "taken"]
      BY <1>6, <3>1 DEF EnsureGoesOn, PortTakes
    <3>2. ASSUME call' = [call EXCEPT ![Body].at = "taken"] PROVE call'[Body].op = call[Body].op
      BY <1>1, <3>2 DEF Calls, Idle
    <3> QED
      BY <2>2, <3>1, <3>2
  <2>4. block' = "left" => reached_eof'
    BY <1>6, <2>1, <2>2 DEF EnsureGoesOn, Return
  <2> QED
    BY <1>1, <2>1, <2>2, <2>3, <2>4, AnswerKeeps DEF OpenInv
<1>7. ASSUME NEW c \in Callers \ {Body}, OtherRuns(c) PROVE OpenInv'
  <2>1. block' = block
    BY <1>7 DEF OtherRuns
  <2>2. CASE Client(c) /\ Counted(c)
    BY <1>1, <1>7, <2>1, <2>2, ClientKeeps DEF OpenInv
  <2>3. CASE Answer(c) /\ frames' = frames
    BY <1>1, <1>7, <2>1, <2>3, AnswerKeeps DEF OpenInv
  <2> QED
    BY <1>7, <2>2, <2>3 DEF OtherRuns, GoesOn, Answer
<1>8. CASE UNCHANGED openVars
  BY <1>8 DEF openVars, vars, OpenInv
<1> QED
  BY <1>2, <1>3, <1>4, <1>5, <1>6, <1>7, <1>8 DEF OpenNext

(* When open returns, the outport has whole and finished frames, given     *)
(* that no other caller runs while a chunk is on its way to the outport.   *)
THEOREM LeavesFinishedStreamCorrect ==
  ASSUME OneAtATime
  PROVE  OpenSpec => []LeavesFinishedStream
<1>1. OpenInit => OpenInv
  BY BodyAssumption DEF OpenInit, Init, OpenInv, Idle
<1>2. OpenSpec => []OpenInv
  BY <1>1, NextOpen, OpenIsEncoder, TypeCorrect, PTL DEF OpenSpec
<1>3. OpenInv /\ StreamWhole /\ EofIsComplete => LeavesFinishedStream
  BY DEF OpenInv, StreamWhole, EofIsComplete, LeavesFinishedStream
<1> QED
  BY <1>2, <1>3, OpenIsEncoder, StreamWholeCorrect, EofIsCompleteCorrect, PTL

-----------------------------------------------------------------------------
(* The block form's own variables keep their types. *)
THEOREM OpenTypeCorrect == OpenSpec => []OpenTypeOK
<1> DEFINE Own == /\ block \in {"body", "ensure", "closing", "left", "raised"}
                  /\ own \in Nat /\ repeated \in BOOLEAN
<1>1. OpenInit => OpenInv
  BY BodyAssumption DEF OpenInit, Init, OpenInv, Idle
<1>2. OpenInit => Own
  <2> SUFFICES ASSUME OpenInit PROVE Own
    OBVIOUS
  <2>1. own \in Nat /\ block = "body"
    BY DEF OpenInit
  <2>2. repeated \in BOOLEAN
    BY Zenon DEF OpenInit
  <2> QED
    BY <2>1, <2>2
<1>3. OpenInv /\ Own /\ [OpenNext]_openVars => Own'
  <2> SUFFICES ASSUME OpenInv, Own, [OpenNext]_openVars PROVE Own'
    OBVIOUS
  <2>1. block' \in {"body", "ensure", "closing", "left", "raised"}
    BY DEF OpenNext, BodyCalls, BodyGoesOn, BlockEnds, EnsureCloses, EnsureGoesOn,
           OtherRuns, openVars
  <2>2. own' \in Nat
    BY DEF OpenInv, OpenNext, BodyCalls, BodyGoesOn, BlockEnds, EnsureCloses, EnsureGoesOn,
           OtherRuns, openVars
  <2>3. repeated' \in BOOLEAN
    <3>1. ASSUME NEW c \in Callers, GoesOn(c) PROVE repeated' \in BOOLEAN
      BY <3>1 DEF GoesOn
    <3>2. CASE EnsureGoesOn
      BY <3>2 DEF EnsureGoesOn
    <3>3. CASE BodyCalls \/ BlockEnds \/ EnsureCloses \/ UNCHANGED openVars
      BY <3>3 DEF BodyCalls, BlockEnds, EnsureCloses, openVars
    <3> QED
      BY <3>1, <3>2, <3>3, BodyAssumption DEF OpenNext, BodyGoesOn, OtherRuns
  <2> QED
    BY <2>1, <2>2, <2>3
<1>4. TypeOK /\ OpenInv /\ Own => OpenTypeOK
  BY DEF OpenInv, OpenTypeOK
<1> QED
  BY <1>1, <1>2, <1>3, <1>4, NextOpen, OpenIsEncoder, TypeCorrect, PTL DEF OpenSpec

(* As long as no close is repeated, only the block and the clause close.   *)
(* A frame that the block has closed is on its way into reached_eof, so    *)
(* the clause closes for a block that has closed no frame at all.          *)
FrameInv ==
  /\ \A c \in Callers : call[c].op = "close" => call[c].rest = 0
  /\ ~repeated =>
       /\ \A c \in Callers \ {Body} : call[c].op # "close"
       /\ block = "body" /\ frames > 0 => reached_eof \/ call[Body].op = "close"
       /\ block = "ensure" => frames = 0 /\ own = 0
       /\ block = "closing" => frames = 1 /\ own = 0
       /\ block = "left" => frames = IF own = 0 THEN 1 ELSE own

(* A close has no source left, before and after any step of the encoder.   *)
LEMMA NoRestOfClose ==
  ASSUME TypeOK, NEW c \in Callers, Client(c) \/ Answer(c),
         \A d \in Callers : call[d].op = "close" => call[d].rest = 0
  PROVE  \A d \in Callers : call'[d].op = "close" => call'[d].rest = 0
<1>1. call \in [Callers -> Calls]
  BY DEF TypeOK
<1>2. CASE PortTakes(c)
  <2>1. call' = [call EXCEPT ![c].at = "taken"] /\ call[c] \in Calls
    BY <1>1, <1>2 DEF PortTakes
  <2>2. call'[c].op = call[c].op /\ call'[c].rest = call[c].rest
    BY <1>1, <2>1 DEF Calls, Idle
  <2>3. \A d \in Callers \ {c} : call'[d] = call[d]
    BY <1>1, <2>1
  <2> QED
    BY <2>2, <2>3
<1>3. CASE Write(c) \/ Resume(c)
  BY <1>1, <1>3 DEF Write, Resume, Compress, HandOver, Idle
<1>4. CASE Sync(c) \/ Close(c)
  BY <1>1, <1>4 DEF Sync, Close, HandOver, Idle
<1>5. CASE Reset(c)
  BY <1>5 DEF Reset
<1>6. CASE Return(c) \/ PortRaises(c)
  BY <1>1, <1>6 DEF Return, PortRaises, Idle
<1> QED
  BY <1>2, <1>3, <1>4, <1>5, <1>6 DEF Client, Answer

(* A frame that the block has closed does not get lost on its way, unless  *)
(* its close raises.                                                       *)
LEMMA GoesOnFrames ==
  ASSUME TypeOK, FrameInv, repeated \in BOOLEAN, NEW c \in Callers, GoesOn(c), ~repeated'
  PROVE  /\ ~repeated
         /\ \A d \in Callers \ {Body} : call'[d].op # "close"
         /\ reached_eof \/ call[Body].op = "close" =>
              reached_eof' \/ call'[Body].op = "close"
<1>1. call \in [Callers -> Calls] /\ Answer(c) /\ ~repeated
  BY DEF TypeOK, GoesOn, Answer
<1>2. \A d \in Callers \ {Body} : call'[d].op # "close"
  BY <1>1, AnswerKeeps DEF FrameInv
<1>3. ASSUME c = Body, call[Body].op = "close"
      PROVE  reached_eof' \/ call'[Body].op = "close"
  <2>1. PortTakes(c) \/ Return(c)
    <3>1. ~(repeated' = (repeated \/ call[c].op = "close"))
      BY <1>3
    <3>2. ~Resume(c)
      BY <1>1, <1>3 DEF FrameInv, Resume
    <3> QED
      BY <3>1, <3>2 DEF GoesOn
  <2>2. CASE PortTakes(c)
    <3>1. call' = [call EXCEPT ![c].at = "taken"] /\ call[c] \in Calls
      BY <1>1, <2>2 DEF PortTakes
    <3> QED
      BY <1>1, <1>3, <3>1 DEF Calls, Idle
  <2>3. CASE Return(c)
    BY <1>3, <2>3 DEF Return
  <2> QED
    BY <2>1, <2>2, <2>3
<1> QED
  BY <1>1, <1>2, <1>3, BodyAssumption, AnswerKeeps

LEMMA NextFrames ==
  ASSUME TypeOK, OpenInv, FrameInv, OpenTypeOK, [OpenNext]_openVars
  PROVE  FrameInv'
<1> USE BodyAssumption
<1>1. /\ call \in [Callers -> Calls] /\ frames \in Nat
      /\ own \in Nat /\ repeated \in BOOLEAN
  BY DEF TypeOK, OpenTypeOK
<1>2. \A c \in Callers : call'[c].op = "close" => call'[c].rest = 0
  <2>1. ASSUME NEW c \in Callers, Client(c) \/ Answer(c)
        PROVE  \A d \in Callers : call'[d].op = "close" => call'[d].rest = 0
    BY <2>1, NoRestOfClose DEF FrameInv
  <2>2. CASE UNCHANGED call
    BY <2>2 DEF FrameInv
  <2> QED
    BY <2>1, <2>2
       DEF OpenNext, BodyCalls, BodyGoesOn, BlockEnds, EnsureCloses, EnsureGoesOn, OtherRuns,
           GoesOn, Client, Answer, openVars, vars
<1> SUFFICES ASSUME ~repeated'
             PROVE  /\ \A c \in Callers \ {Body} : call'[c].op # "close"
                    /\ block' = "body" /\ frames' > 0 => reached_eof' \/ call'[Body].op = "close"
                    /\ block' = "ensure" => frames' = 0 /\ own' = 0
                    /\ block' = "closing" => frames' = 1 /\ own' = 0
                    /\ block' = "left" => frames' = IF own' = 0 THEN 1 ELSE own'
  BY <1>2 DEF FrameInv
<1>3. CASE BodyCalls
  <2>1. /\ Client(Body) /\ Counted(Body) /\ block = "body" /\ block' = "body" /\ ~repeated
        /\ call[Body] = Idle
    BY <1>3 DEF BodyCalls, Client, Write, Sync, Close, Reset, Begin
  <2>2. /\ reached_eof' = reached_eof
        /\ \A d \in Callers \ {Body} : call'[d] = call[d]
    BY <2>1, ClientKeeps
  <2>3. frames' = IF call'[Body].op = "close" THEN frames + 1 ELSE frames
    BY <2>1 DEF Counted
  <2>4. call[Body].op # "close"
    BY <2>1 DEF Idle
  <2> QED
    BY <2>1, <2>2, <2>3, <2>4 DEF FrameInv
<1>4. CASE BodyGoesOn
  <2>1. GoesOn(Body) /\ block = "body" /\ block' = "body" /\ frames' = frames
    BY <1>4 DEF BodyGoesOn
  <2> QED
    BY <1>1, <2>1, GoesOnFrames DEF FrameInv
<1>5. CASE BlockEnds
  <2>1. /\ UNCHANGED <<call, reached_eof, frames, repeated>> /\ call[Body] = Idle
        /\ block = "body" /\ own' = frames
        /\ block' = IF reached_eof THEN "left" ELSE "ensure"
    BY <1>5 DEF BlockEnds, vars, AlreadyClosed
  <2>2. call[Body].op # "close"
    BY <2>1 DEF Idle
  <2> QED
    BY <1>1, <2>1, <2>2 DEF FrameInv, OpenInv
<1>6. CASE EnsureCloses
  <2>1. /\ Client(Body) /\ Counted(Body) /\ block = "ensure" /\ call[Body] = Idle
        /\ block' = IF call'[Body] = Idle THEN "raised" ELSE "closing"
        /\ UNCHANGED <<own, repeated>>
    BY <1>6 DEF EnsureCloses, Client, Close, Begin
  <2>2. call'[Body] # Idle => call'[Body].op = "close"
    BY <1>1, <1>6 DEF EnsureCloses, Close, HandOver
  <2>3. frames' = IF call'[Body].op = "close" THEN frames + 1 ELSE frames
    BY <2>1 DEF Counted
  <2> QED
    BY <2>1, <2>2, <2>3, ClientKeeps DEF FrameInv
<1>7. CASE EnsureGoesOn
  <2>1. Answer(Body) /\ block = "closing" /\ UNCHANGED <<frames, own>>
    BY <1>7 DEF EnsureGoesOn, Answer
  <2>2. ~repeated /\ block' \in {"closing", "left"}
    BY <1>7, <2>1 DEF EnsureGoesOn
  <2> QED
    BY <1>1, <2>1, <2>2, AnswerKeeps DEF FrameInv
<1>8. ASSUME NEW c \in Callers \ {Body}, OtherRuns(c)
      PROVE  /\ \A d \in Callers \ {Body} : call'[d].op # "close"
             /\ block' = "body" /\ frames' > 0 => reached_eof' \/ call'[Body].op = "close"
             /\ block' = "ensure" => frames' = 0 /\ own' = 0
             /\ block' = "closing" => frames' = 1 /\ own' = 0
             /\ block' = "left" => frames' = IF own' = 0 THEN 1 ELSE own'
  <2>1. UNCHANGED <<block, own>>
    BY <1>8 DEF OtherRuns
  <2>2. CASE GoesOn(c) /\ frames' = frames
    BY <1>1, <1>8, <2>1, <2>2, GoesOnFrames DEF FrameInv
  <2>3. CASE /\ Client(c) /\ Counted(c)
             /\ repeated' = (repeated \/ (call[c] = Idle /\ call'[c].op = "close"))
    <3>1. call[c] = Idle /\ ~repeated /\ call'[c].op # "close"
      BY <2>3 DEF Client, Write, Sync, Close, Reset, Begin
    <3>2. frames' = frames
      BY <2>3, <3>1 DEF Counted
    <3>3. reached_eof' = reached_eof /\ \A d \in Callers \ {c} : call'[d] = call[d]
      BY <1>8, <2>3, ClientKeeps
    <3> QED
      BY <1>8, <2>1, <3>1, <3>2, <3>3 DEF FrameInv
  <2> QED
    BY <1>8, <2>2, <2>3 DEF OtherRuns
<1>9. CASE UNCHANGED openVars
  BY <1>9 DEF openVars, vars, FrameInv
<1> QED
  BY <1>3, <1>4, <1>5, <1>6, <1>7, <1>8, <1>9 DEF OpenNext

(* open leaves one frame for a block that closes none, and the block's own *)
(* otherwise, for any callers and in any interleaving: the clause sees the *)
(* end of a close of the block, and adds no frame to it.                   *)
THEOREM NoExtraFrameCorrect == OpenSpec => []NoExtraFrame
<1>1. OpenInit => OpenInv /\ FrameInv
  BY BodyAssumption DEF OpenInit, Init, OpenInv, FrameInv, Idle
<1>2. FrameInv => NoExtraFrame
  BY DEF FrameInv, NoExtraFrame
<1>3. TypeOK /\ OpenInv /\ FrameInv /\ OpenTypeOK /\ [OpenNext]_openVars => FrameInv'
  BY NextFrames
<1> QED
  BY <1>1, <1>2, <1>3, NextOpen, OpenIsEncoder, TypeCorrect, OpenTypeCorrect, PTL DEF OpenSpec
=============================================================================
