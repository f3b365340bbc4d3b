----------------------------- MODULE Parameters -----------------------------
(***************************************************************************)
(* Zstd::Parameters of ext/extzstd.c: a struct that initialize fills from  *)
(* a preset and from options, one after the other, that setters change,    *)
(* and that encoders are configured from.                                  *)
(*                                                                         *)
(* NUM2UINT may call the to_int of an object, where other callers run, so  *)
(* each option of an initialize is a step.  What comes before them has no  *)
(* effect when it raises, and is one step with the preset.                 *)
(***************************************************************************)
EXTENDS Integers, Sequences, SequencesExt

CONSTANTS
  Objects,
  Callers,      (* threads, and nested calls of one thread                 *)
  Numbers,      (* the options converted with NUM2UINT, in their order     *)
  Flags,        (* and those with RTEST, among which are                   *)
  Negated,      (* the ones that libzstd takes the other way round         *)
  Levels,       (* the level, size hint and dictionary size of a preset,   *)
  Preset,       (* as one number, and ZSTD_getParams                       *)
  NoLevel,      (* initialize without an argument                          *)
  Options,      (* what initialize may be given: functions from names to   *)
                (* integers, for flags 0 and 1                             *)
  Highest,      (* the bounds of ZSTD_CCtx_setParameter                    *)
  Word          (* number of values of an unsigned int                     *)

Keys == Numbers \o Flags
Fields == ToSet(Keys)
Half == Word \div 2

ASSUME ParametersAssumption ==
  /\ "none" \notin Objects
  /\ Half \in Nat \ {0, 1} /\ Word = 2 * Half
  /\ Numbers \in Seq(ToSet(Numbers)) /\ Flags \in Seq(ToSet(Flags))
  /\ ToSet(Numbers) \cap ToSet(Flags) = {} /\ Negated \subseteq ToSet(Flags)
  /\ \A i, j \in DOMAIN Keys : Keys[i] = Keys[j] => i = j
  /\ 0 \in Levels /\ Preset \in [Levels -> [Fields -> 0 .. Half - 1]]
  /\ \A l \in Levels, k \in ToSet(Flags) : Preset[l][k] \in {0, 1}
  /\ \A o \in Options : /\ \A k \in DOMAIN o : o[k] \in Int
                        /\ \A k \in DOMAIN o \cap ToSet(Flags) : o[k] \in {0, 1}
  /\ Highest \in [ToSet(Numbers) -> 0 .. Half - 1]

VARIABLES
  fields,    (* the struct of each object                                  *)
  frozen,    (* the objects that are frozen                                *)
  call,      (* the initialize each caller is in                           *)
  given      (* the integers that the program or the preset gave for it    *)

vars == <<fields, frozen, call, given>>

(* seen: how many of the keys it has looked for.  alone: nobody else wrote *)
(* to the object since the call began.                                     *)
NoCall == [obj |-> "none", level |-> 0, opts |-> <<>>, seen |-> 0, alone |-> TRUE]
Calls == {NoCall} \cup [obj : Objects, level : Levels \cup {NoLevel}, opts : Options,
                        seen : 0 .. Len(Keys), alone : BOOLEAN]
Values == UNION {Range(o) : o \in Options}

(* Faulty variants of the operators below, which the properties must catch. *)
Unrefused(n) == TRUE
Same(v) == v
AllButLast(in) == {i \in in.seen + 1 .. Len(Keys) - 1 : Keys[i] \in DOMAIN in.opts}

LevelOf(level) == IF level = NoLevel THEN 0 ELSE level

(* NUM2UINT refuses what is neither an int nor an unsigned int. *)
InRange(n) == n \in -Half .. Word - 1
Converted(n) == n % Word

(* An unsigned field is passed as an int, a noDictIDFlag as its contrary. *)
AsInt(v) == IF v < Half THEN v ELSE v - Word
Contrary(v) == IF v = 0 THEN 1 ELSE 0

(* What Encoder.new and ContextLess.encode pass on, without a break, and   *)
(* whether libzstd takes it.                                               *)
Passed(o) ==
  [k \in Fields |-> IF k \in Negated THEN Contrary(fields[o][k]) ELSE AsInt(fields[o][k])]
Accepted(o) == \A k \in ToSet(Numbers) : Passed(o)[k] \in 0 .. Highest[k]

(* The options a call has still to take, by their places in Keys, and the   *)
(* one that comes next.                                                    *)
Left(in) == {i \in in.seen + 1 .. Len(Keys) : Keys[i] \in DOMAIN in.opts}
Coming(in) == {i \in Left(in) : \A j \in Left(in) : i <= j}

Writes(o, k, n) ==
  /\ fields' = [fields EXCEPT ![o][k] = Converted(n)]
  /\ given' = [given EXCEPT ![o][k] = n]

(* The calls, when one that is not theirs writes to object o. *)
Disturbed(o) ==
  [c \in Callers |-> IF call[c].obj = o THEN [call[c] EXCEPT !.alone = FALSE]
                     ELSE call[c]]

-----------------------------------------------------------------------------
(* Objects are allocated with zeros. *)
Init ==
  /\ fields = [o \in Objects |-> [k \in Fields |-> 0]]
  /\ frozen = {}
  /\ call = [c \in Callers |-> NoCall]
  /\ given = fields

(* initialize, up to its options, on a new object or on any other.         *)
Initialize(c) ==
  /\ call[c] = NoCall
  /\ \E o \in Objects, level \in Levels \cup {NoLevel}, opts \in Options :
       /\ fields' = [fields EXCEPT ![o] = Preset[LevelOf(level)]]
       /\ given' = [given EXCEPT ![o] = Preset[LevelOf(level)]]
       /\ call' = [Disturbed(o) EXCEPT ![c] =
                     [obj |-> o, level |-> level, opts |-> opts, seen |-> 0,
                      alone |-> TRUE]]
  /\ UNCHANGED frozen

TakesOption(c) ==
  /\ call[c] # NoCall
  /\ \E i \in Coming(call[c]) :
       LET n == call[c].opts[Keys[i]]
       IN  /\ InRange(n)
           /\ Writes(call[c].obj, Keys[i], n)
           /\ call' = [Disturbed(call[c].obj) EXCEPT ![c] = [call[c] EXCEPT !.seen = i]]
  /\ UNCHANGED frozen

(* A conversion raises, as one out of range does, or nothing is left.      *)
InitializeEnds(c) ==
  /\ call[c] # NoCall
  /\ \A i \in Coming(call[c]) : Keys[i] \in ToSet(Numbers)
  /\ call' = [call EXCEPT ![c] = NoCall]
  /\ UNCHANGED <<fields, frozen, given>>

(* A setter, which has no test for frozen objects. *)
Set ==
  /\ \E o \in Objects, k \in ToSet(Numbers), n \in Values :
       /\ InRange(n)
       /\ Writes(o, k, n)
       /\ call' = Disturbed(o)
  /\ UNCHANGED frozen

(* preset makes an object, which takes the place of another here.          *)
GetPreset ==
  /\ \E o \in Objects \ frozen, level \in Levels :
       /\ fields' = [fields EXCEPT ![o] = Preset[level]]
       /\ given' = [given EXCEPT ![o] = Preset[level]]
       /\ call' = Disturbed(o)
  /\ UNCHANGED frozen

(* dup and clone. *)
Copy ==
  /\ \E o \in Objects \ frozen, p \in Objects :
       /\ fields' = [fields EXCEPT ![o] = fields[p]]
       /\ given' = [given EXCEPT ![o] = given[p]]
       /\ call' = Disturbed(o)
  /\ UNCHANGED frozen

Freeze ==
  /\ \E o \in Objects : frozen' = frozen \cup {o}
  /\ UNCHANGED <<fields, call, given>>

Next ==
  \/ \E c \in Callers : Initialize(c) \/ TakesOption(c) \/ InitializeEnds(c)
  \/ Set \/ GetPreset \/ Copy \/ Freeze

Spec == Init /\ [][Next]_vars

-----------------------------------------------------------------------------
TypeOK ==
  /\ fields \in [Objects -> [Fields -> 0 .. Word - 1]]
  /\ frozen \subseteq Objects
  /\ call \in [Callers -> Calls]
  /\ given \in [Objects -> [Fields -> -Half .. Word - 1]]

(* What the program asks of libzstd: an id in the frame, when it does not  *)
(* say nodictid.                                                           *)
Asked(o) ==
  [k \in Fields |-> IF k \in Negated THEN 1 - given[o][k] ELSE given[o][k]]

(* What libzstd accepts is what was asked for, although the struct keeps   *)
(* it in another type than the program and libzstd have, and one flag with *)
(* the contrary meaning: an integer that changes on the way is one that    *)
(* libzstd refuses.                                                        *)
AcceptedAsGiven == \A o \in Objects : Accepted(o) => Passed(o) = Asked(o)

(* An initialize that nobody interferes with leaves the preset with the    *)
(* options it has got to, wherever it stops, and nothing of what the       *)
(* object held before.                                                     *)
InitializeOverlays ==
  \A c \in Callers :
    LET in   == call[c]
        done == {k \in Fields \cap DOMAIN in.opts : \A i \in Left(in) : Keys[i] # k}
    IN  in # NoCall /\ in.alone =>
          fields[in.obj] = [k \in Fields |-> IF k \in done THEN in.opts[k] % Word
                                             ELSE Preset[LevelOf(in.level)][k]]
=============================================================================
