-------------------------- MODULE ParametersProofs --------------------------
(* Theorems about Parameters, for any objects, callers, options, presets   *)
(* and width of an unsigned int.                                           *)
EXTENDS Parameters, SequenceTheorems, TLAPS

(* The keys are the numbers and then the flags, each at one place. *)
LEMMA KeysAreFields ==
  /\ Fields = ToSet(Numbers) \cup ToSet(Flags)
  /\ Len(Keys) \in Nat /\ DOMAIN Keys = 1 .. Len(Keys)
  /\ \A k \in Fields : \E i \in 1 .. Len(Keys) : Keys[i] = k
  /\ \A i \in 1 .. Len(Keys) : Keys[i] \in Fields
  /\ \A i, j \in 1 .. Len(Keys) : Keys[i] = Keys[j] => i = j
<1> DEFINE Names == ToSet(Numbers) \cup ToSet(Flags)
<1>1. Numbers \in Seq(Names) /\ Flags \in Seq(Names)
  BY ParametersAssumption
<1>2. /\ Keys \in Seq(Names) /\ Len(Keys) = Len(Numbers) + Len(Flags)
      /\ \A i \in 1 .. Len(Numbers) + Len(Flags) :
           Keys[i] = IF i <= Len(Numbers) THEN Numbers[i] ELSE Flags[i - Len(Numbers)]
  BY <1>1, ConcatProperties DEF Keys
<1>3. DOMAIN Keys = 1 .. Len(Keys) /\ Len(Numbers) \in Nat /\ Len(Flags) \in Nat
  BY <1>1, <1>2
<1>4. Fields \subseteq Names
  BY <1>2 DEF Fields, ToSet
<1>5. ASSUME NEW k \in ToSet(Numbers) PROVE \E i \in 1 .. Len(Keys) : Keys[i] = k
  <2>1. PICK i \in 1 .. Len(Numbers) : Numbers[i] = k
    BY <1>1 DEF ToSet
  <2> QED
    BY <1>2, <1>3, <2>1
<1>6. ASSUME NEW k \in ToSet(Flags) PROVE \E i \in 1 .. Len(Keys) : Keys[i] = k
  <2>1. PICK i \in 1 .. Len(Flags) : Flags[i] = k
    BY <1>1 DEF ToSet
  <2>2. Keys[Len(Numbers) + i] = k /\ Len(Numbers) + i \in 1 .. Len(Keys)
    BY <1>2, <1>3, <2>1
  <2> QED
    BY <2>2
<1>7. \A i \in 1 .. Len(Keys) : Keys[i] \in Fields
  BY <1>3 DEF Fields, ToSet
<1>8. \A k \in Names : k \in Fields
  BY <1>3, <1>5, <1>6 DEF Fields, ToSet
<1>9. Fields = Names
  BY <1>4, <1>8
<1>10. \A k \in Fields : \E i \in 1 .. Len(Keys) : Keys[i] = k
  BY <1>4, <1>5, <1>6
<1>11. \A i, j \in 1 .. Len(Keys) : Keys[i] = Keys[j] => i = j
  BY <1>3, ParametersAssumption
<1>12. Len(Keys) \in Nat
  BY <1>2, <1>3
<1> QED
  BY <1>3, <1>7, <1>9, <1>10, <1>11, <1>12

(* What NUM2UINT makes of an integer it takes: itself, or for a negative   *)
(* one something that is negative again as an int.                         *)
LEMMA ConvertedNumber ==
  ASSUME NEW n \in -Half .. Word - 1
  PROVE  /\ Converted(n) \in 0 .. Word - 1
         /\ n >= 0 => Converted(n) = n
         /\ n < 0 => Converted(n) >= Half
<1>1. Half \in Nat /\ Half > 1 /\ Word = 2 * Half
  BY ParametersAssumption
<1>2. CASE n >= 0
  <2>1. n \in 0 .. Word - 1
    BY <1>1, <1>2
  <2>2. n % Word = n
    BY <1>1, <2>1
  <2> QED
    BY <1>2, <2>1, <2>2 DEF Converted
<1>3. CASE n < 0
  <2>1. n % Word = n + Word
    BY <1>1, <1>3
  <2> QED
    BY <1>1, <1>3, <2>1 DEF Converted
<1> QED
  BY <1>1, <1>2, <1>3

-----------------------------------------------------------------------------
(* What a struct holds is the integers that were given for it, converted,  *)
(* and a flag is 0 or 1.                                                    *)
FieldsInv ==
  \A o \in Objects :
    /\ \A k \in Fields : fields[o][k] = Converted(given[o][k])
    /\ \A k \in ToSet(Flags) : given[o][k] \in {0, 1}

Inv == TypeOK /\ FieldsInv /\ InitializeOverlays

(* An option that has been taken, of an initialize. *)
Done(in) == {k \in Fields \cap DOMAIN in.opts : \A i \in Left(in) : Keys[i] # k}
Overlaid(in) ==
  [k \in Fields |-> IF k \in Done(in) THEN in.opts[k] % Word
                                     ELSE Preset[LevelOf(in.level)][k]]

LEMMA PresetType ==
  ASSUME NEW level \in Levels \cup {NoLevel}
  PROVE  /\ Preset[LevelOf(level)] \in [Fields -> 0 .. Half - 1]
         /\ Preset[LevelOf(level)] \in [Fields -> 0 .. Word - 1]
         /\ Preset[LevelOf(level)] \in [Fields -> -Half .. Word - 1]
         /\ \A k \in Fields : /\ Preset[LevelOf(level)][k] \in 0 .. Half - 1
                             /\ Converted(Preset[LevelOf(level)][k]) = Preset[LevelOf(level)][k]
         /\ \A k \in ToSet(Flags) : Preset[LevelOf(level)][k] \in {0, 1}
<1>1. Half \in Nat /\ Half > 1 /\ Word = 2 * Half /\ LevelOf(level) \in Levels
  BY ParametersAssumption DEF LevelOf
<1> DEFINE p == Preset[LevelOf(level)]
<1>2. p \in [Fields -> 0 .. Half - 1]
  BY <1>1, ParametersAssumption
<1> HIDE DEF p
<1>3. \A k \in Fields : p[k] \in 0 .. Half - 1
  BY <1>2
<1>4. \A k \in Fields : p[k] \in -Half .. Word - 1 /\ p[k] \in 0 .. Word - 1 /\ p[k] >= 0
  BY <1>1, <1>3
<1>5. \A k \in Fields : Converted(p[k]) = p[k]
  BY <1>4, ConvertedNumber
<1>6. p \in [Fields -> 0 .. Word - 1] /\ p \in [Fields -> -Half .. Word - 1]
  BY <1>2, <1>4
<1>7. \A k \in ToSet(Flags) : p[k] \in {0, 1}
  BY <1>1, ParametersAssumption DEF p
<1> QED
  BY <1>2, <1>3, <1>5, <1>6, <1>7 DEF p

(* An initialize begins with nothing taken, and the option it takes next   *)
(* leaves the ones behind it.                                              *)
LEMMA NothingDone ==
  ASSUME NEW in, in.seen = 0
  PROVE  Done(in) = {}
<1> SUFFICES ASSUME NEW k \in Done(in) PROVE FALSE
  OBVIOUS
<1>1. PICK i \in 1 .. Len(Keys) : Keys[i] = k
  BY KeysAreFields DEF Done
<1>2. i \in Left(in)
  BY <1>1, KeysAreFields DEF Done, Left
<1> QED
  BY <1>1, <1>2 DEF Done

LEMMA OneMoreDone ==
  ASSUME NEW in \in Calls, in # NoCall, NEW i \in Coming(in)
  PROVE  /\ i \in 1 .. Len(Keys) /\ Keys[i] \in Fields \cap DOMAIN in.opts
         /\ [in EXCEPT !.seen = i] \in Calls
         /\ Done([in EXCEPT !.seen = i]) = Done(in) \cup {Keys[i]}
<1> DEFINE next == [in EXCEPT !.seen = i]
<1>1. /\ in \in [obj : Objects, level : Levels \cup {NoLevel}, opts : Options,
                 seen : 0 .. Len(Keys), alone : BOOLEAN]
  BY DEF Calls
<1>2. /\ i \in 1 .. Len(Keys) /\ i > in.seen /\ Keys[i] \in DOMAIN in.opts
      /\ \A j \in Left(in) : i <= j
  BY <1>1, KeysAreFields DEF Coming, Left
<1>3. /\ next \in Calls /\ next.seen = i /\ next.opts = in.opts
  BY <1>1, <1>2, KeysAreFields DEF Calls
<1> HIDE DEF next
<1>4. Left(next) = Left(in) \ {i}
  <2>1. \A j \in 1 .. Len(Keys) : j \in Left(next) <=> j > i /\ Keys[j] \in DOMAIN in.opts
    BY <1>2, <1>3, KeysAreFields DEF Left
  <2>2. \A j \in 1 .. Len(Keys) : j \in Left(in) <=> j > in.seen /\ Keys[j] \in DOMAIN in.opts
    BY <1>1, KeysAreFields DEF Left
  <2>3. Left(next) \subseteq 1 .. Len(Keys) /\ Left(in) \subseteq 1 .. Len(Keys)
    BY <1>1, <1>2, <1>3, KeysAreFields DEF Left
  <2>4. \A j \in 1 .. Len(Keys) : j \in Left(next) <=> j \in Left(in) /\ j # i
    BY <1>1, <1>2, <2>1, <2>2, KeysAreFields
  <2> QED
    BY <2>3, <2>4
<1>5. i \in Left(in) /\ Left(in) \subseteq 1 .. Len(Keys)
  BY <1>1, KeysAreFields DEF Coming, Left
<1>6. Keys[i] \in Fields \cap DOMAIN in.opts
  BY <1>2, KeysAreFields
<1>7. Done(next) = Done(in) \cup {Keys[i]}
  BY <1>2, <1>3, <1>4, <1>5, <1>6, KeysAreFields DEF Done
<1> QED
  BY <1>2, <1>3, <1>6, <1>7 DEF next

(* The calls on other objects than the one that is written to go on as     *)
(* they were, and those on it are no longer alone.                         *)
LEMMA DisturbedCalls ==
  ASSUME TypeOK, NEW o \in Objects, NEW c \in Callers
  PROVE  /\ Disturbed(o)[c] \in Calls
         /\ \/ Disturbed(o)[c] = call[c] /\ call[c].obj # o
            \/ ~Disturbed(o)[c].alone
<1>1. call[c] \in Calls
  BY DEF TypeOK
<1>2. CASE call[c].obj # o
  BY <1>1, <1>2 DEF Disturbed
<1>3. CASE call[c].obj = o
  <2>1. Disturbed(o)[c] = [call[c] EXCEPT !.alone = FALSE]
    BY <1>3 DEF Disturbed
  <2>2. call[c] \in [obj : Objects, level : Levels \cup {NoLevel}, opts : Options,
                     seen : 0 .. Len(Keys), alone : BOOLEAN]
    BY <1>1, <1>3, ParametersAssumption DEF Calls, NoCall
  <2> QED
    BY <2>1, <2>2 DEF Calls
<1> QED
  BY <1>2, <1>3

(* InitializeOverlays speaks of each call on its own. *)
LEMMA OverlaysOfEach ==
  InitializeOverlays <=>
    \A c \in Callers : call[c] # NoCall /\ call[c].alone =>
                       fields[call[c].obj] = Overlaid(call[c])
  BY DEF InitializeOverlays, Overlaid, Done

(* now is what the struct holds when the integers was were given for it.   *)
Fitting(now, was) ==
  /\ now \in [Fields -> 0 .. Word - 1] /\ was \in [Fields -> -Half .. Word - 1]
  /\ \A k \in Fields : now[k] = Converted(was[k])
  /\ \A k \in ToSet(Flags) : was[k] \in {0, 1}

(* A step that replaces the values of object o. *)
Replaced(o, now, was) ==
  /\ fields' = [fields EXCEPT ![o] = now]
  /\ given' = [given EXCEPT ![o] = was]
  /\ frozen' = frozen

(* The calls that such a step may leave: those on other objects, those     *)
(* that it disturbs, and the one that did it.                              *)
Goes(o, now, d) ==
  \/ call'[d] = call[d] /\ call[d].obj # o
  \/ ~call'[d].alone
  \/ call'[d].obj = o /\ now = Overlaid(call'[d])

(* A step that gives one object o new values, and changes no call but      *)
(* those on o, keeps Inv when the values are what was given for them.      *)
LEMMA WriteInv ==
  ASSUME Inv, NEW o \in Objects, NEW now, NEW was, Fitting(now, was),
         Replaced(o, now, was), call' \in [Callers -> Calls],
         \A d \in Callers : Goes(o, now, d)
  PROVE  Inv'
<1>1. /\ fields \in [Objects -> [Fields -> 0 .. Word - 1]]
      /\ given \in [Objects -> [Fields -> -Half .. Word - 1]]
  BY DEF Inv, TypeOK
<1>2. TypeOK'
  BY <1>1 DEF Inv, TypeOK, Fitting, Replaced
<1>3. FieldsInv'
  BY <1>1 DEF Inv, FieldsInv, Fitting, Replaced
<1>4. InitializeOverlays'
  <2>1. ASSUME NEW c \in Callers, call'[c] # NoCall, call'[c].alone
        PROVE  fields'[call'[c].obj] = Overlaid(call'[c])
    <3>1. CASE call'[c] = call[c] /\ call[c].obj # o
      <4>1. call[c] \in Calls
        BY DEF Inv, TypeOK
      <4>2. call[c].obj \in Objects
        BY <2>1, <3>1, <4>1 DEF Calls
      <4>3. fields[call[c].obj] = Overlaid(call[c])
        BY <2>1, <3>1, OverlaysOfEach DEF Inv
      <4> QED
        BY <1>1, <3>1, <4>2, <4>3 DEF Replaced
    <3>2. CASE call'[c].obj = o /\ now = Overlaid(call'[c])
      BY <1>1, <3>2 DEF Replaced
    <3> QED
      BY <2>1, <3>1, <3>2 DEF Goes
  <2> QED
    BY <2>1 DEF InitializeOverlays, Overlaid, Done
<1> QED
  BY <1>2, <1>3, <1>4 DEF Inv

(* The same for an object that takes over the values of a preset.          *)
LEMMA InitializeInv ==
  ASSUME Inv, NEW c \in Callers, Initialize(c)
  PROVE  Inv'
<1>1. PICK o \in Objects, level \in Levels \cup {NoLevel}, opts \in Options :
        /\ fields' = [fields EXCEPT ![o] = Preset[LevelOf(level)]]
        /\ given' = [given EXCEPT ![o] = Preset[LevelOf(level)]]
        /\ call' = [Disturbed(o) EXCEPT ![c] =
                     [obj |-> o, level |-> level, opts |-> opts, seen |-> 0,
                      alone |-> TRUE]]
        /\ frozen' = frozen
  BY DEF Initialize
<1> DEFINE in == [obj |-> o, level |-> level, opts |-> opts, seen |-> 0, alone |-> TRUE]
           p == Preset[LevelOf(level)]
<1>2. in \in Calls /\ in.seen = 0 /\ in.obj = o /\ in.level = level
  BY KeysAreFields DEF Calls
<1>3. Done(in) = {}
  BY <1>2, NothingDone
<1>4. /\ p \in [Fields -> 0 .. Word - 1] /\ p \in [Fields -> -Half .. Word - 1]
      /\ \A k \in Fields : p[k] \in 0 .. Half - 1 /\ Converted(p[k]) = p[k]
  BY PresetType
<1>5. p = Overlaid(in)
  <2> HIDE DEF in
  <2> QED
    BY <1>2, <1>3, <1>4 DEF Overlaid
<1>6. \A k \in ToSet(Flags) : p[k] \in {0, 1}
  BY PresetType
<1>7. TypeOK
  BY DEF Inv
<1>8. \A d \in Callers : call'[d] = IF d = c THEN in ELSE Disturbed(o)[d]
  BY <1>1 DEF Disturbed
<1>9. call' \in [Callers -> Calls]
  <2>1. call' = [d \in Callers |-> call'[d]]
    BY <1>1 DEF Disturbed
  <2>2. \A d \in Callers : call'[d] \in Calls
    BY <1>2, <1>7, <1>8, DisturbedCalls
  <2> QED
    BY <2>1, <2>2
<1>10. \A d \in Callers : Goes(o, p, d)
  <2> HIDE DEF in
  <2> QED
    BY <1>2, <1>5, <1>7, <1>8, DisturbedCalls DEF Goes
<1>11. Replaced(o, p, p)
  BY <1>1 DEF Replaced
<1> HIDE DEF p, in
<1>12. Fitting(p, p)
  BY <1>4, <1>6 DEF Fitting
<1> QED
  BY <1>9, <1>10, <1>11, <1>12, WriteInv

(* An option or a setter writes one field. *)
LEMMA WrittenField ==
  ASSUME Inv, NEW o \in Objects, NEW k \in Fields, NEW n \in -Half .. Word - 1,
         k \in ToSet(Flags) => n \in {0, 1},
         Writes(o, k, n), frozen' = frozen
  PROVE  LET now == [fields[o] EXCEPT ![k] = Converted(n)]
             was == [given[o] EXCEPT ![k] = n]
         IN  Replaced(o, now, was) /\ Fitting(now, was)
<1> DEFINE now == [fields[o] EXCEPT ![k] = Converted(n)]
           was == [given[o] EXCEPT ![k] = n]
<1>1. /\ fields[o] \in [Fields -> 0 .. Word - 1] /\ given[o] \in [Fields -> -Half .. Word - 1]
      /\ Half \in Nat /\ Half > 1 /\ Word = 2 * Half
  BY ParametersAssumption DEF Inv, TypeOK
<1>2. /\ \A j \in Fields : fields[o][j] = Converted(given[o][j])
      /\ \A j \in ToSet(Flags) : given[o][j] \in {0, 1}
  BY DEF Inv, FieldsInv
<1>3. Converted(n) \in 0 .. Word - 1
  BY ConvertedNumber
<1>4. now \in [Fields -> 0 .. Word - 1] /\ was \in [Fields -> -Half .. Word - 1]
  BY <1>1, <1>3
<1>5. \A j \in Fields : /\ now[j] = IF j = k THEN Converted(n) ELSE fields[o][j]
                       /\ was[j] = IF j = k THEN n ELSE given[o][j]
  BY <1>1
<1>6. Replaced(o, now, was)
  BY DEF Writes, Replaced
<1> HIDE DEF now, was
<1>7. \A j \in Fields : now[j] = Converted(was[j])
  BY <1>2, <1>5
<1>8. \A j \in ToSet(Flags) : was[j] \in {0, 1}
  BY <1>1, <1>2, <1>5, KeysAreFields
<1> QED
  BY <1>4, <1>6, <1>7, <1>8 DEF now, was, Fitting

LEMMA TakesOptionInv ==
  ASSUME Inv, NEW c \in Callers, TakesOption(c)
  PROVE  Inv'
<1> DEFINE in == call[c]
<1>1. PICK i \in Coming(in) :
        /\ InRange(in.opts[Keys[i]])
        /\ Writes(in.obj, Keys[i], in.opts[Keys[i]])
        /\ call' = [Disturbed(in.obj) EXCEPT ![c] = [in EXCEPT !.seen = i]]
  BY DEF TakesOption
<1> DEFINE next == [in EXCEPT !.seen = i]
           o == in.obj
           k == Keys[i]
           n == in.opts[k]
           now == [fields[o] EXCEPT ![k] = Converted(n)]
           was == [given[o] EXCEPT ![k] = n]
<1>2. in # NoCall /\ frozen' = frozen
  BY DEF TakesOption
<1>3. TypeOK /\ in \in Calls
  BY DEF Inv, TypeOK
<1>4. /\ o \in Objects /\ in.opts \in Options /\ in.alone \in BOOLEAN
      /\ next.obj = o /\ next.opts = in.opts /\ next.level = in.level
      /\ next.alone = in.alone
  BY <1>2, <1>3 DEF Calls
<1>5. k \in Fields /\ k \in DOMAIN in.opts /\ next \in Calls /\ Done(next) = Done(in) \cup {k}
  BY <1>2, <1>3, OneMoreDone
<1>6. n \in -Half .. Word - 1 /\ (k \in ToSet(Flags) => n \in {0, 1})
  BY <1>1, <1>4, <1>5, ParametersAssumption DEF InRange
<1>7. Writes(o, k, n)
  BY <1>1
<1>8. Replaced(o, now, was) /\ Fitting(now, was)
  <2> HIDE DEF o, k, n
  <2> QED
    BY <1>2, <1>4, <1>5, <1>6, <1>7, WrittenField
<1>9. in.alone => now = Overlaid(next)
  <2> HIDE DEF next
  <2>1. SUFFICES ASSUME in.alone PROVE now = Overlaid(next)
    OBVIOUS
  <2>2. fields[o] = Overlaid(in)
    BY <1>2, <2>1, OverlaysOfEach DEF Inv
  <2>3. n % Word = Converted(n)
    BY DEF Converted
  <2> HIDE DEF n, k, in, o
  <2>4. now = [j \in Fields |-> IF j = k THEN Converted(n) ELSE Overlaid(in)[j]]
    BY <2>2 DEF Overlaid
  <2> HIDE DEF now
  <2>5. \A j \in Fields : Overlaid(next)[j] = IF j = k THEN n % Word ELSE Overlaid(in)[j]
    BY <1>4, <1>5 DEF Overlaid, n
  <2>6. Overlaid(next) = [j \in Fields |-> Overlaid(next)[j]]
    BY DEF Overlaid
  <2> QED
    BY <2>3, <2>4, <2>5, <2>6
<1>10. \A d \in Callers : call'[d] = IF d = c THEN next ELSE Disturbed(o)[d]
  BY <1>1 DEF Disturbed
<1> HIDE DEF next, now, was, k, n
<1>11. call' \in [Callers -> Calls]
  <2>1. call' = [d \in Callers |-> call'[d]]
    BY <1>1 DEF Disturbed
  <2>2. \A d \in Callers : call'[d] \in Calls
    BY <1>3, <1>4, <1>5, <1>10, DisturbedCalls
  <2> QED
    BY <2>1, <2>2
<1>12. \A d \in Callers : Goes(o, now, d)
  BY <1>3, <1>4, <1>9, <1>10, DisturbedCalls DEF Goes
<1> HIDE DEF o
<1> QED
  BY <1>4, <1>8, <1>11, <1>12, WriteInv

(* What is written outside of an initialize disturbs those on its object.  *)
LEMMA DisturbingInv ==
  ASSUME Inv, NEW o \in Objects, NEW now, NEW was, Fitting(now, was),
         Replaced(o, now, was), call' = Disturbed(o)
  PROVE  Inv'
<1>1. TypeOK /\ Disturbed(o) = [d \in Callers |-> Disturbed(o)[d]]
  BY DEF Inv, Disturbed
<1>2. call' \in [Callers -> Calls]
  BY <1>1, DisturbedCalls
<1>3. \A d \in Callers : Goes(o, now, d)
  BY <1>1, DisturbedCalls DEF Goes
<1> QED
  BY <1>2, <1>3, WriteInv

-----------------------------------------------------------------------------
LEMMA InitInv == Init => Inv
<1> SUFFICES ASSUME Init PROVE Inv
  OBVIOUS
<1>1. Half \in Nat /\ Half > 1 /\ Word = 2 * Half
  BY ParametersAssumption
<1>2. \A o \in Objects, k \in Fields : fields[o][k] = 0 /\ given[o][k] = 0
  BY DEF Init
<1>3. TypeOK
  BY <1>1 DEF Init, TypeOK, Calls
<1>4. FieldsInv
  <2>1. Converted(0) = 0
    BY <1>1, ConvertedNumber
  <2> QED
    BY <1>1, <1>2, <2>1, KeysAreFields DEF FieldsInv
<1>5. InitializeOverlays
  BY OverlaysOfEach DEF Init
<1> QED
  BY <1>3, <1>4, <1>5 DEF Inv

LEMMA NextInv ==
  ASSUME Inv, [Next]_vars
  PROVE  Inv'
<1>1. /\ fields \in [Objects -> [Fields -> 0 .. Word - 1]]
      /\ given \in [Objects -> [Fields -> -Half .. Word - 1]]
      /\ Half \in Nat /\ Half > 1 /\ Word = 2 * Half
  BY ParametersAssumption DEF Inv, TypeOK
<1>2. ASSUME NEW c \in Callers, InitializeEnds(c) PROVE Inv'
  <2>1. call' = [call EXCEPT ![c] = NoCall] /\ UNCHANGED <<fields, frozen, given>>
    BY <1>2 DEF InitializeEnds
  <2>2. TypeOK' /\ FieldsInv'
    BY <2>1 DEF Inv, TypeOK, FieldsInv, Calls
  <2>3. InitializeOverlays'
    BY <2>1 DEF Inv, TypeOK, InitializeOverlays
  <2> QED
    BY <2>2, <2>3 DEF Inv
<1>3. CASE Set
  <2>1. PICK o \in Objects, k \in ToSet(Numbers), n \in Values :
          InRange(n) /\ Writes(o, k, n) /\ call' = Disturbed(o) /\ frozen' = frozen
    BY <1>3 DEF Set
  <2>2. n \in -Half .. Word - 1 /\ k \in Fields /\ k \notin ToSet(Flags)
    BY <2>1, KeysAreFields, ParametersAssumption DEF InRange
  <2> DEFINE now == [fields[o] EXCEPT ![k] = Converted(n)]
             was == [given[o] EXCEPT ![k] = n]
  <2>3. Replaced(o, now, was) /\ Fitting(now, was)
    BY <2>1, <2>2, WrittenField
  <2> HIDE DEF now, was
  <2> QED
    BY <2>1, <2>3, DisturbingInv
<1>4. CASE GetPreset
  <2>1. PICK o \in Objects, level \in Levels :
          /\ fields' = [fields EXCEPT ![o] = Preset[level]]
          /\ given' = [given EXCEPT ![o] = Preset[level]]
          /\ call' = Disturbed(o) /\ frozen' = frozen
    BY <1>4 DEF GetPreset
  <2> DEFINE p == Preset[level]
  <2>2. p \in [Fields -> 0 .. Half - 1]
    BY ParametersAssumption
  <2>3. Replaced(o, p, p)
    BY <2>1 DEF Replaced
  <2> HIDE DEF p
  <2>4. \A k \in Fields : /\ p[k] \in 0 .. Half - 1 /\ p[k] \in -Half .. Word - 1
                         /\ p[k] \in 0 .. Word - 1 /\ p[k] >= 0
    BY <1>1, <2>2
  <2>5. \A k \in Fields : Converted(p[k]) = p[k]
    BY <2>4, ConvertedNumber
  <2>6. p \in [Fields -> 0 .. Word - 1] /\ p \in [Fields -> -Half .. Word - 1]
    BY <2>2, <2>4
  <2>7. \A k \in ToSet(Flags) : p[k] \in {0, 1}
    BY ParametersAssumption DEF p
  <2>8. Fitting(p, p)
    BY <2>4, <2>5, <2>6, <2>7, KeysAreFields DEF Fitting
  <2> QED
    BY <2>1, <2>3, <2>8, DisturbingInv
<1>5. CASE Copy
  <2>1. PICK o \in Objects, p \in Objects :
          /\ fields' = [fields EXCEPT ![o] = fields[p]]
          /\ given' = [given EXCEPT ![o] = given[p]]
          /\ call' = Disturbed(o) /\ frozen' = frozen
    BY <1>5 DEF Copy
  <2>2. Fitting(fields[p], given[p])
    BY <1>1 DEF Inv, FieldsInv, Fitting
  <2>3. Replaced(o, fields[p], given[p])
    BY <2>1 DEF Replaced
  <2> QED
    BY <2>1, <2>2, <2>3, DisturbingInv
<1>6. CASE Freeze
  <2>1. frozen' \subseteq Objects /\ UNCHANGED <<fields, call, given>>
    BY <1>6 DEF Freeze, Inv, TypeOK
  <2> QED
    BY <2>1 DEF Inv, TypeOK, FieldsInv, InitializeOverlays
<1>7. CASE UNCHANGED vars
  BY <1>7 DEF vars, Inv, TypeOK, FieldsInv, InitializeOverlays
<1> QED
  BY <1>2, <1>3, <1>4, <1>5, <1>6, <1>7, InitializeInv, TakesOptionInv DEF Next

(* The invariant the theorems rest on. *)
THEOREM ParametersCorrect == Spec => []Inv
  BY InitInv, NextInv, PTL DEF Spec

THEOREM TypeCorrect == Spec => []TypeOK
  BY ParametersCorrect, PTL DEF Inv

(* An initialize that nobody interferes with leaves the preset with the    *)
(* options it has got to, for any options and whatever raises.             *)
THEOREM InitializeOverlaysCorrect == Spec => []InitializeOverlays
  BY ParametersCorrect, PTL DEF Inv

(* What libzstd accepts is what the program gave, for any bounds of        *)
(* libzstd that an int can hold: an integer that NUM2UINT changes comes    *)
(* out negative as an int, and one that an int cannot hold, too.           *)
THEOREM AcceptedAsGivenCorrect == Spec => []AcceptedAsGiven
<1>1. Inv => AcceptedAsGiven
  <2> SUFFICES ASSUME Inv, NEW o \in Objects, Accepted(o) PROVE Passed(o) = Asked(o)
    BY DEF AcceptedAsGiven
  <2>1. given[o] \in [Fields -> -Half .. Word - 1] /\ fields[o] \in [Fields -> 0 .. Word - 1]
    BY DEF Inv, TypeOK
  <2>2. Half \in Nat /\ Half > 1 /\ Word = 2 * Half
    BY ParametersAssumption
  <2>3. ASSUME NEW k \in Fields PROVE Passed(o)[k] = Asked(o)[k]
    <3>1. /\ given[o][k] \in -Half .. Word - 1 /\ fields[o][k] \in 0 .. Word - 1
          /\ fields[o][k] = Converted(given[o][k])
      BY <2>1 DEF Inv, FieldsInv
    <3>2. CASE k \in ToSet(Numbers)
      <4>1. k \notin Negated
        BY <3>2, ParametersAssumption
      <4>2. AsInt(fields[o][k]) \in 0 .. Highest[k] /\ Highest[k] \in 0 .. Half - 1
        BY <3>2, <4>1, ParametersAssumption DEF Accepted, Passed
      <4>3. fields[o][k] < Half
        BY <2>2, <3>1, <4>2 DEF AsInt
      <4>4. AsInt(fields[o][k]) = given[o][k]
        BY <2>2, <3>1, <4>3, ConvertedNumber DEF AsInt
      <4> QED
        BY <4>1, <4>4 DEF Passed, Asked
    <3>3. CASE k \in ToSet(Flags)
      <4>1. given[o][k] \in {0, 1}
        BY <3>3 DEF Inv, FieldsInv
      <4>2. fields[o][k] = given[o][k]
        BY <3>1, <4>1, ConvertedNumber
      <4>3. /\ AsInt(fields[o][k]) = given[o][k]
            /\ Contrary(fields[o][k]) = 1 - given[o][k]
        BY <2>2, <4>1, <4>2 DEF AsInt, Contrary
      <4> QED
        BY <4>3 DEF Passed, Asked
    <3> QED
      BY <3>2, <3>3, KeysAreFields
  <2> QED
    BY <2>3 DEF Passed, Asked
<1> QED
  BY <1>1, ParametersCorrect, PTL
=============================================================================
