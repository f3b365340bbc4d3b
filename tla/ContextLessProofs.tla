------------------------- MODULE ContextLessProofs -------------------------
(***************************************************************************)
(* Theorems about ContextLess, for every width of a size_t, every set of   *)
(* strings, and every maxdest.                                             *)
(***************************************************************************)
EXTENDS ContextLess, TLAPS

(* A string that holds a text has less bytes than a long can count. *)
TextsFit == \A s \in Strings : ~string[s].zstd => ~Negative(Size[string[s].text])

Inv == TypeOK /\ TextsFit /\ FitsBuffer /\ DecodedIsWhole /\ DefaultsSuffice

-----------------------------------------------------------------------------
(* A size_t, and one that is no negative long. *)
LEMMA ModWord ==
  ASSUME NEW n \in Int
  PROVE  /\ n % Word \in 0 .. Word - 1
         /\ n \in Nat /\ ~Negative(n) => n % Word = n
  BY LessAssumption DEF Negative

LEMMA PlainType ==
  ASSUME NEW t \in Texts
  PROVE  Plain(t) \in Contents /\ ~Plain(t).zstd /\ Plain(t).text = t
  BY LessAssumption DEF Plain, Contents

LEMMA ContentSizesType ==
  ASSUME NEW z \in Contents, NEW n \in ContentSizes(z)
  PROVE  n \in 0 .. Field - 1 /\ (z.zstd /\ z.whole => n = z.first)
  BY LessAssumption DEF ContentSizes, Contents, Error

LEMMA GivenType ==
  ASSUME NEW z \in Given
  PROVE  z \in Contents /\ (~z.zstd => ~Negative(Size[z.text]))
<1>1. CASE z \in Imports
  BY <1>1, LessAssumption
<1>2. CASE \E t \in Texts : ~Negative(Size[t]) /\ z = Plain(t)
  BY <1>2, PlainType
<1> QED
  BY <1>1, <1>2 DEF Given

LEMMA BlankFits == Blank \in Texts /\ ~Negative(Size[Blank])
  BY LessAssumption DEF Negative

LEMMA InitInv == Init => Inv
<1> SUFFICES ASSUME Init PROVE Inv
  OBVIOUS
<1>1. PICK z \in [Frozen -> Given] :
        string = [s \in Strings |-> IF s \in Frozen THEN z[s] ELSE Plain(Blank)]
  BY DEF Init
<1>2. \A s \in Strings : /\ string[s] \in Contents
                         /\ ~string[s].zstd => ~Negative(Size[string[s].text])
  BY <1>1, GivenType, PlainType, BlankFits
<1>3. string \in [Strings -> Contents]
  BY <1>1, <1>2
<1>4. outcome = NoCall /\ NoCall \in Calls
  BY LessAssumption DEF Init, NoCall, Calls
<1>5. FitsBuffer /\ DecodedIsWhole /\ DefaultsSuffice
  BY <1>4 DEF FitsBuffer, DecodedIsWhole, DefaultsSuffice, NoCall
<1> QED
  BY <1>2, <1>3, <1>4, <1>5 DEF Inv, TypeOK, TextsFit

LEMMA AssignInv == Inv /\ Assign => Inv'
<1> SUFFICES ASSUME Inv, Assign PROVE Inv'
  OBVIOUS
<1>1. PICK s \in Strings \ Frozen, z \in Given : string' = [string EXCEPT ![s] = z]
  BY DEF Assign
<1>2. TextsFit' /\ string' \in [Strings -> Contents]
  BY <1>1, GivenType DEF Inv, TypeOK, TextsFit
<1>3. outcome' = NoCall /\ NoCall \in Calls
  BY LessAssumption DEF Assign, NoCall, Calls
<1>4. FitsBuffer' /\ DecodedIsWhole' /\ DefaultsSuffice'
  BY <1>3 DEF FitsBuffer, DecodedIsWhole, DefaultsSuffice, NoCall
<1> QED
  BY <1>2, <1>3, <1>4 DEF Inv, TypeOK

-----------------------------------------------------------------------------
(* A call with its arguments: source and destination differ. *)
Arguments(src, dest, d, limit) ==
  /\ src \in Strings /\ dest \in Strings /\ src # dest
  /\ d \in Strings \cup {Nil} /\ limit \in Limits

(* What a call changes: its destination and the outcome. *)
LEMMA EndsType ==
  ASSUME Inv, NEW src, NEW dest, NEW d, NEW limit, Arguments(src, dest, d, limit),
         NEW op \in {"encode", "decode"}, NEW room \in 0 .. Word - 1, NEW capa \in Nat,
         NEW how \in {"ok", "range", "frozen", "expand", "memory", "argument", "zstd"},
         NEW z \in Contents, ~z.zstd => ~Negative(Size[z.text]),
         Ends(op, src, dest, d, limit, room, capa, how, z)
  PROVE  /\ TypeOK' /\ TextsFit'
         /\ string'[src] = string[src] /\ string'[dest] = z
         /\ DictOf(dest, d)' = DictOf(dest, d)
         /\ outcome' = [op |-> op, src |-> src, dest |-> dest, dict |-> d, limit |-> limit,
                        ended |-> how, room |-> room, capa |-> capa]
<1>1. /\ string' = [string EXCEPT ![dest] = z]
      /\ outcome' = [op |-> op, src |-> src, dest |-> dest, dict |-> d, limit |-> limit,
                     ended |-> how, room |-> room, capa |-> capa]
  BY DEF Ends
<1>2. string' \in [Strings -> Contents] /\ TextsFit'
  BY <1>1 DEF Inv, TypeOK, TextsFit, Arguments
<1>3. outcome' \in Calls
  BY <1>1 DEF Calls, Arguments
<1>4. string'[src] = string[src] /\ string'[dest] = z
  BY <1>1 DEF Inv, TypeOK, Arguments
<1>5. DictOf(dest, d)' = DictOf(dest, d)
  BY <1>1 DEF DictOf, Inv, TypeOK, Arguments
<1> QED
  BY <1>1, <1>2, <1>3, <1>4, <1>5 DEF TypeOK

(* A call that ends without libzstd. *)
LEMMA RefusedInv ==
  ASSUME Inv, NEW src, NEW dest, NEW d, NEW limit, Arguments(src, dest, d, limit),
         NEW op \in {"encode", "decode"}, NEW room \in 0 .. Word - 1, NEW capa \in Nat,
         NEW how \in {"range", "frozen", "expand", "memory", "argument"},
         NEW z \in Contents, ~z.zstd => ~Negative(Size[z.text]),
         Ends(op, src, dest, d, limit, room, capa, how, z),
         limit = Nil /\ how = "expand" =>
           /\ op = "decode"
           /\ \/ ~string[src].zstd \/ ~string[src].whole
              \/ string[src].first # Size[string[src].text]
              \/ Negative(string[src].first)
  PROVE  Inv'
<1>1. /\ TypeOK' /\ TextsFit' /\ string'[src] = string[src]
      /\ outcome' = [op |-> op, src |-> src, dest |-> dest, dict |-> d, limit |-> limit,
                     ended |-> how, room |-> room, capa |-> capa]
  BY EndsType
<1>2. FitsBuffer' /\ DecodedIsWhole'
  BY <1>1 DEF FitsBuffer, DecodedIsWhole
<1>3. DefaultsSuffice'
  BY <1>1 DEF DefaultsSuffice, Negative
<1> QED
  BY <1>1, <1>2, <1>3 DEF Inv

(* A call that libzstd answers. *)
LEMMA AnsweredInv ==
  ASSUME Inv, NEW src, NEW dest, NEW d, NEW limit, Arguments(src, dest, d, limit),
         NEW op \in {"encode", "decode"}, NEW room \in 0 .. Word - 1, NEW capa \in Capas,
         NEW r, r.content \in Contents, r.ok \in BOOLEAN,
         ~r.content.zstd => ~Negative(Size[r.content.text]),
         Answered(op, src, dest, d, limit, room, capa, r),
         op = "decode" /\ r.ok =>
           /\ Readable(string[src])
           /\ string[src].dict = DictOf(dest, d) => r.content = Plain(string[src].text),
         limit = Nil /\ ~r.ok =>
           /\ op = "decode"
           /\ \/ ~string[src].zstd \/ ~string[src].whole
              \/ string[src].first # Size[string[src].text]
              \/ Negative(string[src].first)
              \/ string[src].dict # DictOf(dest, d)
  PROVE  Inv'
<1> DEFINE how == IF Failed(r) THEN "zstd" ELSE "ok"
           size == Expanded(capa, room)
<1>1. how \in {"zstd", "ok"} /\ (how = "ok" <=> r.ok)
  BY DEF Failed
<1>2. size \in Nat /\ room <= size
  <2>1. ~Negative(room) /\ capa \in Nat
    BY LessAssumption DEF Answered, Expandable
  <2> QED
    BY <2>1, LessAssumption DEF Expanded, Long
<1>3. Ends(op, src, dest, d, limit, room, size, how, r.content)
  BY DEF Answered
<1>4. /\ TypeOK' /\ TextsFit' /\ string'[src] = string[src] /\ string'[dest] = r.content
      /\ DictOf(dest, d)' = DictOf(dest, d)
      /\ outcome' = [op |-> op, src |-> src, dest |-> dest, dict |-> d, limit |-> limit,
                     ended |-> how, room |-> room, capa |-> size]
  <2> HIDE DEF how, size
  <2> QED
    BY <1>1, <1>2, <1>3, EndsType
<1> HIDE DEF how, size
<1>5. FitsBuffer'
  BY <1>2, <1>4 DEF FitsBuffer
<1>6. DecodedIsWhole'
  BY <1>1, <1>4 DEF DecodedIsWhole, Readable, DictOf
<1>7. DefaultsSuffice'
  BY <1>1, <1>4 DEF DefaultsSuffice, Negative, DictOf
<1> QED
  BY <1>4, <1>5, <1>6, <1>7 DEF Inv

(* What both methods do before libzstd is called. *)
LEMMA RefusedBeforeInv ==
  ASSUME Inv, NEW src, NEW dest, NEW d, NEW limit, Arguments(src, dest, d, limit),
         NEW op \in {"encode", "decode"}, RefusedBefore(op, src, dest, d, limit)
  PROVE  Inv'
<1>1. PICK how \in {"range", "frozen"} :
        Ends(op, src, dest, d, limit, 0, 0, how, string[dest])
  BY DEF RefusedBefore
<1>2. /\ string[dest] \in Contents
      /\ ~string[dest].zstd => ~Negative(Size[string[dest].text])
  BY DEF Inv, TypeOK, TextsFit, Arguments
<1>3. 0 \in 0 .. Word - 1 /\ 0 \in Nat
  BY LessAssumption
<1> QED
  BY <1>1, <1>2, <1>3, RefusedInv

LEMMA RefusedExpandingInv ==
  ASSUME Inv, NEW src, NEW dest, NEW d, NEW limit, Arguments(src, dest, d, limit),
         NEW op \in {"encode", "decode"}, NEW room \in 0 .. Word - 1, NEW capa \in Capas,
         RefusedExpanding(op, src, dest, d, limit, room, capa),
         limit = Nil /\ Negative(room) =>
           /\ op = "decode"
           /\ \/ ~string[src].zstd \/ ~string[src].whole
              \/ string[src].first # Size[string[src].text]
              \/ Negative(string[src].first)
  PROVE  Inv'
<1>1. PICK how \in {"expand", "memory"} :
        /\ how = "expand" => Negative(room)
        /\ Ends(op, src, dest, d, limit, room, capa, how, Plain(Blank))
  BY DEF RefusedExpanding, Expandable
<1>2. capa \in Nat
  BY LessAssumption
<1> QED
  BY <1>1, <1>2, PlainType, BlankFits, RefusedInv

LEMMA RefusedAfterInv ==
  ASSUME Inv, NEW src, NEW dest, NEW d, NEW limit, Arguments(src, dest, d, limit),
         NEW op \in {"encode", "decode"}, NEW room \in 0 .. Word - 1, NEW capa \in Capas,
         RefusedAfter(op, src, dest, d, limit, room, capa)
  PROVE  Inv'
<1>1. Expanded(capa, room) \in Nat
  <2>1. ~Negative(room) /\ capa \in Nat
    BY LessAssumption DEF RefusedAfter, Expandable
  <2> QED
    BY <2>1, LessAssumption DEF Expanded, Long
<1> QED
  BY <1>1, PlainType, BlankFits, RefusedInv DEF RefusedAfter

-----------------------------------------------------------------------------
(* maxdest as a size_t, and what stands for it when it is nil. *)
LEMMA RoomsType ==
  ASSUME NEW limit \in Limits, NEW sizes, sizes \subseteq Nat, NEW room \in Rooms(limit, sizes)
  PROVE  /\ room \in 0 .. Word - 1
         /\ limit = Nil => \E n \in sizes : room = n % Word
<1>1. CASE limit = Nil
  <2>1. PICK n \in sizes : room = n % Word
    BY <1>1 DEF Rooms
  <2> QED
    BY <2>1, ModWord
<1>2. CASE limit # Nil
  <2>1. limit \in Int /\ room = limit % Word
    BY <1>2, LessAssumption DEF Rooms, Wrapped
  <2> QED
    BY <1>2, <2>1, ModWord
<1> QED
  BY <1>1, <1>2

LEMMA CompressOutcome ==
  ASSUME NEW text \in Texts, NEW dict \in Texts, NEW sized \in BOOLEAN, NEW room \in Nat,
         ~Negative(Size[text]), NEW r \in CompressResults(text, dict, sized, room)
  PROVE  /\ r.content \in Contents /\ r.ok \in BOOLEAN
         /\ ~r.content.zstd => ~Negative(Size[r.content.text])
         /\ ~r.ok => room < Bound(Size[text])
<1>1. PICK k \in 1 .. Size[text] + Overhead :
        r = IF k <= room
            THEN Success(Zipped(text, dict, IF sized THEN Size[text] ELSE Unknown, TRUE))
            ELSE Failure
  BY DEF CompressResults
<1>2. Size[text] \in 0 .. Field - 1 /\ Unknown \in 0 .. Field - 1
  BY LessAssumption DEF Negative, Unknown
<1>3. CASE k <= room
  BY <1>1, <1>2, <1>3 DEF Success, Zipped, Contents
<1>4. CASE ~(k <= room)
  <2>1. r.content = Plain(Blank) /\ r.ok = FALSE
    BY <1>1, <1>4 DEF Failure
  <2>2. room < Bound(Size[text])
    BY <1>2, <1>4, LessAssumption DEF Bound
  <2> QED
    BY <2>1, <2>2, PlainType, BlankFits
<1> QED
  BY <1>3, <1>4

LEMMA DecompressOutcome ==
  ASSUME NEW z \in Contents, NEW dict \in Texts, NEW room \in 0 .. Word - 1, ~Negative(room),
         NEW r \in DecompressResults(z, dict, room)
  PROVE  /\ r.content \in Contents /\ r.ok \in BOOLEAN
         /\ ~Negative(Size[r.content.text]) /\ Size[r.content.text] <= room
         /\ r.ok => /\ Readable(z)
                    /\ z.dict = dict => r.content = Plain(z.text)
         /\ ~r.ok /\ Readable(z) /\ z.dict = dict => Size[z.text] > room
<1>1. z.text \in Texts /\ Size[z.text] \in Nat
  BY LessAssumption DEF Contents
<1> DEFINE Fits(n) == ~Negative(n) /\ n <= room
<1>2. \A n \in Nat : n <= room => Fits(n)
  BY LessAssumption DEF Negative
<1>3. ~(Size[z.text] <= room) => Size[z.text] > room
  BY <1>1, LessAssumption
<1> HIDE DEF Fits
<1>4. CASE Readable(z) /\ z.dict = dict /\ Size[z.text] <= room
  <2>1. r.content = Plain(z.text) /\ r.ok = TRUE
    BY <1>4 DEF DecompressResults, Success
  <2> QED
    BY <1>1, <1>4, <1>2, <2>1, PlainType DEF Fits
<1>5. CASE ~(Readable(z) /\ z.dict = dict /\ Size[z.text] <= room) /\ r = Failure
  <2>1. r.content = Plain(Blank) /\ r.ok = FALSE
    BY <1>5 DEF Failure
  <2>2. Size[Blank] <= room
    BY LessAssumption
  <2> QED
    BY <1>5, <1>3, <2>1, <2>2, PlainType, BlankFits
<1>6. CASE \E u \in Texts : /\ Readable(z) /\ z.dict # dict /\ Size[u] <= room
                           /\ r = Success(Plain(u))
  <2>1. PICK u \in Texts : /\ Readable(z) /\ z.dict # dict /\ Size[u] <= room
                           /\ r = Success(Plain(u))
    BY <1>6
  <2>2. r.content = Plain(u) /\ r.ok = TRUE /\ Size[u] \in Nat
    BY <2>1, LessAssumption DEF Success
  <2> QED
    BY <1>2, <2>1, <2>2, PlainType DEF Fits
<1> QED
  BY <1>4, <1>5, <1>6 DEF DecompressResults

LEMMA DictType ==
  ASSUME Inv, NEW dest, NEW d \in Strings \cup {Nil}
  PROVE  DictOf(dest, d) \in Texts
<1>1. CASE d \in {Nil, dest}
  BY <1>1, LessAssumption DEF DictOf
<1>2. CASE d \notin {Nil, dest}
  <2>1. string[d] \in Contents
    BY <1>2 DEF Inv, TypeOK
  <2> QED
    BY <1>2, <2>1 DEF DictOf, Contents
<1> QED
  BY <1>1, <1>2

LEMMA EncodeInv ==
  ASSUME Inv, NEW src, NEW dest, NEW d, NEW limit, Arguments(src, dest, d, limit),
         Encode(src, dest, d, limit)
  PROVE  Inv'
<1> DEFINE text  == string[src].text
           bound == Bound(Size[text])
<1>1. text \in Texts /\ Size[text] \in Nat /\ ~Negative(Size[text])
  BY LessAssumption DEF Encode, Inv, TypeOK, TextsFit, Contents, Arguments
<1>2. bound \in Nat /\ ~Negative(bound) /\ bound % Word = bound
  <2>1. bound \in Nat
    BY <1>1, LessAssumption DEF Bound
  <2>2. ~Negative(bound)
    BY <1>1, LessAssumption
  <2> HIDE DEF bound
  <2> QED
    BY <2>1, <2>2, ModWord
<1>3. DictOf(dest, d) \in Texts /\ limit \in Limits
  BY DictType DEF Arguments
<1>4. CASE RefusedBefore("encode", src, dest, d, limit)
  BY <1>4, RefusedBeforeInv
<1>5. ASSUME NEW room \in Rooms(limit, {bound}), NEW capa \in Capas,
             \/ RefusedExpanding("encode", src, dest, d, limit, room, capa)
             \/ RefusedAfter("encode", src, dest, d, limit, room, capa)
             \/ \E sized \in BOOLEAN :
                \E r \in CompressResults(text, DictOf(dest, d), sized, room) :
                  Answered("encode", src, dest, d, limit, room, capa, r)
      PROVE  Inv'
  <2>1. room \in 0 .. Word - 1 /\ (limit = Nil => room = bound)
    <3>1. {bound} \subseteq Nat
      BY <1>2
    <3> QED
      BY <1>2, <1>3, <3>1, RoomsType
  <2>2. CASE RefusedExpanding("encode", src, dest, d, limit, room, capa)
    BY <1>2, <2>1, <2>2, RefusedExpandingInv
  <2>3. CASE RefusedAfter("encode", src, dest, d, limit, room, capa)
    BY <2>1, <2>3, RefusedAfterInv
  <2>4. ASSUME NEW sized \in BOOLEAN,
               NEW r \in CompressResults(text, DictOf(dest, d), sized, room),
               Answered("encode", src, dest, d, limit, room, capa, r)
        PROVE  Inv'
    <3>1. /\ r.content \in Contents /\ r.ok \in BOOLEAN
          /\ ~r.content.zstd => ~Negative(Size[r.content.text])
          /\ ~r.ok => room < bound
      BY <1>1, <1>3, <2>1, CompressOutcome
    <3>2. limit = Nil => r.ok
      BY <1>2, <2>1, <3>1
    <3> QED
      BY <2>1, <2>4, <3>1, <3>2, AnsweredInv
  <2> QED
    BY <1>5, <2>2, <2>3, <2>4
<1> QED
  BY <1>4, <1>5 DEF Encode

LEMMA DecodeInv ==
  ASSUME Inv, NEW src, NEW dest, NEW d, NEW limit, Arguments(src, dest, d, limit),
         Decode(src, dest, d, limit)
  PROVE  Inv'
<1> DEFINE z == string[src]
<1>1. /\ z \in Contents /\ z.first \in Nat /\ z.text \in Texts /\ Size[z.text] \in Nat
      /\ z.zstd \in BOOLEAN /\ z.whole \in BOOLEAN
  BY LessAssumption DEF Inv, TypeOK, Contents, Arguments
<1>2. DictOf(dest, d) \in Texts /\ limit \in Limits
  BY DictType DEF Arguments
<1>3. CASE RefusedBefore("decode", src, dest, d, limit)
  BY <1>3, RefusedBeforeInv
<1>4. ASSUME NEW room \in Rooms(limit, ContentSizes(z)), NEW capa \in Capas,
             \/ RefusedExpanding("decode", src, dest, d, limit, room, capa)
             \/ RefusedAfter("decode", src, dest, d, limit, room, capa)
             \/ \E r \in DecompressResults(z, DictOf(dest, d), room) :
                  Answered("decode", src, dest, d, limit, room, capa, r)
      PROVE  Inv'
  <2>1. /\ room \in 0 .. Word - 1
        /\ limit = Nil => \E n \in ContentSizes(z) : room = n % Word
    <3>1. ContentSizes(z) \subseteq Nat
      BY <1>1, ContentSizesType, LessAssumption
    <3> QED
      BY <1>2, <3>1, RoomsType
  <2>2. limit = Nil /\ z.zstd /\ z.whole /\ ~Negative(z.first) => room = z.first
    BY <1>1, <2>1, ContentSizesType, ModWord
  <2>3. CASE RefusedExpanding("decode", src, dest, d, limit, room, capa)
    BY <2>1, <2>2, <2>3, RefusedExpandingInv
  <2>4. CASE RefusedAfter("decode", src, dest, d, limit, room, capa)
    BY <2>1, <2>4, RefusedAfterInv
  <2>5. ASSUME NEW r \in DecompressResults(z, DictOf(dest, d), room),
               Answered("decode", src, dest, d, limit, room, capa, r)
        PROVE  Inv'
    <3>1. /\ r.content \in Contents /\ r.ok \in BOOLEAN
          /\ ~Negative(Size[r.content.text]) /\ Size[r.content.text] <= room
          /\ r.ok => /\ Readable(z)
                     /\ z.dict = DictOf(dest, d) => r.content = Plain(z.text)
          /\ ~r.ok /\ Readable(z) /\ z.dict = DictOf(dest, d) => Size[z.text] > room
      BY <1>1, <1>2, <2>1, <2>5, DecompressOutcome
        DEF Answered, Expandable
    <3>2. limit = Nil /\ ~r.ok =>
            \/ ~z.zstd \/ ~z.whole \/ z.first # Size[z.text] \/ Negative(z.first)
            \/ z.dict # DictOf(dest, d)
      BY <1>1, <2>1, <2>2, <3>1 DEF Readable
    <3> QED
      BY <2>1, <2>5, <3>1, <3>2, AnsweredInv
  <2> QED
    BY <1>4, <2>3, <2>4, <2>5
<1> QED
  BY <1>3, <1>4 DEF Decode

LEMMA NextInv == Inv /\ [Next]_vars => Inv'
<1>1. Inv /\ UNCHANGED vars => Inv'
  BY DEF vars, Inv, TypeOK, TextsFit, FitsBuffer, DecodedIsWhole, DefaultsSuffice, DictOf
<1>2. ASSUME Inv, NEW src \in Strings, NEW dest \in Strings \ {src},
             NEW d \in Strings \cup {Nil}, NEW limit \in Limits,
             Encode(src, dest, d, limit) \/ Decode(src, dest, d, limit)
      PROVE  Inv'
  BY <1>2, EncodeInv, DecodeInv DEF Arguments
<1> QED
  BY <1>1, <1>2, AssignInv DEF Next

-----------------------------------------------------------------------------
(* The inductive invariant holds. *)
THEOREM InvCorrect == Spec => []Inv
  BY InitInv, NextInv, PTL DEF Spec

(* Every string keeps its type, and every size that libzstd is told is a   *)
(* size_t, whatever maxdest is.                                            *)
THEOREM TypeCorrect == Spec => []TypeOK
  BY InvCorrect, PTL DEF Inv

(* libzstd is told of no more room than the destination has, for any width *)
(* of a size_t and anything maxdest or the source's header may say.        *)
THEOREM FitsBufferCorrect == Spec => []FitsBuffer
  BY InvCorrect, PTL DEF Inv

(* decode returns the whole of the data or raises. *)
THEOREM DecodedIsWholeCorrect == Spec => []DecodedIsWhole
  BY InvCorrect, PTL DEF Inv

(* decode without maxdest undoes encode without maxdest. *)
THEOREM DefaultsSufficeCorrect == Spec => []DefaultsSuffice
  BY InvCorrect, PTL DEF Inv
=============================================================================
