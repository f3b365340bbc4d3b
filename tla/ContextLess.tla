---------------------------- MODULE ContextLess ----------------------------
(***************************************************************************)
(* Zstd::ContextLess.encode and decode of ext/extzstd.c: one call each for *)
(* whole strings, with the sizes they compute in size_t, hand to Ruby as a *)
(* signed long and give to libzstd as the room in the destination.         *)
(*                                                                         *)
(* A call runs without a break here.  Its conversions may fail, but do not *)
(* change the strings of the call, and source and destination differ:      *)
(* otherwise libzstd would be given pointers whose memory has changed.     *)
(***************************************************************************)
EXTENDS Integers

CONSTANTS
  Strings,    (* the String objects of the program                         *)
  Frozen,     (* those that must not be changed                            *)
  Texts,      (* values of data                                            *)
  Size,       (* their lengths                                             *)
  Blank,      (* the text without data                                     *)
  Imports,    (* strings with frames that other programs made              *)
  Limits,     (* arguments maxdest, Nil included                           *)
  Capas,      (* capacities a destination may have when a call begins      *)
  Overhead,   (* ZSTD_compressBound(n) - n                                 *)
  Word,       (* numbers in a size_t, 2^32 or 2^64                         *)
  Field,      (* numbers in ZSTD_getFrameContentSize's result, 2^64        *)
  Nil

VARIABLES
  string,     (* what each string holds                                    *)
  outcome     (* the last call, until the program changes a string         *)

vars == <<string, outcome>>

(* What a string holds: a text as it is, or frames that stand for a text.  *)
(* Frames need a dictionary, Blank for none.  The first of them tells the  *)
(* length of its own data, or that it is unknown.  A string with frames is *)
(* not whole when the last is cut or followed by other bytes.              *)
Contents ==
  [zstd : BOOLEAN, text : Texts, dict : Texts, first : 0 .. Field - 1, whole : BOOLEAN]
Plain(text) ==
  [zstd |-> FALSE, text |-> text, dict |-> Blank, first |-> 0, whole |-> TRUE]
Zipped(text, dict, first, whole) ==
  [zstd |-> TRUE, text |-> text, dict |-> dict, first |-> first, whole |-> whole]

Calls ==
  [op : {"none", "encode", "decode"}, src : Strings \cup {Nil}, dest : Strings \cup {Nil},
   dict : Strings \cup {Nil}, limit : Limits \cup {Nil},
   ended : {"ok", "range", "frozen", "expand", "memory", "argument", "zstd"},
   room : 0 .. Word - 1, capa : Nat]
NoCall ==
  [op |-> "none", src |-> Nil, dest |-> Nil, dict |-> Nil, limit |-> Nil,
   ended |-> "ok", room |-> 0, capa |-> 0]

(* Faulty variants of the operators below, which the properties must catch. *)
Unwrapped(limit) == limit
Unrefused(room) == TRUE
SmallBound(n) == n
Ignored(r) == FALSE

Unknown == Field - 1                  (* ZSTD_CONTENTSIZE_UNKNOWN *)
Error == Field - 2                    (* ZSTD_CONTENTSIZE_ERROR   *)

(* NUM2SIZET takes negative numbers down to that of a long. *)
InRange(limit) == limit \in Int /\ -Word <= 2 * limit /\ limit < Word
Wrapped(limit) == limit % Word

(* A size_t as the long that rb_str_modify_expand takes. *)
Negative(size) == 2 * size >= Word
Long(size) == IF Negative(size) THEN size - Word ELSE size

Bound(n) == n + Overhead              (* ZSTD_compressBound *)

(* ZSTD_getFrameContentSize reads the first header.  A cut may have hit it. *)
ContentSizes(z) ==
  IF ~z.zstd THEN {Error} ELSE {z.first} \cup (IF z.whole THEN {} ELSE {Error})

(* rb_str_modify_expand raises for a negative long, ... *)
Expandable(room) == ~Negative(room)

(* ... or the emptied destination has this capacity afterwards. *)
Expanded(capa, room) == IF capa < Long(room) THEN Long(room) ELSE capa

(* The dictionary is taken after the destination was emptied. *)
DictOf(dest, d) == IF d \in {Nil, dest} THEN Blank ELSE string[d].text

Failed(r) == ~r.ok                    (* extzstd_check_error *)
Failure == [ok |-> FALSE, content |-> Plain(Blank)]
Success(z) == [ok |-> TRUE, content |-> z]

(* libzstd compresses to any size up to the bound.  "sized" is the         *)
(* contentsize flag of the Parameters, true without any.                   *)
CompressResults(text, dict, sized, room) ==
  {IF k <= room
   THEN Success(Zipped(text, dict, IF sized THEN Size[text] ELSE Unknown, TRUE))
   ELSE Failure : k \in 1 .. Size[text] + Overhead}

(* What libzstd can decompress: frames that are not cut, or nothing. *)
Readable(z) == IF z.zstd THEN z.whole ELSE z.text = Blank

(* libzstd decompresses all frames.  With another dictionary than theirs   *)
(* it fails or returns any text.                                           *)
DecompressResults(z, dict, room) ==
  IF Readable(z) /\ z.dict = dict /\ Size[z.text] <= room THEN {Success(Plain(z.text))}
  ELSE {Failure} \cup {Success(Plain(t)) : t \in {u \in Texts :
                         Readable(z) /\ z.dict # dict /\ Size[u] <= room}}

(* What the program itself may put into a string: texts that fit into one, *)
(* and frames from elsewhere.                                              *)
Given == {Plain(t) : t \in {u \in Texts : ~Negative(Size[u])}} \cup Imports

(* A text that fits into a string leaves room for its bound: no string has *)
(* nearly half of all addresses.                                           *)
ASSUME LessAssumption ==
  /\ Frozen \subseteq Strings /\ Nil \notin Strings
  /\ Size \in [Texts -> Nat] /\ Blank \in Texts /\ Size[Blank] = 0
  /\ Imports \subseteq {z \in Contents : z.zstd}
  /\ Limits \subseteq Int \cup {Nil} /\ Capas \subseteq Nat
  /\ Overhead \in Nat \ {0}
  /\ Word \in Nat /\ Word >= 4
  /\ Field \in Nat /\ Field >= Word /\ Field % Word = 0
  /\ \A t \in Texts : ~Negative(Size[t]) => ~Negative(Bound(Size[t]))

-----------------------------------------------------------------------------
(* A frozen string has its content from the start. *)
Init ==
  /\ \E z \in [Frozen -> Given] :
       string = [s \in Strings |-> IF s \in Frozen THEN z[s] ELSE Plain(Blank)]
  /\ outcome = NoCall

Assign ==
  /\ \E s \in Strings \ Frozen, z \in Given : string' = [string EXCEPT ![s] = z]
  /\ outcome' = NoCall

(* A call ends and leaves z in its destination. *)
Ends(op, src, dest, d, limit, room, capa, how, z) ==
  /\ string' = [string EXCEPT ![dest] = z]
  /\ outcome' = [op |-> op, src |-> src, dest |-> dest, dict |-> d, limit |-> limit,
                 ended |-> how, room |-> room, capa |-> capa]

(* The call raises before its destination is touched. *)
RefusedBefore(op, src, dest, d, limit) ==
  \E how \in {"range", "frozen"} :
    /\ how = "range"  => limit # Nil /\ ~InRange(limit)
    /\ how = "frozen" => (limit = Nil \/ InRange(limit)) /\ dest \in Frozen
    /\ Ends(op, src, dest, d, limit, 0, 0, how, string[dest])

(* Its destination is emptied and cannot be expanded.  It stays empty. *)
RefusedExpanding(op, src, dest, d, limit, room, capa) ==
  /\ dest \notin Frozen
  /\ \E how \in {"expand", "memory"} :
       /\ how = "expand" => ~Expandable(room)
       /\ how = "memory" => Expandable(room) /\ capa < Long(room)
       /\ Ends(op, src, dest, d, limit, room, capa, how, Plain(Blank))

(* An argument behind maxdest has the wrong type or raises, or libzstd     *)
(* refuses a parameter: the destination stays empty.                       *)
RefusedAfter(op, src, dest, d, limit, room, capa) ==
  /\ dest \notin Frozen /\ Expandable(room)
  /\ Ends(op, src, dest, d, limit, room, Expanded(capa, room), "argument", Plain(Blank))

(* libzstd returned r. *)
Answered(op, src, dest, d, limit, room, capa, r) ==
  /\ dest \notin Frozen /\ Expandable(room)
  /\ Ends(op, src, dest, d, limit, room, Expanded(capa, room),
          IF Failed(r) THEN "zstd" ELSE "ok", r.content)

(* The lengths a destination may be expanded to: maxdest, or one of sizes. *)
Rooms(limit, sizes) ==
  IF limit = Nil THEN {size % Word : size \in sizes}
  ELSE IF InRange(limit) THEN {Wrapped(limit)} ELSE {}

(* Only texts are encoded, and only texts are dictionaries. *)
Encode(src, dest, d, limit) ==
  /\ ~string[src].zstd
  /\ \/ RefusedBefore("encode", src, dest, d, limit)
     \/ \E room \in Rooms(limit, {Bound(Size[string[src].text])}), capa \in Capas :
          \/ RefusedExpanding("encode", src, dest, d, limit, room, capa)
          \/ RefusedAfter("encode", src, dest, d, limit, room, capa)
          \/ \E sized \in BOOLEAN :
             \E r \in CompressResults(string[src].text, DictOf(dest, d), sized, room) :
               Answered("encode", src, dest, d, limit, room, capa, r)

Decode(src, dest, d, limit) ==
  \/ RefusedBefore("decode", src, dest, d, limit)
  \/ \E room \in Rooms(limit, ContentSizes(string[src])), capa \in Capas :
       \/ RefusedExpanding("decode", src, dest, d, limit, room, capa)
       \/ RefusedAfter("decode", src, dest, d, limit, room, capa)
       \/ \E r \in DecompressResults(string[src], DictOf(dest, d), room) :
            Answered("decode", src, dest, d, limit, room, capa, r)

Next ==
  \/ Assign
  \/ \E src \in Strings : \E dest \in Strings \ {src}, d \in Strings \cup {Nil},
        limit \in Limits :
       /\ d # Nil => ~string[d].zstd
       /\ Encode(src, dest, d, limit) \/ Decode(src, dest, d, limit)

Spec == Init /\ [][Next]_vars

-----------------------------------------------------------------------------
TypeOK ==
  /\ string \in [Strings -> Contents]
  /\ outcome \in Calls

(* libzstd is told of no more room than the destination has: it is told a  *)
(* size_t (rsize), and Ruby has expanded the destination by the long that  *)
(* it takes it for.  The two differ from half a size_t on, where maxdest   *)
(* wraps to, and where a header and the value of an unknown size may be.   *)
FitsBuffer ==
  outcome.op # "none" /\ outcome.ended \in {"ok", "zstd"} =>
    outcome.room <= outcome.capa

(* A decode that returns has all data of all frames of its source, given   *)
(* their dictionary: never the part that fits, although maxdest and the    *)
(* size in the first header, cut to a size_t, may be less than that.       *)
DecodedIsWhole ==
  outcome.op = "decode" /\ outcome.ended = "ok" =>
    LET z == string[outcome.src]
    IN  /\ Readable(z)
        /\ z.dict = DictOf(outcome.dest, outcome.dict) =>
             string[outcome.dest] = Plain(z.text)

(* Without maxdest encode has room for any result, and decode for the data *)
(* of one frame that tells its length, as encode makes it, if a string can *)
(* have that length.                                                       *)
DefaultsSuffice ==
  outcome.limit = Nil /\ outcome.ended \in {"expand", "zstd"} =>
    LET z == string[outcome.src]
    IN  /\ outcome.op = "decode"
        /\ \/ ~z.zstd \/ ~z.whole
           \/ z.first # Size[z.text] \/ Negative(z.first)
           \/ z.dict # DictOf(outcome.dest, outcome.dict)
=============================================================================
