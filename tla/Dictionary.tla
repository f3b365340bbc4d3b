----------------------------- MODULE Dictionary -----------------------------
(***************************************************************************)
(* Zstd::Dictionary of ext/extzstd.c: training a dictionary, turning a     *)
(* string into one in place, and its id.  The capacity is converted before *)
(* a pointer is taken, so a call is one step.                              *)
(***************************************************************************)
EXTENDS Integers

CONSTANTS
  Strings, Frozen,
  Lengths,      (* of the strings the program makes                        *)
  Capacities,   (* arguments dict_capacity                                 *)
  Ids,          (* ids a dictionary may have, 0 for none                   *)
  LeastSize,    (* ZDICT_DICTSIZE_MIN                                      *)
  ErrorCodes,   (* the highest results of libzstd that are error codes     *)
  Word          (* number of values of a size_t                            *)

Half == Word \div 2

ASSUME DictionaryAssumption ==
  /\ Frozen \subseteq Strings
  /\ Lengths \subseteq 0 .. Half - 1 /\ Capacities \subseteq Int
  /\ Ids \subseteq 0 .. Word - 1 /\ 0 \in Ids
  /\ LeastSize \in Nat \ {0} /\ ErrorCodes \in 1 .. Half - 1 /\ Half \in Nat
  /\ Word = 2 * Half

VARIABLES
  string,   (* length, id and capacity of each string                      *)
  outcome   (* the last call, until the program changes a string           *)

vars == <<string, outcome>>

Held == [s \in Strings |-> <<string[s].len, string[s].id>>]
NoCall == [op |-> "none", ok |-> TRUE, room |-> 0, capa |-> 0]

(* Faulty variants of the operators below, which the properties must catch. *)
ByCapacity(str, size) == size - str.capa
LengthFirst(str, capa, size) == [str EXCEPT !.capa = capa, !.len = size]

(* NUM2SIZET takes the integers of a long and of a size_t. *)
InRange(n) == n \in -Half .. Word - 1

(* ZSTD_isError.  getid asks it about an id, too.                          *)
IsError(s) == s > Word - ErrorCodes

(* rb_str_modify_expand takes a long: what it adds to the length.          *)
Added(str, size) == size - str.len
Fits(str, added) == added < Half /\ str.len + added < Half

(* A string whose call raises after it was expanded. *)
Untouched(str, capa, size) == [str EXCEPT !.capa = capa]

Call(op, ok, room, capa) ==
  outcome' = [op |-> op, ok |-> ok, room |-> room, capa |-> capa]

-----------------------------------------------------------------------------
Made == [len : Lengths, id : Ids, capa : Lengths]

Init ==
  /\ string \in [Strings -> {s \in Made : s.len = s.capa}]
  /\ outcome = NoCall

Assign ==
  /\ \E s \in Strings \ Frozen, t \in Made : /\ t.len <= t.capa
                                             /\ string' = [string EXCEPT ![s] = t]
  /\ outcome' = NoCall

(* A capacity that is refused, as is a negative length of a new string.    *)
Refused ==
  /\ \E n \in Capacities : ~InRange(n) \/ n % Word >= Half
  /\ Call("refused", FALSE, 0, 0)
  /\ UNCHANGED string

(* The dictionary is a new string, of any length up to its capacity and    *)
(* empty for a sample that is too short; or libzstd fails.                 *)
Train ==
  /\ \E n \in Capacities, s \in Strings \ Frozen :
       /\ InRange(n) /\ n % Word < Half
       /\ \/ \E len \in 0 .. n, id \in Ids :
               /\ string' = [string EXCEPT ![s] = [len |-> len, id |-> id, capa |-> n]]
               /\ Call("train", TRUE, n, n)
          \/ Call("train", FALSE, n, n) /\ UNCHANGED string

(* aux_str_modify_expand, then ZDICT_finalizeDictionary with the string as *)
(* its source and its destination.                                         *)
AddEntropyTables ==
  \E n \in Capacities, s \in Strings :
    /\ InRange(n)
    /\ LET str   == string[s]
           room  == n % Word
           added == Added(str, room) % Word
           capa  == IF str.capa < room THEN str.len + added ELSE str.capa
       IN  IF s \in Frozen \/ (str.capa < room /\ ~Fits(str, added))
           THEN Call("add", FALSE, 0, 0) /\ UNCHANGED string
           ELSE \/ /\ string' = [string EXCEPT ![s] = Untouched(str, capa, room)]
                   /\ Call("add", FALSE, room, capa)
                \/ /\ room >= str.len /\ room >= LeastSize
                   /\ \E len \in 1 .. room, id \in Ids :
                        /\ string' = [string EXCEPT ![s] =
                                        [len |-> len, id |-> id, capa |-> capa]]
                        /\ Call("add", TRUE, room, capa)

GetId ==
  /\ \E s \in Strings : Call("getid", ~IsError(string[s].id), 0, 0)
  /\ UNCHANGED string

Next == Assign \/ Refused \/ Train \/ AddEntropyTables \/ GetId
Spec == Init /\ [][Next]_vars

-----------------------------------------------------------------------------
TypeOK ==
  \A s \in Strings : /\ string[s].len \in 0 .. string[s].capa
                     /\ string[s].capa \in 0 .. Half - 1
                     /\ string[s].id \in Ids

(* libzstd is never told of more room than the string has.                 *)
FitsCapacity == outcome.room <= outcome.capa

(* A string that could not be made a dictionary is what it was, although   *)
(* it is expanded in place before libzstd is called.                       *)
RaiseKeepsDict == [][~outcome'.ok => Held' = Held]_vars
=============================================================================
