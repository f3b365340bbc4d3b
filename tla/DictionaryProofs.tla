-------------------------- MODULE DictionaryProofs --------------------------
(***************************************************************************)
(* Proofs about Dictionary: what a string is expanded to, whatever the     *)
(* widths of the two integer types it is counted in, is what libzstd is    *)
(* told of.                                                                *)
(***************************************************************************)
EXTENDS Dictionary, TLAPS

(* The strings of Ruby.  Both conjuncts of StringsOK are *)
(* needed: a string is expanded by the difference of its length to what is *)
(* asked for, which is an unsigned number because its length is no more    *)
(* than its capacity.                                                      *)
StringsOK ==
  /\ string \in [Strings -> [len : 0 .. Half - 1, id : Ids, capa : 0 .. Half - 1]]
  /\ \A s \in Strings : string[s].len <= string[s].capa
Inv == StringsOK /\ FitsCapacity

LEMMA Widths == Half \in Nat /\ Half > 1 /\ Word = 2 * Half
BY DictionaryAssumption

LEMMA Called ==
  ASSUME NEW op, NEW ok, NEW room, NEW capa, Call(op, ok, room, capa)
  PROVE  outcome'.ok = ok /\ outcome'.room = room /\ outcome'.capa = capa
BY DEF Call

(* The remainder of what needs none. *)
LEMMA Unsigned ==
  /\ \A n \in Int : n % Word \in 0 .. Word - 1
  /\ \A n \in 0 .. Word - 1 : n % Word = n
<1>1. Word \in Nat /\ Word > 0
  BY Widths
<1> QED
  BY <1>1

LEMMA MadeString ==
  ASSUME NEW t \in Made
  PROVE  t \in [len : 0 .. Half - 1, id : Ids, capa : 0 .. Half - 1]
BY DictionaryAssumption DEF Made

LEMMA ReplacedString ==
  ASSUME StringsOK, NEW s \in Strings,
         NEW t \in [len : 0 .. Half - 1, id : Ids, capa : 0 .. Half - 1],
         t.len <= t.capa, string' = [string EXCEPT ![s] = t]
  PROVE  StringsOK'
BY DEF StringsOK

(* aux_str_modify_expand: a string that is too small gets exactly the      *)
(* capacity that is asked for, and it has a length that Ruby allows.       *)
LEMMA Expanded ==
  ASSUME StringsOK, NEW s \in Strings, NEW room \in 0 .. Word - 1,
         string[s].capa < room
  PROVE  LET added == Added(string[s], room) % Word
         IN  /\ string[s].len + added = room
             /\ Fits(string[s], added) => room \in 0 .. Half - 1
<1>1. /\ string[s].len \in 0 .. Half - 1 /\ string[s].capa \in 0 .. Half - 1
      /\ string[s].len <= string[s].capa
  BY DEF StringsOK
<1>2. room - string[s].len \in 0 .. Word - 1
  BY <1>1, Widths
<1>3. Added(string[s], room) % Word = room - string[s].len
  BY <1>2, Unsigned DEF Added
<1> QED
  BY <1>1, <1>3, Widths DEF Fits

(* What add_entropy_tables does to the string s, of which libzstd is told  *)
(* that it has capa bytes.                                                 *)
AddsTo(s, room, capa) ==
  \/ string' = string /\ outcome'.room = 0 /\ outcome'.capa = 0
  \/ /\ capa \in 0 .. Half - 1 /\ room <= capa /\ string[s].capa <= capa
     /\ outcome'.room = room /\ outcome'.capa = capa
     /\ \/ string' = [string EXCEPT ![s] = Untouched(string[s], capa, room)]
        \/ /\ outcome'.ok
           /\ \E len \in 1 .. room, id \in Ids :
                string' = [string EXCEPT ![s] = [len |-> len, id |-> id, capa |-> capa]]

LEMMA AddsEntropyTables ==
  ASSUME StringsOK, AddEntropyTables
  PROVE  \E s \in Strings, room \in Nat, capa \in Nat : AddsTo(s, room, capa)
<1>1. PICK n \in Capacities, s \in Strings :
        /\ InRange(n)
        /\ LET str   == string[s]
               room  == n % Word
               added == Added(str, room) % Word
               capa  == IF str.capa < room THEN str.len + added ELSE str.capa
           IN  IF s \in Frozen \/ (str.capa < room /\ ~Fits(str, added))
               THEN Call("add", FALSE, 0, 0) /\ UNCHANGED string
               ELSE \/ /\ string' = [string EXCEPT ![s] = Untouched(str, capa, room)]
                       /\ Call("add", FALSE, room, capa)
                    \/ /\ room >= str.len /\ room >= LeastSize
                       /\ \E len \in 1 .. room, id \in Ids :
                            /\ string' = [string EXCEPT ![s] =
                                            [len |-> len, id |-> id, capa |-> capa]]
                            /\ Call("add", TRUE, room, capa)
  BY DEF AddEntropyTables
<1> DEFINE room  == n % Word
           added == Added(string[s], room) % Word
           capa  == IF string[s].capa < room THEN string[s].len + added
                    ELSE string[s].capa
<1>2. room \in 0 .. Word - 1
  BY Unsigned, DictionaryAssumption
<1>3. string[s].capa \in 0 .. Half - 1 /\ string[s].len \in 0 .. Half - 1
  BY DEF StringsOK
<1>4. CASE s \in Frozen \/ (string[s].capa < room /\ ~Fits(string[s], added))
  <2>1. Call("add", FALSE, 0, 0) /\ string' = string
    BY <1>1, <1>4
  <2>2. AddsTo(s, 0, 0)
    BY <2>1, Called DEF AddsTo
  <2> QED
    BY <2>2
<1>5. CASE ~(s \in Frozen \/ (string[s].capa < room /\ ~Fits(string[s], added)))
  <2>1. capa \in 0 .. Half - 1 /\ room <= capa /\ string[s].capa <= capa /\ room \in Nat
    <3>1. CASE string[s].capa < room
      <4>1. string[s].len + added = room /\ room \in 0 .. Half - 1
        BY <1>2, <1>5, <3>1, Expanded
      <4> QED
        BY <1>3, <3>1, <4>1
    <3>2. CASE ~(string[s].capa < room)
      BY <1>2, <1>3, <3>2, Widths
    <3> QED
      BY <3>1, <3>2
  <2>2. \/ /\ string' = [string EXCEPT ![s] = Untouched(string[s], capa, room)]
           /\ Call("add", FALSE, room, capa)
        \/ /\ \E len \in 1 .. room, id \in Ids :
                string' = [string EXCEPT ![s] = [len |-> len, id |-> id, capa |-> capa]]
           /\ Call("add", TRUE, room, capa)
    BY <1>1, <1>5
  <2> HIDE DEF room, added, capa
  <2>3. capa \in Nat
    BY <2>1, Widths
  <2>4. AddsTo(s, room, capa)
    BY <2>1, <2>2, <2>3, Called DEF AddsTo
  <2> QED
    BY <2>1, <2>3, <2>4
<1> QED
  BY <1>4, <1>5

LEMMA AddsInv ==
  ASSUME Inv, NEW s \in Strings, NEW room \in Nat, NEW capa \in Nat,
         AddsTo(s, room, capa)
  PROVE  Inv' /\ (~outcome'.ok => Held' = Held)
<1>1. /\ string \in [Strings -> [len : 0 .. Half - 1, id : Ids, capa : 0 .. Half - 1]]
      /\ \A t \in Strings : string[t].len <= string[t].capa
  BY DEF Inv, StringsOK
<1>2. CASE string' = string /\ outcome'.room = 0 /\ outcome'.capa = 0
  BY <1>2 DEF AddsTo, Inv, StringsOK, FitsCapacity, Held
<1>3. CASE /\ capa \in 0 .. Half - 1 /\ string[s].capa <= capa
           /\ outcome'.room = room /\ outcome'.capa = capa /\ room <= capa
           /\ string' = [string EXCEPT ![s] = Untouched(string[s], capa, room)]
  <2> DEFINE t == Untouched(string[s], capa, room)
  <2>1. /\ t \in [len : 0 .. Half - 1, id : Ids, capa : 0 .. Half - 1]
        /\ t.capa = capa /\ t.len = string[s].len /\ t.id = string[s].id
    BY <1>1, <1>3 DEF Untouched
  <2> HIDE DEF t
  <2>2. string' = [string EXCEPT ![s] = t] /\ t.len <= t.capa
    BY <1>1, <1>3, <2>1, Widths DEF t
  <2>3. StringsOK'
    BY <2>1, <2>2, ReplacedString DEF Inv
  <2>4. \A u \in Strings : string'[u].len = string[u].len /\ string'[u].id = string[u].id
    BY <1>1, <2>1, <2>2
  <2> QED
    BY <1>3, <2>3, <2>4 DEF AddsTo, Inv, FitsCapacity, Held
<1>4. CASE /\ capa \in 0 .. Half - 1
           /\ outcome'.room = room /\ outcome'.capa = capa /\ room <= capa
           /\ outcome'.ok
           /\ \E len \in 1 .. room, id \in Ids :
                string' = [string EXCEPT ![s] = [len |-> len, id |-> id, capa |-> capa]]
  <2>1. PICK len \in 1 .. room, id \in Ids :
          string' = [string EXCEPT ![s] = [len |-> len, id |-> id, capa |-> capa]]
    BY <1>4
  <2>2. len \in 0 .. Half - 1 /\ len <= capa
    BY <1>4, Widths
  <2> DEFINE t == [len |-> len, id |-> id, capa |-> capa]
  <2>3. /\ t \in [len : 0 .. Half - 1, id : Ids, capa : 0 .. Half - 1]
        /\ t.len <= t.capa
    BY <1>4, <2>2
  <2> HIDE DEF t
  <2>4. StringsOK'
    BY <2>1, <2>3, ReplacedString DEF Inv, t
  <2> QED
    BY <1>4, <2>4 DEF AddsTo, Inv, FitsCapacity
<1> QED
  BY <1>2, <1>3, <1>4 DEF AddsTo

(* Every step keeps Inv, and one whose call raises what the strings hold.  *)
LEMMA NextInv ==
  ASSUME Inv, [Next]_vars
  PROVE  Inv' /\ (~outcome'.ok => Held' = Held)
<1>1. CASE Assign
  <2>1. PICK s \in Strings, t \in Made :
          t.len <= t.capa /\ string' = [string EXCEPT ![s] = t] /\ outcome' = NoCall
    BY <1>1 DEF Assign
  <2>2. StringsOK'
    BY <2>1, MadeString, ReplacedString DEF Inv
  <2> QED
    BY <2>1, <2>2 DEF Inv, NoCall, FitsCapacity
<1>2. CASE Refused
  BY <1>2 DEF Refused, Call, Inv, StringsOK, FitsCapacity, Held
<1>3. CASE Train
  <2>1. PICK n \in Capacities, s \in Strings :
          /\ InRange(n) /\ n % Word < Half
          /\ \/ \E len \in 0 .. n, id \in Ids :
                  /\ string' = [string EXCEPT ![s] = [len |-> len, id |-> id, capa |-> n]]
                  /\ Call("train", TRUE, n, n)
             \/ Call("train", FALSE, n, n) /\ UNCHANGED string
    BY <1>3 DEF Train
  <2>2. n \in 0 .. Half - 1
    BY <2>1, Widths, DictionaryAssumption DEF InRange
  <2>3. outcome'.room = n /\ outcome'.capa = n
    BY <2>1, Called
  <2>4. CASE \E len \in 0 .. n, id \in Ids :
               /\ string' = [string EXCEPT ![s] = [len |-> len, id |-> id, capa |-> n]]
               /\ Call("train", TRUE, n, n)
    <3>1. PICK len \in 0 .. n, id \in Ids :
            /\ string' = [string EXCEPT ![s] = [len |-> len, id |-> id, capa |-> n]]
            /\ outcome'.ok
      BY <2>4, Called
    <3> DEFINE t == [len |-> len, id |-> id, capa |-> n]
    <3>2. /\ t \in [len : 0 .. Half - 1, id : Ids, capa : 0 .. Half - 1]
          /\ t.len <= t.capa
      BY <2>2, Widths
    <3> HIDE DEF t
    <3>3. StringsOK'
      BY <3>1, <3>2, ReplacedString DEF Inv, t
    <3> QED
      BY <2>2, <2>3, <3>1, <3>3 DEF Inv, FitsCapacity
  <2>5. CASE string' = string
    BY <2>2, <2>3, <2>5 DEF Inv, StringsOK, FitsCapacity, Held
  <2> QED
    BY <2>1, <2>4, <2>5
<1>4. CASE AddEntropyTables
  BY <1>4, AddsEntropyTables, AddsInv DEF Inv
<1>5. CASE GetId
  <2>1. string' = string /\ outcome'.room = 0 /\ outcome'.capa = 0
    BY <1>5, Called DEF GetId
  <2> QED
    BY <2>1 DEF Inv, StringsOK, FitsCapacity, Held
<1>6. CASE UNCHANGED vars
  BY <1>6 DEF vars, Inv, StringsOK, FitsCapacity, Held
<1> QED
  BY <1>1, <1>2, <1>3, <1>4, <1>5, <1>6 DEF Next

LEMMA InitInv == Init => Inv
<1> SUFFICES ASSUME Init PROVE Inv
  OBVIOUS
<1>1. string \in [Strings -> {s \in Made : s.len = s.capa}]
  BY DEF Init
<1>2. \A s \in Strings :
        /\ string[s] \in [len : 0 .. Half - 1, id : Ids, capa : 0 .. Half - 1]
        /\ string[s].len = string[s].capa
  BY <1>1, MadeString
<1>3. StringsOK
  BY <1>1, <1>2, Widths DEF StringsOK
<1> QED
  BY <1>3 DEF Init, NoCall, Inv, FitsCapacity

(* Inv holds throughout. *)
THEOREM DictionaryCorrect == Spec => []Inv
<1>1. Inv /\ [Next]_vars => Inv'
  BY NextInv
<1> QED
  BY InitInv, <1>1, PTL DEF Spec

(* Every string has a length that Ruby allows and no more than its         *)
(* capacity, when it is made a dictionary as when it could not be          *)
(* (aux_str_modify_expand and rb_str_set_len in add_entropy_tables).       *)
THEOREM TypeCorrect == Spec => []TypeOK
<1>1. Inv => TypeOK
  <2>1. SUFFICES ASSUME Inv, NEW s \in Strings
                 PROVE  /\ string[s].len \in 0 .. string[s].capa
                        /\ string[s].capa \in 0 .. Half - 1
                        /\ string[s].id \in Ids
    BY DEF TypeOK
  <2>2. /\ string[s].len \in 0 .. Half - 1 /\ string[s].capa \in 0 .. Half - 1
        /\ string[s].id \in Ids /\ string[s].len <= string[s].capa
    BY <2>1 DEF Inv, StringsOK
  <2> QED
    BY <2>2, Widths
<1> QED
  BY DictionaryCorrect, <1>1, PTL

(* libzstd is never told of more room than the string has, for any widths  *)
(* of long and size_t and any capacity the program asks for                *)
(* (dict_s_train_from_buffer and dict_s_add_entropy_tables).               *)
THEOREM FitsCapacityCorrect == Spec => []FitsCapacity
<1>1. Inv => FitsCapacity
  BY DEF Inv
<1> QED
  BY DictionaryCorrect, <1>1, PTL

(* A call that raises leaves every string with the bytes and the id it     *)
(* had, although it may have expanded it.                                  *)
THEOREM RaiseKeepsDictCorrect == Spec => RaiseKeepsDict
<1>1. Inv /\ [Next]_vars => [~outcome'.ok => Held' = Held]_vars
  BY NextInv
<1> QED
  BY DictionaryCorrect, <1>1, PTL DEF Spec, RaiseKeepsDict
=============================================================================
