-------------------------- MODULE LifecycleProofs --------------------------
(***************************************************************************)
(* Proofs about Lifecycle, for any numbers of objects, callers and         *)
(* contexts.                                                               *)
(***************************************************************************)
EXTENDS Lifecycle, TLAPS

(* OwnedOnce of any objects, heap, calls and lost contexts. *)
Owned(objects, heap, calls, gone) ==
  /\ \A o \in Objects : objects[o].context # NULL => objects[o].context \in heap
  /\ \A c \in Callers : calls[c].at = "less" => calls[c].context \in heap
  /\ gone \subseteq heap
  /\ \A o \in Objects : \A p \in Objects \ {o} :
       objects[o].context # NULL => objects[o].context # objects[p].context
  /\ \A c \in Callers : calls[c].at = "less" =>
       /\ \A d \in Callers \ {c} : calls[d].at = "less" => calls[d].context # calls[c].context
       /\ \A o \in Objects : objects[o].context # calls[c].context
       /\ calls[c].context \notin gone
  /\ \A o \in Objects : objects[o].context \notin gone
  /\ \A k \in heap :
       \/ \E o \in Objects : objects[o].context = k
       \/ \E c \in Callers : calls[c].at = "less" /\ calls[c].context = k
       \/ k \in gone

(* A caller in the conversion of a level is on an object that the program  *)
(* holds, whose context is in place and not configured yet.  Nothing is    *)
(* said of callers in a method: an initialize that fails beside them takes *)
(* their context away.                                                     *)
CallInv ==
  \A c \in Callers : call[c].at = "level" =>
    /\ call[c].on \in Objects
    /\ object[call[c].on].at = "held"
    /\ object[call[c].on].context # NULL
    /\ ~object[call[c].on].ready

(* As long as one caller converts the level for an object, initialize      *)
(* refuses all others.                                                     *)
LevelInv ==
  \A c, d \in Callers :
    call[c].at = "level" /\ call[d].at = "level" /\ call[c].on = call[d].on => c = d

ReadyInv == \A o \in Objects : object[o].ready => object[o].context # NULL

GoneInv == \A o \in Objects : object[o].at = "gone" => object[o].context = NULL

Inv == TypeOK /\ CallInv /\ LevelInv /\ ReadyInv /\ GoneInv /\ OwnedOnce

-----------------------------------------------------------------------------
(* Owned is OwnedOnce with the variables as parameters. *)
LEMMA OwnedNow == OwnedOnce <=> Owned(object, live, call, lost)
  BY DEF OwnedOnce, HeldAreLive, HeldApart, LiveAreHeld, Owned

LEMMA OwnedNext == OwnedOnce' <=> Owned(object', live', call', lost')
  BY DEF OwnedOnce, HeldAreLive, HeldApart, LiveAreHeld, Owned

(* An object without a context takes a new one. *)
LEMMA OwnedGain ==
  ASSUME NEW objects, NEW after, NEW heap, NEW calls, NEW gone,
         NEW o \in Objects, NEW k,
         Owned(objects, heap, calls, gone),
         k # NULL, k \notin heap, NULL \notin heap, objects[o].context = NULL,
         \A p \in Objects : after[p].context = IF p = o THEN k ELSE objects[p].context
  PROVE  Owned(after, heap \cup {k}, calls, gone)
  BY DEF Owned

(* An object gives up its context, which is freed. *)
LEMMA OwnedLose ==
  ASSUME NEW objects, NEW after, NEW heap, NEW calls, NEW gone,
         NEW o \in Objects,
         Owned(objects, heap, calls, gone),
         objects[o].context # NULL, NULL \notin heap,
         \A p \in Objects : after[p].context = IF p = o THEN NULL ELSE objects[p].context
  PROVE  Owned(after, heap \ {objects[o].context}, calls, gone)
  BY DEF Owned

(* Only the contexts of objects, and what the ContextLess calls hold, matter. *)
LEMMA OwnedSame ==
  ASSUME NEW objects, NEW after, NEW heap, NEW calls, NEW later, NEW gone,
         Owned(objects, heap, calls, gone),
         \A p \in Objects : after[p].context = objects[p].context,
         \A c \in Callers : /\ later[c].at = "less" <=> calls[c].at = "less"
                            /\ calls[c].at = "less" => later[c].context = calls[c].context
  PROVE  Owned(after, heap, later, gone)
  BY DEF Owned

(* The garbage in D is collected. *)
LEMMA OwnedSweep ==
  ASSUME TypeOK, OwnedOnce, NEW D \in SUBSET Objects
  PROVE  /\ Owned(Swept(D), live \ FreedWith(D), call, lost)
         /\ Swept(D) \in [Objects -> ObjectStates]
         /\ NULL \notin live \ FreedWith(D)
<1>1. Swept(D) \in [Objects -> ObjectStates]
  BY DEF Swept, TypeOK, Gone, ObjectStates
<1>2. NULL \notin live
  BY LifecycleAssumption DEF TypeOK
<1>3. \A p \in Objects : Swept(D)[p].context = IF p \in D THEN NULL ELSE object[p].context
  BY DEF Swept, Gone
<1>4. \A k : k \in FreedWith(D) <=> k # NULL /\ \E p \in D : object[p].context = k
  BY DEF FreedWith
<1>5. Owned(object, live, call, lost)
  BY OwnedNow
<1>6. Owned(Swept(D), live \ FreedWith(D), call, lost)
  BY <1>2, <1>3, <1>4, <1>5 DEF Owned
<1> QED
  BY <1>1, <1>2, <1>6

-----------------------------------------------------------------------------
LEMMA InitInv == Init => Inv
<1> SUFFICES ASSUME Init PROVE Inv
  OBVIOUS
<1>1. /\ \A o \in Objects : object[o] = Gone
      /\ \A c \in Callers : call[c] = Idle
      /\ live = {} /\ lost = {}
  BY DEF Init
<1>2. TypeOK
  BY DEF Init, TypeOK, Gone, Idle, ObjectStates, CallStates
<1>3. CallInv /\ LevelInv /\ ReadyInv /\ GoneInv
  BY <1>1 DEF CallInv, LevelInv, ReadyInv, GoneInv, Gone, Idle
<1>4. OwnedOnce
  BY <1>1 DEF OwnedOnce, HeldAreLive, HeldApart, LiveAreHeld, Gone, Idle
<1> QED
  BY <1>2, <1>3, <1>4 DEF Inv

(* A collection and an initialize of o, which has no context, do not       *)
(* disturb the objects whose level is being converted.                     *)
LEMMA OthersKept ==
  ASSUME Inv, NEW D \in SUBSET Garbage, NEW o \in Objects,
         object[o].context = NULL,
         \A p \in Objects \ {o} : object'[p] = Swept(D)[p],
         NEW c \in Callers, call[c].at = "level"
  PROVE  call[c].on # o /\ object'[call[c].on] = object[call[c].on]
<1>1. /\ call[c].on \in Objects /\ object[call[c].on].at = "held"
      /\ object[call[c].on].context # NULL
  BY DEF Inv, CallInv
<1>2. call[c].on # o
  BY <1>1
<1>3. call[c].on \notin D
  BY <1>1 DEF Garbage
<1> QED
  BY <1>1, <1>2, <1>3 DEF Swept

LEMMA InitEncoderInv ==
  ASSUME NEW c \in Callers, NEW o \in Objects, Inv, InitEncoder(c, o)
  PROVE  Inv'
<1> USE LifecycleAssumption
<1>1. /\ object[o].context = NULL /\ object[o].at = "held" /\ call[c] = Idle /\ lost' = lost
  BY DEF InitEncoder, MayCall, Refused
<1>2. PICK D \in SUBSET Garbage, k \in Addresses \cup {NULL} :
        /\ MayCreate(D, k)
        /\ \/ /\ k = NULL
              /\ object' = Swept(D) /\ live' = live \ FreedWith(D) /\ call' = call
           \/ /\ k # NULL
              /\ Configure(Swept(D), (live \ FreedWith(D)) \cup {k}, o, k)
              /\ call' = call
           \/ /\ k # NULL
              /\ object' = [Swept(D) EXCEPT ![o].context = k]
              /\ live' = (live \ FreedWith(D)) \cup {k}
              /\ Enter(c, "level", o, NULL)
  BY DEF InitEncoder
<1> DEFINE objects == Swept(D)
           heap    == live \ FreedWith(D)
<1>3. D \in SUBSET Objects /\ o \notin D
  BY <1>1 DEF Garbage
<1>4. /\ Owned(objects, heap, call, lost)
      /\ objects \in [Objects -> ObjectStates] /\ NULL \notin heap
      /\ heap \subseteq Addresses /\ lost \subseteq Addresses
      /\ call \in [Callers -> CallStates]
  BY <1>3, OwnedSweep DEF Inv, TypeOK
<1>5. objects[o] = object[o] /\ objects[o].context = NULL
  BY <1>1, <1>3 DEF Swept
<1>6. k = NULL \/ k \in Addresses \ heap
  BY <1>2 DEF MayCreate
<1> HIDE DEF objects, heap
(* The state after, case by case. *)
<1>7. /\ TypeOK' /\ OwnedOnce'
      /\ \A p \in Objects \ {o} : object'[p] = Swept(D)[p]
      /\ \/ call' = call
         \/ /\ call' = [call EXCEPT ![c] = [at |-> "level", on |-> o, context |-> NULL]]
            /\ object'[o] = [object[o] EXCEPT !.context = k] /\ k # NULL
      /\ object'[o].ready => object'[o].context # NULL
      /\ object'[o].at = "held"
  <2>0. object[o] \in ObjectStates /\ ~object[o].ready
    BY <1>1 DEF Inv, TypeOK, ReadyInv
  <2>1. CASE k = NULL /\ object' = objects /\ live' = heap /\ call' = call
    <3>1. OwnedOnce'
      BY <1>1, <1>4, <2>1, OwnedNext
    <3> QED
      BY <1>1, <1>4, <1>5, <2>0, <2>1, <3>1 DEF TypeOK, objects
  <2>2. CASE /\ k # NULL /\ call' = call
             /\ object' = [objects EXCEPT ![o].context = k, ![o].ready = TRUE]
             /\ live' = heap \cup {k}
    <3>1. \A p \in Objects : object'[p].context = IF p = o THEN k ELSE objects[p].context
      BY <1>4, <2>2 DEF ObjectStates
    <3>2. Owned(object', heap \cup {k}, call, lost)
      BY <1>4, <1>5, <1>6, <2>2, <3>1, OwnedGain
    <3>3. OwnedOnce'
      BY <1>1, <2>2, <3>2, OwnedNext
    <3>4. object' \in [Objects -> ObjectStates] /\ object'[o].at = "held"
      BY <1>1, <1>4, <1>5, <2>2 DEF ObjectStates
    <3> QED
      BY <1>1, <1>4, <1>6, <2>2, <3>1, <3>3, <3>4 DEF TypeOK, objects
  <2>3. CASE /\ k # NULL /\ call' = call
             /\ object' = [objects EXCEPT ![o].context = NULL]
             /\ live' = (heap \cup {k}) \ {k}
    <3>1. live' = heap
      BY <1>6, <2>3
    <3>2. \A p \in Objects : object'[p].context = objects[p].context
      BY <1>4, <1>5, <2>3 DEF ObjectStates
    <3>3. Owned(object', heap, call, lost)
      BY <1>4, <3>2, OwnedSame
    <3>4. OwnedOnce'
      BY <1>1, <2>3, <3>1, <3>3, OwnedNext
    <3>5. object' \in [Objects -> ObjectStates]
      BY <1>4, <2>3 DEF ObjectStates
    <3>6. ~object'[o].ready /\ object'[o].at = "held"
      BY <1>1, <1>4, <1>5, <2>0, <2>3 DEF ObjectStates
    <3> QED
      BY <1>1, <1>4, <1>5, <2>0, <2>3, <3>1, <3>4, <3>5, <3>6 DEF TypeOK, objects
  <2>4. CASE /\ k # NULL
             /\ object' = [objects EXCEPT ![o].context = k]
             /\ live' = heap \cup {k}
             /\ call' = [call EXCEPT ![c] = [at |-> "level", on |-> o, context |-> NULL]]
    <3>1. \A p \in Objects : object'[p].context = IF p = o THEN k ELSE objects[p].context
      BY <1>4, <2>4 DEF ObjectStates
    <3>2. Owned(object', heap \cup {k}, call, lost)
      BY <1>4, <1>5, <1>6, <2>4, <3>1, OwnedGain
    <3>3. \A d \in Callers : /\ call'[d].at = "less" <=> call[d].at = "less"
                             /\ call[d].at = "less" => call'[d].context = call[d].context
      BY <1>1, <1>4, <2>4 DEF Idle
    <3>4. Owned(object', heap \cup {k}, call', lost)
      BY <3>2, <3>3, OwnedSame
    <3>5. OwnedOnce'
      BY <1>1, <2>4, <3>4, OwnedNext
    <3>6. object' \in [Objects -> ObjectStates] /\ call' \in [Callers -> CallStates]
      BY <1>4, <1>6, <2>4 DEF ObjectStates, CallStates
    <3>7. object'[o] = [object[o] EXCEPT !.context = k] /\ object'[o].at = "held"
      BY <1>1, <1>4, <1>5, <2>0, <2>4 DEF ObjectStates
    <3> QED
      BY <1>1, <1>4, <1>6, <2>4, <3>1, <3>5, <3>6, <3>7 DEF TypeOK, objects
  <2> QED
    BY <1>2, <2>1, <2>2, <2>3, <2>4 DEF Configure, Disabled, Enter, objects, heap
<1>8. \A d \in Callers : call[d].at = "level" =>
        call[d].on # o /\ object'[call[d].on] = object[call[d].on]
  BY <1>1, <1>7, OthersKept
<1>9. ReadyInv' /\ GoneInv'
  BY <1>7 DEF Inv, ReadyInv, GoneInv, Swept, Gone
<1>10. CASE call' = call
  BY <1>7, <1>8, <1>9, <1>10 DEF Inv, CallInv, LevelInv
<1>11. CASE /\ call' = [call EXCEPT ![c] = [at |-> "level", on |-> o, context |-> NULL]]
            /\ object'[o] = [object[o] EXCEPT !.context = k] /\ k # NULL
  <2>1. /\ call'[c].at = "level" /\ call'[c].on = o
        /\ \A d \in Callers \ {c} : call'[d] = call[d]
    BY <1>4, <1>11
  <2>2. object'[o].at = "held" /\ object'[o].context # NULL /\ object'[o].ready = object[o].ready
    BY <1>1, <1>4, <1>11 DEF Inv, TypeOK, ObjectStates
  <2>3. ~object[o].ready
    BY <1>1 DEF Inv, ReadyInv
  <2>4. CallInv'
    BY <1>8, <2>1, <2>2, <2>3 DEF Inv, CallInv
  <2>5. LevelInv'
    BY <1>8, <2>1 DEF Inv, LevelInv
  <2> QED
    BY <1>7, <1>9, <2>4, <2>5 DEF Inv
<1> QED
  BY <1>7, <1>10, <1>11

LEMMA InitDecoderInv ==
  ASSUME NEW c \in Callers, NEW o \in Objects, Inv, InitDecoder(c, o)
  PROVE  Inv'
<1> USE LifecycleAssumption
<1>1. /\ object[o].context = NULL /\ object[o].at = "held" /\ UNCHANGED <<call, lost>>
  BY DEF InitDecoder, MayCall, Refused
<1>2. PICK D \in SUBSET Garbage, k \in Addresses \cup {NULL}, accepted \in BOOLEAN :
        /\ MayCreate(D, k)
        /\ object' = [Swept(D) EXCEPT ![o].context = k, ![o].ready = k # NULL /\ accepted]
        /\ live' = (live \ FreedWith(D)) \cup ({k} \ {NULL})
  BY DEF InitDecoder, Created
<1> DEFINE objects == Swept(D)
           heap    == live \ FreedWith(D)
<1>3. D \in SUBSET Objects /\ o \notin D
  BY <1>1 DEF Garbage
<1>4. /\ Owned(objects, heap, call, lost)
      /\ objects \in [Objects -> ObjectStates] /\ NULL \notin heap
      /\ heap \subseteq Addresses /\ lost \subseteq Addresses
      /\ call \in [Callers -> CallStates]
  BY <1>3, OwnedSweep DEF Inv, TypeOK
<1>5. objects[o] = object[o] /\ objects[o].context = NULL
  BY <1>1, <1>3 DEF Swept
<1>6. k = NULL \/ k \in Addresses \ heap
  BY <1>2 DEF MayCreate
<1>7. \A p \in Objects \ {o} : object'[p] = Swept(D)[p]
  BY <1>2, <1>4 DEF objects
<1> HIDE DEF objects, heap
<1>8. object' = [objects EXCEPT ![o].context = k, ![o].ready = k # NULL /\ accepted]
      /\ live' = heap \cup ({k} \ {NULL})
  BY <1>2 DEF objects, heap
<1>9. /\ \A p \in Objects : object'[p].context = IF p = o THEN k ELSE objects[p].context
      /\ object' \in [Objects -> ObjectStates]
      /\ object'[o].ready => k # NULL
      /\ object'[o].at = "held"
  <2>1. (k # NULL /\ accepted) \in BOOLEAN
    OBVIOUS
  <2> DEFINE r == k # NULL /\ accepted
  <2>2. r => k # NULL
    OBVIOUS
  <2> HIDE DEF r
  <2> QED
    BY <1>1, <1>4, <1>5, <1>8, <2>1, <2>2 DEF ObjectStates, r
<1>10. OwnedOnce'
  <2>1. CASE k = NULL
    <3>1. Owned(object', heap, call, lost)
      BY <1>4, <1>5, <1>9, <2>1, OwnedSame
    <3> QED
      BY <1>1, <1>8, <2>1, <3>1, OwnedNext
  <2>2. CASE k # NULL
    <3>1. Owned(object', heap \cup {k}, call, lost)
      BY <1>4, <1>5, <1>6, <1>9, <2>2, OwnedGain
    <3> QED
      BY <1>1, <1>8, <2>2, <3>1, OwnedNext
  <2> QED
    BY <2>1, <2>2
<1>11. TypeOK'
  BY <1>1, <1>4, <1>8, <1>9 DEF TypeOK
<1>12. \A d \in Callers : call[d].at = "level" =>
        call[d].on # o /\ object'[call[d].on] = object[call[d].on]
  BY <1>1, <1>7, OthersKept
<1>13. ReadyInv' /\ GoneInv'
  BY <1>1, <1>5, <1>7, <1>8, <1>9 DEF Inv, ReadyInv, GoneInv, Swept, Gone
<1> QED
  BY <1>1, <1>10, <1>11, <1>12, <1>13 DEF Inv, CallInv, LevelInv

(* The conversion of the level is over for o, and nobody else is on it.    *)
LEMMA LevelGivenInv ==
  ASSUME NEW c \in Callers, Inv, LevelGiven(c)
  PROVE  Inv'
<1> USE LifecycleAssumption
<1> DEFINE o == call[c].on
           k == object[o].context
<1>1. /\ call[c].at = "level" /\ o \in Objects /\ k # NULL /\ ~object[o].ready
      /\ object[o].at = "held"
  BY DEF LevelGiven, Inv, CallInv
<1>2. /\ call' = [call EXCEPT ![c] = Idle] /\ lost' = lost
      /\ \/ /\ object' = [object EXCEPT ![o].context = k, ![o].ready = TRUE]
            /\ live' = live
         \/ /\ object' = [object EXCEPT ![o].context = NULL]
            /\ live' = live \ {k}
  BY DEF LevelGiven, Configure, Disabled
<1>3. /\ Owned(object, live, call, lost)
      /\ object \in [Objects -> ObjectStates] /\ NULL \notin live
      /\ live \subseteq Addresses /\ call \in [Callers -> CallStates]
      /\ k \in Addresses
  BY <1>1, OwnedNow DEF Inv, TypeOK, ObjectStates
<1>4. \A d \in Callers \ {c} :
        /\ call'[d] = call[d]
        /\ call[d].at = "level" =>
             call[d].on # o /\ object'[call[d].on] = object[call[d].on]
  <2>1. \A d \in Callers \ {c} : call[d].at = "level" => call[d].on # o
    BY <1>1 DEF Inv, LevelInv
  <2> QED
    BY <1>2, <1>3, <2>1 DEF Inv, CallInv
<1>5. call'[c] = Idle /\ Idle \in CallStates
  BY <1>2, <1>3 DEF Idle, CallStates
<1>6. \A d \in Callers : /\ call'[d].at = "less" <=> call[d].at = "less"
                         /\ call[d].at = "less" => call'[d].context = call[d].context
  BY <1>1, <1>4, <1>5 DEF Idle
<1> HIDE DEF o, k
<1>7. /\ OwnedOnce'
      /\ object' \in [Objects -> ObjectStates]
      /\ object'[o].ready => object'[o].context # NULL
      /\ object'[o].at = "held"
      /\ live' \subseteq Addresses
      /\ \A p \in Objects \ {o} : object'[p] = object[p]
  <2>1. CASE object' = [object EXCEPT ![o].context = k, ![o].ready = TRUE] /\ live' = live
    <3>1. /\ object' \in [Objects -> ObjectStates]
          /\ \A p \in Objects : object'[p].context = object[p].context
          /\ object'[o].at = "held"
      BY <1>1, <1>3, <2>1 DEF ObjectStates, k
    <3>2. Owned(object', live, call', lost)
      BY <1>3, <1>6, <3>1, OwnedSame
    <3>3. OwnedOnce'
      BY <1>2, <2>1, <3>2, OwnedNext
    <3> QED
      BY <1>1, <1>3, <2>1, <3>1, <3>3 DEF k
  <2>2. CASE object' = [object EXCEPT ![o].context = NULL] /\ live' = live \ {k}
    <3>1. /\ object' \in [Objects -> ObjectStates]
          /\ \A p \in Objects :
               object'[p].context = IF p = o THEN NULL ELSE object[p].context
          /\ object'[o].ready = object[o].ready /\ object'[o].at = "held"
      BY <1>1, <1>3, <2>2 DEF ObjectStates
    <3>2. Owned(object', live \ {k}, call, lost)
      BY <1>1, <1>3, <3>1, OwnedLose DEF k
    <3>3. Owned(object', live \ {k}, call', lost)
      BY <1>6, <3>2, OwnedSame
    <3>4. OwnedOnce'
      BY <1>2, <2>2, <3>3, OwnedNext
    <3> QED
      BY <1>1, <1>3, <2>2, <3>1, <3>4
  <2> QED
    BY <1>2, <2>1, <2>2
<1>8. TypeOK'
  BY <1>2, <1>3, <1>5, <1>7 DEF Inv, TypeOK
<1>9. CallInv' /\ LevelInv'
  <2>1. call'[c].at = "idle"
    BY <1>5 DEF Idle
  <2>2. CallInv'
    BY <1>4, <2>1 DEF Inv, CallInv
  <2>3. LevelInv'
    BY <1>4, <2>1 DEF Inv, LevelInv
  <2> QED
    BY <2>2, <2>3
<1>10. ReadyInv' /\ GoneInv'
  BY <1>7 DEF Inv, ReadyInv, GoneInv
<1> QED
  BY <1>7, <1>8, <1>9, <1>10 DEF Inv

(* A call of c ends that no ContextLess context depends on. *)
LEMMA CallEndsInv ==
  ASSUME NEW c \in Callers, Inv, call[c].at # "less",
         call' = [call EXCEPT ![c] = Idle], UNCHANGED <<object, live, lost>>
  PROVE  Inv'
<1>1. /\ call \in [Callers -> CallStates] /\ Idle \in CallStates
      /\ call'[c] = Idle /\ \A d \in Callers \ {c} : call'[d] = call[d]
  BY DEF Inv, TypeOK, Idle, CallStates
<1>2. TypeOK'
  BY <1>1 DEF Inv, TypeOK
<1>3. CallInv' /\ LevelInv' /\ ReadyInv' /\ GoneInv'
  BY <1>1 DEF Inv, CallInv, LevelInv, ReadyInv, GoneInv, Idle
<1>4. Owned(object, live, call', lost)
  BY <1>1, OwnedNow, OwnedSame DEF Inv, Idle
<1> QED
  BY <1>2, <1>3, <1>4, OwnedNext DEF Inv

LEMMA UseInv ==
  ASSUME NEW c \in Callers, NEW o \in Objects, Inv, Use(c, o)
  PROVE  Inv'
<1> DEFINE s == [at |-> "using", on |-> o, context |-> object[o].context]
<1>1. /\ call[c] = Idle /\ UNCHANGED <<object, live, lost>>
      /\ call' = [call EXCEPT ![c] = s]
  BY DEF Use, MayCall, Enter
<1>2. call \in [Callers -> CallStates] /\ s \in CallStates
  BY DEF Inv, TypeOK, ObjectStates, CallStates
<1>3. call'[c] = s /\ \A d \in Callers \ {c} : call'[d] = call[d]
  BY <1>1, <1>2
<1>4. TypeOK'
  BY <1>1, <1>2 DEF Inv, TypeOK
<1>5. CallInv' /\ LevelInv' /\ ReadyInv' /\ GoneInv'
  BY <1>1, <1>3 DEF Inv, CallInv, LevelInv, ReadyInv, GoneInv
<1>6. Owned(object, live, call', lost)
  <2>1. \A d \in Callers : /\ call'[d].at = "less" <=> call[d].at = "less"
                           /\ call[d].at = "less" => call'[d].context = call[d].context
    BY <1>1, <1>3 DEF Idle
  <2>2. Owned(object, live, call, lost)
    BY OwnedNow DEF Inv
  <2> QED
    BY <2>1, <2>2, OwnedSame
<1> QED
  BY <1>1, <1>4, <1>5, <1>6, OwnedNext DEF Inv

(* ContextLess.encode makes a context of its own. *)
LEMMA LessEncodeInv ==
  ASSUME NEW c \in Callers, Inv, LessEncode(c)
  PROVE  Inv'
<1> USE LifecycleAssumption
<1>1. PICK k \in Addresses \ live :
        /\ call' = [call EXCEPT ![c] = [at |-> "less", on |-> NULL, context |-> k]]
        /\ live' = live \cup {k}
  BY DEF LessEncode, Enter
<1>2. call[c] = Idle /\ UNCHANGED <<object, lost>>
  BY DEF LessEncode
<1>3. call \in [Callers -> CallStates]
      /\ [at |-> "less", on |-> NULL, context |-> k] \in CallStates
  BY <1>1 DEF Inv, TypeOK, CallStates
<1>4. /\ call'[c].at = "less" /\ call'[c].context = k
      /\ \A d \in Callers \ {c} : call'[d] = call[d]
      /\ call[c].at = "idle"
  BY <1>1, <1>2, <1>3 DEF Idle
<1>5. TypeOK'
  BY <1>1, <1>2, <1>3 DEF Inv, TypeOK
<1>6. CallInv' /\ LevelInv' /\ ReadyInv' /\ GoneInv'
  BY <1>2, <1>4 DEF Inv, CallInv, LevelInv, ReadyInv, GoneInv
<1>7. Owned(object, live, call, lost)
  BY OwnedNow DEF Inv
<1>8. Owned(object, live \cup {k}, call', lost)
  <2>1. k # NULL /\ k \notin live /\ \A p \in Objects : object[p].context # k
    BY <1>1, <1>7 DEF Owned
  <2> QED
    BY <1>4, <1>7, <2>1 DEF Owned
<1> QED
  BY <1>1, <1>2, <1>5, <1>6, <1>8, OwnedNext DEF Inv

LEMMA LessDoneInv ==
  ASSUME NEW c \in Callers, Inv, LessDone(c)
  PROVE  Inv'
<1> USE LifecycleAssumption
<1> DEFINE k == call[c].context
<1>1. /\ call[c].at = "less" /\ live' = live \ {k} /\ call' = [call EXCEPT ![c] = Idle]
      /\ UNCHANGED <<object, lost>>
  BY DEF LessDone
<1>2. call \in [Callers -> CallStates] /\ Idle \in CallStates
  BY DEF Inv, TypeOK, CallStates, Idle
<1>3. /\ call'[c].at = "idle" /\ \A d \in Callers \ {c} : call'[d] = call[d]
  BY <1>1, <1>2 DEF Idle
<1>4. TypeOK'
  BY <1>1, <1>2 DEF Inv, TypeOK
<1>5. CallInv' /\ LevelInv' /\ ReadyInv' /\ GoneInv'
  BY <1>1, <1>3 DEF Inv, CallInv, LevelInv, ReadyInv, GoneInv
<1>6. Owned(object, live, call, lost)
  BY OwnedNow DEF Inv
<1>7. Owned(object, live \ {k}, call', lost)
  BY <1>1, <1>3, <1>6 DEF Owned
<1> QED
  BY <1>1, <1>4, <1>5, <1>7, OwnedNext DEF Inv

LEMMA LessRaisesInv ==
  ASSUME NEW c \in Callers, Inv, LessRaises(c)
  PROVE  Inv'
<1> USE LifecycleAssumption
<1> DEFINE k == call[c].context
<1>1. /\ call[c].at = "less" /\ lost' = lost \cup {k} /\ call' = [call EXCEPT ![c] = Idle]
      /\ UNCHANGED <<object, live>>
  BY DEF LessRaises
<1>2. call \in [Callers -> CallStates] /\ Idle \in CallStates
  BY DEF Inv, TypeOK, CallStates, Idle
<1>3. /\ call'[c].at = "idle" /\ \A d \in Callers \ {c} : call'[d] = call[d]
  BY <1>1, <1>2 DEF Idle
<1>4. Owned(object, live, call, lost)
  BY OwnedNow DEF Inv
<1>5. k \in live /\ live \subseteq Addresses
  BY <1>1, <1>4 DEF Owned, Inv, TypeOK
<1>6. TypeOK'
  BY <1>1, <1>2, <1>5 DEF Inv, TypeOK
<1>7. CallInv' /\ LevelInv' /\ ReadyInv' /\ GoneInv'
  BY <1>1, <1>3 DEF Inv, CallInv, LevelInv, ReadyInv, GoneInv
<1>8. Owned(object, live, call', lost \cup {k})
  BY <1>1, <1>3, <1>4 DEF Owned
<1> QED
  BY <1>1, <1>6, <1>7, <1>8, OwnedNext DEF Inv

(* An object nobody is on comes into being or is dropped: no context moves. *)
LEMMA AllocInv ==
  ASSUME NEW o \in Objects, Inv, Alloc(o)
  PROVE  Inv'
<1>1. /\ object[o].at = "gone" /\ object' = [object EXCEPT ![o] = Blank]
      /\ UNCHANGED <<live, call, lost>>
  BY DEF Alloc
<1>2. object \in [Objects -> ObjectStates] /\ Blank \in ObjectStates
  BY DEF Inv, TypeOK, Blank, ObjectStates
<1>3. object'[o] = Blank /\ \A p \in Objects \ {o} : object'[p] = object[p]
  BY <1>1, <1>2
<1>4. \A c \in Callers : call[c].at = "level" =>
        call[c].on # o /\ object'[call[c].on] = object[call[c].on]
  BY <1>1, <1>3 DEF Inv, CallInv
<1>5. TypeOK' /\ CallInv' /\ LevelInv' /\ ReadyInv'
  BY <1>1, <1>2, <1>3, <1>4 DEF Inv, TypeOK, CallInv, LevelInv, ReadyInv, Blank
<1>6. object[o].context = NULL
  BY <1>1 DEF Inv, GoneInv
<1>7. \A p \in Objects : object'[p].context = object[p].context
  BY <1>3, <1>6 DEF Blank
<1>8. Owned(object', live, call, lost)
  BY <1>7, OwnedNow, OwnedSame DEF Inv
<1>9. GoneInv'
  BY <1>3 DEF Inv, GoneInv, Blank
<1> QED
  BY <1>1, <1>5, <1>8, <1>9, OwnedNext DEF Inv

LEMMA DropInv ==
  ASSUME NEW o \in Objects, Inv, Drop(o)
  PROVE  Inv'
<1>1. /\ object' = [object EXCEPT ![o].at = "garbage"]
      /\ \A c \in Callers : call[c].on # o
      /\ UNCHANGED <<live, call, lost>>
  BY DEF Drop
<1>2. object \in [Objects -> ObjectStates]
  BY DEF Inv, TypeOK
<1>3. /\ object' \in [Objects -> ObjectStates]
      /\ object'[o].at = "garbage" /\ object'[o].ready = object[o].ready
      /\ \A p \in Objects : object'[p].context = object[p].context
      /\ \A p \in Objects \ {o} : object'[p] = object[p]
  BY <1>1, <1>2 DEF ObjectStates
<1>4. TypeOK' /\ CallInv' /\ LevelInv' /\ ReadyInv' /\ GoneInv'
  BY <1>1, <1>3 DEF Inv, TypeOK, CallInv, LevelInv, ReadyInv, GoneInv
<1>5. Owned(object', live, call, lost)
  BY <1>3, OwnedNow, OwnedSame DEF Inv
<1> QED
  BY <1>1, <1>4, <1>5, OwnedNext DEF Inv

LEMMA CollectInv ==
  ASSUME NEW o \in Objects, Inv, Collect(o)
  PROVE  Inv'
<1>1. /\ object[o].at = "garbage" /\ object' = Swept({o})
      /\ live' = live \ FreedWith({o}) /\ UNCHANGED <<call, lost>>
  BY DEF Collect
<1>2. Owned(object', live', call, lost) /\ object' \in [Objects -> ObjectStates]
  BY <1>1, OwnedSweep DEF Inv
<1>3. object'[o] = Gone /\ \A p \in Objects \ {o} : object'[p] = object[p]
  BY <1>1 DEF Swept
<1>4. \A c \in Callers : call[c].at = "level" =>
        call[c].on # o /\ object'[call[c].on] = object[call[c].on]
  BY <1>1, <1>3 DEF Inv, CallInv
<1>5. TypeOK'
  BY <1>1, <1>2 DEF Inv, TypeOK
<1>6. CallInv' /\ LevelInv'
  BY <1>1, <1>4 DEF Inv, CallInv, LevelInv
<1>7. ReadyInv' /\ GoneInv'
  BY <1>3 DEF Inv, ReadyInv, GoneInv, Gone
<1> QED
  BY <1>1, <1>2, <1>5, <1>6, <1>7, OwnedNext DEF Inv

-----------------------------------------------------------------------------
(* The invariant the other theorems rest on: inductive, and preserved by   *)
(* every step.                                                             *)
THEOREM InvCorrect == Spec => []Inv
<1>1. Inv /\ [Next]_vars => Inv'
  <2> SUFFICES ASSUME Inv, [Next]_vars PROVE Inv'
    OBVIOUS
  <2>1. ASSUME NEW c \in Callers, NEW o \in Objects,
               InitEncoder(c, o) \/ InitDecoder(c, o) \/ Use(c, o)
        PROVE  Inv'
    BY <2>1, InitEncoderInv, InitDecoderInv, UseInv
  <2>2. ASSUME NEW c \in Callers, LevelRaises(c) \/ UseEnds(c) PROVE Inv'
    <3>1. /\ call[c].at # "less" /\ call' = [call EXCEPT ![c] = Idle]
          /\ UNCHANGED <<object, live, lost>>
      BY <2>2 DEF LevelRaises, UseEnds
    <3> QED
      BY <3>1, CallEndsInv
  <2>3. ASSUME NEW c \in Callers,
               LevelGiven(c) \/ LessEncode(c) \/ LessDone(c) \/ LessRaises(c)
        PROVE  Inv'
    BY <2>3, LevelGivenInv, LessEncodeInv, LessDoneInv, LessRaisesInv
  <2>4. ASSUME NEW o \in Objects, Alloc(o) \/ Drop(o) \/ Collect(o) PROVE Inv'
    BY <2>4, AllocInv, DropInv, CollectInv
  <2>5. CASE UNCHANGED vars
    <3>1. TypeOK' /\ CallInv' /\ LevelInv' /\ ReadyInv' /\ GoneInv'
      BY <2>5 DEF Inv, TypeOK, CallInv, LevelInv, ReadyInv, GoneInv, vars
    <3>2. OwnedOnce'
      BY <2>5, OwnedNow, OwnedNext DEF Inv, vars
    <3> QED
      BY <3>1, <3>2 DEF Inv
  <2> QED
    BY <2>1, <2>2, <2>3, <2>4, <2>5 DEF Next
<1> QED
  BY <1>1, InitInv, PTL DEF Spec

(* The state is of its type. *)
THEOREM TypeCorrect == Spec => []TypeOK
<1>1. Inv => TypeOK
  BY DEF Inv
<1> QED
  BY <1>1, InvCorrect, PTL

(* Every context has one owner that will free it, once: nothing leaks but  *)
(* the context of a one-shot call whose level cannot be converted, nothing *)
(* is freed twice, and no pointer to a freed context is kept.              *)
THEOREM OwnedOnceCorrect == Spec => []OwnedOnce
<1>1. Inv => OwnedOnce
  BY DEF Inv
<1> QED
  BY <1>1, InvCorrect, PTL

(* A step takes no context from an object that is ready and held. *)
LEMMA ReadyKept ==
  ASSUME Inv, [Next]_vars,
         NEW o \in Objects, object[o].ready, object[o].at = "held"
  PROVE  /\ object'[o].at # "gone" /\ object'[o].ready
         /\ object'[o].context = object[o].context
<1>1. object \in [Objects -> ObjectStates] /\ object[o].context # NULL
  BY DEF Inv, TypeOK, ReadyInv
<1>2. \A D \in SUBSET Garbage : o \notin D /\ Swept(D)[o] = object[o]
  BY DEF Garbage, Swept
<1>3. \A D \in SUBSET Garbage : Swept(D) \in [Objects -> ObjectStates]
  BY OwnedSweep DEF Inv, Garbage
<1>4. ASSUME NEW c \in Callers, NEW p \in Objects, InitEncoder(c, p)
      PROVE  object'[o] = object[o]
  <2>1. p # o
    BY <1>1, <1>4 DEF InitEncoder, Refused
  <2> QED
    BY <1>2, <1>3, <1>4, <2>1 DEF InitEncoder, Configure
<1>5. ASSUME NEW c \in Callers, NEW p \in Objects, InitDecoder(c, p)
      PROVE  object'[o] = object[o]
  <2>1. p # o
    BY <1>1, <1>5 DEF InitDecoder, Refused
  <2> QED
    BY <1>2, <1>3, <1>5, <2>1 DEF InitDecoder
<1>6. ASSUME NEW c \in Callers, LevelGiven(c)
      PROVE  object'[o] = object[o]
  <2>1. call[c].on \in Objects /\ call[c].on # o
    BY <1>6 DEF LevelGiven, Inv, CallInv
  <2> QED
    BY <1>1, <1>6, <2>1 DEF LevelGiven, Configure
<1>7. ASSUME NEW p \in Objects, Alloc(p) \/ Collect(p)
      PROVE  object'[o] = object[o]
  <2>1. CASE Alloc(p)
    BY <1>1, <2>1 DEF Alloc
  <2>2. CASE Collect(p)
    BY <2>2 DEF Collect, Swept
  <2> QED
    BY <1>7, <2>1, <2>2
<1>8. ASSUME NEW p \in Objects, Drop(p)
      PROVE  /\ object'[o].at # "gone" /\ object'[o].ready
             /\ object'[o].context = object[o].context
  BY <1>1, <1>8 DEF Drop, ObjectStates
<1>9. ASSUME \/ \E c \in Callers : \/ \E p \in Objects : Use(c, p)
                                  \/ LevelRaises(c) \/ UseEnds(c)
                                  \/ LessEncode(c) \/ LessDone(c) \/ LessRaises(c)
             \/ UNCHANGED vars
      PROVE  object' = object
  BY <1>9 DEF Use, LevelRaises, UseEnds, LessEncode, LessDone, LessRaises, vars
<1> QED
  BY <1>4, <1>5, <1>6, <1>7, <1>8, <1>9 DEF Next

(* An object whose initialize is done keeps its context, allocated, as     *)
(* long as the program holds it.                                           *)
THEOREM ReadyKeepsContextCorrect == Spec => ReadyKeepsContext
<1> DEFINE Kept == \A o \in Objects : object[o].ready /\ object[o].at = "held" =>
                     /\ object'[o].at # "gone" /\ object'[o].ready
                     /\ object'[o].context = object[o].context
                     /\ object[o].context \in live'
<1>1. Inv /\ Inv' /\ [Next]_vars => [Kept]_vars
  <2> SUFFICES ASSUME Inv, Inv', [Next]_vars,
                      NEW o \in Objects, object[o].ready, object[o].at = "held"
               PROVE  /\ object'[o].at # "gone" /\ object'[o].ready
                      /\ object'[o].context = object[o].context
                      /\ object[o].context \in live'
    OBVIOUS
  <2>1. /\ object'[o].at # "gone" /\ object'[o].ready
        /\ object'[o].context = object[o].context
    BY ReadyKept
  <2>2. object'[o].context # NULL => object'[o].context \in live'
    BY DEF Inv, OwnedOnce, HeldAreLive
  <2>3. object[o].context # NULL
    BY DEF Inv, ReadyInv
  <2> QED
    BY <2>1, <2>2, <2>3
<1> QED
  BY <1>1, InvCorrect, PTL DEF Spec, ReadyKeepsContext
=============================================================================
