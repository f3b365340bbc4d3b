----------------------------- MODULE Lifecycle -----------------------------
(***************************************************************************)
(* Who owns the contexts of libzstd: allocation, initialize and collection *)
(* of Zstd::Encoder and Zstd::Decoder objects (ext/extzstd_stream.c), and  *)
(* the contexts that ContextLess.encode makes for one call                 *)
(* (ext/extzstd.c).                                                        *)
(*                                                                         *)
(* The global lock lets other threads and nested calls in at two points:   *)
(* while a level that is no Integer is converted by its to_int, and in the *)
(* middle of a method, when it calls its port or converts an argument.     *)
(* The garbage collector may run at any time.                              *)
(*                                                                         *)
(* A context is named by its address, which is used again after a free.    *)
(***************************************************************************)
CONSTANTS
  Encoders, Decoders,   (* objects                                         *)
  Callers,              (* threads and nested calls                        *)
  Addresses,            (* bound: contexts that fit in memory              *)
  NULL

ASSUME LifecycleAssumption ==
  /\ Encoders \cap Decoders = {}
  /\ NULL \notin Addresses
  /\ NULL \notin Encoders \cup Decoders

VARIABLES
  object,   (* reachable or not, p->context, and whether initialize is done *)
  live,     (* contexts that are allocated                                 *)
  call,     (* what each caller is doing                                   *)
  lost      (* contexts that no code will free                             *)

vars == <<object, live, call, lost>>

Objects == Encoders \cup Decoders
ObjectStates ==
  [at : {"gone", "held", "garbage"}, context : Addresses \cup {NULL}, ready : BOOLEAN]
Gone  == [at |-> "gone", context |-> NULL, ready |-> FALSE]
Blank == [at |-> "held", context |-> NULL, ready |-> FALSE]

CallStates ==
  [at : {"idle", "level", "using", "less"}, on : Objects \cup {NULL},
   context : Addresses \cup {NULL}]
Idle == [at |-> "idle", on |-> NULL, context |-> NULL]

(* Faulty variants of the operators below, which the properties must catch. *)
NotRefused(o) == FALSE
KeepsPointer(o) == object[o].context
Unchecked(k) == {k}

(* initialize raises "initialized already". *)
Refused(o) == object[o].context # NULL

(* What a creation that returns k allocates. *)
Created(k) == {k} \ {NULL}

(* p->context while initialize configures the context. *)
Disabled(o) == NULL

Garbage == {o \in Objects : object[o].at = "garbage"}

(* enc_free and dec_free of the objects in D. *)
Swept(D) == [o \in Objects |-> IF o \in D THEN Gone ELSE object[o]]
FreedWith(D) == {object[o].context : o \in D} \ {NULL}

(* AUX_TRY_WITH_GC: k is the new context, NULL when there is no memory     *)
(* even after a collection of the garbage in D.                            *)
MayCreate(D, k) == k \in {NULL} \cup (Addresses \ (live \ FreedWith(D)))

MayCall(c, o) == call[c] = Idle /\ object[o].at = "held"
Enter(c, at, o, k) ==
  call' = [call EXCEPT ![c] = [at |-> at, on |-> o, context |-> k]]

-----------------------------------------------------------------------------
Init ==
  /\ object = [o \in Objects |-> Gone]
  /\ live = {}
  /\ call = [c \in Callers |-> Idle]
  /\ lost = {}

(* enc_alloc, dec_alloc *)
Alloc(o) ==
  /\ object[o].at = "gone"
  /\ object' = [object EXCEPT ![o] = Blank]
  /\ UNCHANGED <<live, call, lost>>

(* The aux_ calls of enc_init on context k of o.  One of them may fail:    *)
(* then the context is freed and the exception leaves enc_init.            *)
Configure(objects, heap, o, k) ==
  \/ /\ object' = [objects EXCEPT ![o].context = k, ![o].ready = TRUE]
     /\ live' = heap
  \/ /\ object' = [objects EXCEPT ![o].context = Disabled(o)]
     /\ live' = heap \ {k}

(* enc_init up to the conversion of the level, or to the end when the      *)
(* level is nil or an Integer or when Parameters are given.                *)
InitEncoder(c, o) ==
  /\ o \in Encoders /\ MayCall(c, o) /\ ~Refused(o)
  /\ \E D \in SUBSET Garbage, k \in Addresses \cup {NULL} :
       LET objects == Swept(D)
           heap    == live \ FreedWith(D)
       IN  /\ MayCreate(D, k)
           /\ \/ /\ k = NULL
                 /\ object' = objects /\ live' = heap /\ call' = call
              \/ /\ k # NULL
                 /\ Configure(objects, heap \cup {k}, o, k)
                 /\ call' = call
              \/ /\ k # NULL
                 /\ object' = [objects EXCEPT ![o].context = k]
                 /\ live' = heap \cup {k}
                 /\ Enter(c, "level", o, NULL)
  /\ UNCHANGED lost

(* to_int returned an Integer. *)
LevelGiven(c) ==
  /\ call[c].at = "level"
  /\ LET o == call[c].on IN Configure(object, live, o, object[o].context)
  /\ call' = [call EXCEPT ![c] = Idle]
  /\ UNCHANGED lost

(* The level has no to_int, or one that raises or is out of range. *)
LevelRaises(c) ==
  /\ call[c].at = "level"
  /\ call' = [call EXCEPT ![c] = Idle]
  /\ UNCHANGED <<object, live, lost>>

(* dec_init.  It raises after the creation when the dictionary is no       *)
(* String or libzstd refuses it.                                           *)
InitDecoder(c, o) ==
  /\ o \in Decoders /\ MayCall(c, o) /\ ~Refused(o)
  /\ \E D \in SUBSET Garbage, k \in Addresses \cup {NULL}, accepted \in BOOLEAN :
       /\ MayCreate(D, k)
       /\ object' = [Swept(D) EXCEPT ![o].context = k,
                                     ![o].ready = k # NULL /\ accepted]
       /\ live' = (live \ FreedWith(D)) \cup Created(k)
  /\ UNCHANGED <<call, lost>>

(* A method has passed encoder_context or decoder_context and runs Ruby    *)
(* code: its port, the to_s of a source (rb_String), the to_int of a size. *)
(* It will go on with p->context.  The check asks for a context only, and  *)
(* lets a method in while another caller is in initialize.                 *)
Use(c, o) ==
  /\ MayCall(c, o) /\ object[o].context # NULL
  /\ Enter(c, "using", o, object[o].context)
  /\ UNCHANGED <<object, live, lost>>

UseEnds(c) ==
  /\ call[c].at = "using"
  /\ call' = [call EXCEPT ![c] = Idle]
  /\ UNCHANGED <<object, live, lost>>

(* ContextLess.encode has a context and converts the level.  ContextLess   *)
(* calls that convert nothing make and free their context in one step.     *)
LessEncode(c) ==
  /\ call[c] = Idle
  /\ \E k \in Addresses \ live : Enter(c, "less", NULL, k) /\ live' = live \cup {k}
  /\ UNCHANGED <<object, lost>>

LessDone(c) ==
  /\ call[c].at = "less"
  /\ live' = live \ {call[c].context}
  /\ call' = [call EXCEPT ![c] = Idle]
  /\ UNCHANGED <<object, lost>>

(* The conversion of the level raised: the context is not freed.           *)
LessRaises(c) ==
  /\ call[c].at = "less"
  /\ lost' = lost \cup {call[c].context}
  /\ call' = [call EXCEPT ![c] = Idle]
  /\ UNCHANGED <<object, live>>

(* The program drops its last reference to o.  The frames of running calls *)
(* hold references too.                                                    *)
Drop(o) ==
  /\ object[o].at = "held" /\ \A c \in Callers : call[c].on # o
  /\ object' = [object EXCEPT ![o].at = "garbage"]
  /\ UNCHANGED <<live, call, lost>>

Collect(o) ==
  /\ object[o].at = "garbage"
  /\ object' = Swept({o})
  /\ live' = live \ FreedWith({o})
  /\ UNCHANGED <<call, lost>>

-----------------------------------------------------------------------------
Next ==
  \/ \E c \in Callers :
       \/ \E o \in Objects : InitEncoder(c, o) \/ InitDecoder(c, o) \/ Use(c, o)
       \/ LevelGiven(c) \/ LevelRaises(c) \/ UseEnds(c)
       \/ LessEncode(c) \/ LessDone(c) \/ LessRaises(c)
  \/ \E o \in Objects : Alloc(o) \/ Drop(o) \/ Collect(o)

Spec == Init /\ [][Next]_vars

-----------------------------------------------------------------------------
TypeOK ==
  /\ object \in [Objects -> ObjectStates]
  /\ live \subseteq Addresses
  /\ call \in [Callers -> CallStates]
  /\ lost \subseteq Addresses

(* The parts of OwnedOnce.  A context that somebody holds is allocated. *)
HeldAreLive ==
  /\ \A o \in Objects : object[o].context # NULL => object[o].context \in live
  /\ \A c \in Callers : call[c].at = "less" => call[c].context \in live
  /\ lost \subseteq live

(* It has one holder, who frees it once. *)
HeldApart ==
  /\ \A o \in Objects : \A p \in Objects \ {o} :
       object[o].context # NULL => object[o].context # object[p].context
  /\ \A c \in Callers : call[c].at = "less" =>
       /\ \A d \in Callers \ {c} : call[d].at = "less" => call[d].context # call[c].context
       /\ \A o \in Objects : object[o].context # call[c].context
       /\ call[c].context \notin lost
  /\ \A o \in Objects : object[o].context \notin lost

(* And every allocated context has one. *)
LiveAreHeld ==
  \A k \in live :
    \/ \E o \in Objects : object[o].context = k
    \/ \E c \in Callers : call[c].at = "less" /\ call[c].context = k
    \/ k \in lost

(* Every context has exactly one owner that will free it, through failing  *)
(* initializations, retries of initialize, collections and exceptions: no  *)
(* leak, no double free, no pointer to a freed context.  The only contexts *)
(* that leak are those of ContextLess.encode calls whose level cannot be   *)
(* converted (ext/extzstd.c:586).                                          *)
OwnedOnce == HeldAreLive /\ HeldApart /\ LiveAreHeld

(* An object whose initialize is done keeps its context, allocated, as     *)
(* long as the program holds it: through a second initialize, which is     *)
(* refused, and through collections in the middle of those of others.      *)
(* Methods that come back from their ports rest on it.                     *)
ReadyKeepsContext ==
  [][\A o \in Objects : object[o].ready /\ object[o].at = "held" =>
       /\ object'[o].at # "gone" /\ object'[o].ready
       /\ object'[o].context = object[o].context
       /\ object[o].context \in live']_vars

(* A method that has passed the check of its context                       *)
(* ("wrong initialized context", ext/extzstd_stream.c:83-87) goes on with  *)
(* the context that it has checked.                                        *)
UsedIsLive ==
  \A c \in Callers : call[c].at = "using" =>
    object[call[c].on].context = call[c].context /\ call[c].context \in live
=============================================================================
