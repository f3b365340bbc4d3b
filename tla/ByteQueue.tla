----------------------------- MODULE ByteQueue -----------------------------
(***************************************************************************)
(* What an encoder, its port and a decoder promise together: a queue of    *)
(* bytes between a writer and a reader.  Bytes are numbered in the order   *)
(* of the writes.  They may stay behind, also in the encoder, until the    *)
(* writer synchronises, and a read that raises takes bytes along with it.  *)
(***************************************************************************)
EXTENDS Integers

VARIABLES
  put,      (* bytes the writer has given to write                         *)
  ready,    (* of these, the ones that a reader could get                  *)
  synced,   (* and the ones that a sync or close has returned for          *)
  got,      (* bytes the reader has                                        *)
  lost,     (* bytes that went with an exception of a read                 *)
  ended,    (* the writer has closed                                       *)
  seen      (* the reader has found the end                                *)

vars == <<put, ready, synced, got, lost, ended, seen>>

Init ==
  /\ put = 0 /\ ready = 0 /\ synced = 0 /\ got = 0 /\ lost = 0
  /\ ended = FALSE /\ seen = FALSE

Put ==
  /\ ~ended
  /\ put' \in Nat /\ put' > put
  /\ UNCHANGED <<ready, synced, got, lost, ended, seen>>

Arrive ==
  /\ ready' \in ready + 1 .. put
  /\ UNCHANGED <<put, synced, got, lost, ended, seen>>

(* A sync returns only when everything written is within reach. *)
Sync ==
  /\ ready = put
  /\ synced' = put
  /\ UNCHANGED <<put, ready, got, lost, ended, seen>>

Get ==
  /\ got' \in got + 1 .. ready - lost
  /\ UNCHANGED <<put, ready, synced, lost, ended, seen>>

Lose ==
  /\ lost' \in lost + 1 .. ready - got
  /\ UNCHANGED <<put, ready, synced, got, ended, seen>>

End ==
  /\ ended' = TRUE
  /\ UNCHANGED <<put, ready, synced, got, lost, seen>>

SeeEnd ==
  /\ ended /\ got + lost = put
  /\ seen' = TRUE
  /\ UNCHANGED <<put, ready, synced, got, lost, ended>>

Next == Put \/ Arrive \/ Sync \/ Get \/ Lose \/ End \/ SeeEnd

Spec == Init /\ [][Next]_vars
=============================================================================
