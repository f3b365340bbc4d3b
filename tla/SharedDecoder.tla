--------------------------- MODULE SharedDecoder ---------------------------
(***************************************************************************)
(* One Zstd::Decoder that several threads read from.  Ruby's global lock   *)
(* lets one of them run: "call" of Decoder is its read, and the reads of   *)
(* the others are parked where the code lets go of the lock, in            *)
(* rb_thread_check_ints and in the inport's read.                          *)
(*                                                                         *)
(* An inport either keeps the lock, as StringIO does, or locks the chunk   *)
(* string while it waits, as IO#read does.  One that does neither, and     *)
(* hands out two chunks at a time, is outside this module.                 *)
(***************************************************************************)
EXTENDS Decoder, FiniteSets

CONSTANTS
  Readers,     (* threads                                                  *)
  PortWaits    (* the inport lets other threads run while it reads         *)

ASSUME SharedAssumption ==
  PortWaits \in BOOLEAN /\ IsFiniteSet(Readers) /\ Readers # {}

VARIABLES
  active,      (* the thread that holds the lock                           *)
  parked,      (* the reads of the other threads                           *)
  misled       (* the inport has returned an empty string, or raised and   *)
               (* left its buffer longer than the last chunk               *)

sharedVars == <<vars, active, parked, misled>>

Reads(c) == IF c = active THEN call ELSE parked[c]

(* Faulty variants of the operators below, which the properties must catch. *)
NeverLocked == FALSE
OutputInStruct(c) == [parked[c] EXCEPT !.out = call.out]
PositionOfString(c) == inbuf' = [inbuf EXCEPT !.pos = readbuf]

(* Where a thread may lose the lock. *)
SwitchPoints == {"idle", "ints"} \cup (IF PortWaits THEN {"port"} ELSE {})

(* The chunk string is locked by the inport's read of another thread, and  *)
(* aux_str_buf_recycle raises.                                             *)
ChunkLocked == \E c \in Readers : parked[c].at = "port"

(* A thread that comes back finds the input, in the object, where the      *)
(* others have left it, and its output, on its stack, as it was.           *)
InputOnReturn(c) == UNCHANGED inbuf
OutputOnReturn(c) == parked[c]

-----------------------------------------------------------------------------
SharedInit ==
  /\ Init
  /\ active \in Readers
  /\ parked = [c \in Readers |-> Idle]
  /\ misled = FALSE

(* A step after which dec_read_fetch takes the input for longer than it is. *)
Misleads == readbuf' > inbuf'.size \/ (inbuf'.src /\ inbuf'.size = 0)

Fetches == call.at = "head" /\ ~RoomFull /\ NeedsInput

Runs ==
  /\ Fetches => ~ChunkLocked
  /\ Answer
  /\ misled' = (misled \/ (call.at = "port" /\ Misleads))
  /\ UNCHANGED <<active, parked>>

FetchRefused ==
  /\ Fetches /\ ChunkLocked
  /\ Raise("port")
  /\ UNCHANGED <<source, supplied, context, readbuf, inbuf, reached_eof, closed,
                 active, parked, misled>>

Requests == Client /\ UNCHANGED <<active, parked, misled>>

(* The lock goes from the active thread to c. *)
Switch(c) ==
  /\ c # active /\ call.at \in SwitchPoints
  /\ active' = c
  /\ parked' = [parked EXCEPT ![active] = call, ![c] = Idle]
  /\ call' = OutputOnReturn(c)
  /\ InputOnReturn(c)
  /\ UNCHANGED <<source, supplied, context, readbuf, reached_eof, result, given,
                 dropped, closed, misled>>

SharedNext == Runs \/ FetchRefused \/ Requests \/ \E c \in Readers : Switch(c)
SharedSpec == SharedInit /\ [][SharedNext]_sharedVars

(* Ruby gives the lock to each thread that waits for it, and a thread that *)
(* has it goes on.                                                         *)
SharedFairSpec ==
  /\ SharedSpec
  /\ \A c \in Readers :
       /\ SF_sharedVars(active = c /\ (Runs \/ FetchRefused))
       /\ SF_sharedVars(parked[c] # Idle /\ Switch(c))

-----------------------------------------------------------------------------
(* The decoded bytes in the strings of the reads in progress: whose, and   *)
(* which.                                                                  *)
Outstanding == UNION {{c} \X (1 .. Reads(c).len + Reads(c).out) : c \in Readers}

(* Every decoded byte is in the result of one read, in the string of one   *)
(* read in progress, or went with an exception.                            *)
SharedOutputConserved ==
  ~context.lost => given + dropped + Cardinality(Outstanding) = context.out

(* libzstd reports an error for bad data only, given an inport that does   *)
(* not mislead: one that returns no empty string, and that leaves its      *)
(* buffer no longer than the last chunk when it raises.  A thread whose    *)
(* chunk was decoded by others calls libzstd with nothing, and fewer than  *)
(* MaxStall can do that in a row.                                          *)
NoFalseError ==
  result.kind = "zstd" /\ ~misled /\ Cardinality(Readers) <= MaxStall => context.lost

(* Every read of every thread ends. *)
SharedReadEnds ==
  <>[][~Reset]_vars => \A c \in Readers : Reads(c).at # "idle" ~> Reads(c).at = "idle"
=============================================================================
