------------------------------ MODULE SyncCall ------------------------------
(***************************************************************************)
(* What loc_api_sync_req.c promises to the threads that call               *)
(* loc_sync_send_req: a call owns its payload buffer from the moment it    *)
(* starts until it returns, the buffer is written only by an answer of the *)
(* modem to a request with the key (client handle, indication id) the call *)
(* waits for, and no answer is written into two buffers.                   *)
(*                                                                         *)
(* The slots, the locks and the scan over the slots are absent: SyncReq    *)
(* has them, and is shown to implement this module.                        *)
(***************************************************************************)
EXTENDS Naturals

CONSTANTS
  Callers,  \* threads that call loc_sync_send_req
  Keys,     \* (client handle, indication id) pairs
  NoKey     \* the key of a thread that is in no call

VARIABLES
  calling,  \* calling[c]: c is inside loc_sync_send_req
  waitsFor, \* waitsFor[c]: the key of c's call
  buffer,   \* buffer[c]: serial of the answer in c's payload buffer, 0: none
  open,     \* answers of the modem nobody has taken yet
  asked     \* number of requests sent to the modem

avars == <<calling, waitsFor, buffer, open, asked>>

Init ==
  /\ calling = [c \in Callers |-> FALSE]
  /\ waitsFor = [c \in Callers |-> NoKey]
  /\ buffer = [c \in Callers |-> 0]
  /\ open = {}
  /\ asked = 0

(* A call starts with an empty buffer. *)
Call(c, k) ==
  /\ ~calling[c]
  /\ calling' = [calling EXCEPT ![c] = TRUE]
  /\ waitsFor' = [waitsFor EXCEPT ![c] = k]
  /\ UNCHANGED <<buffer, open, asked>>

(* The modem is asked on behalf of a call, and may answer it once. *)
Ask(c) ==
  /\ calling[c]
  /\ asked' = asked + 1
  /\ open' = open \cup {[key |-> waitsFor[c], serial |-> asked + 1]}
  /\ UNCHANGED <<calling, waitsFor, buffer>>

(* An answer nobody has taken is written into the buffer of a running call *)
(* that waits for its key; it is not open any more.                        *)
Deliver(c, a) ==
  /\ calling[c]
  /\ a \in open
  /\ a.key = waitsFor[c]
  /\ buffer' = [buffer EXCEPT ![c] = a.serial]
  /\ open' = open \ {a}
  /\ UNCHANGED <<calling, waitsFor, asked>>

(* An answer reaches no buffer: lost, or nobody waits for it any more. *)
Drop(a) ==
  /\ a \in open
  /\ open' = open \ {a}
  /\ UNCHANGED <<calling, waitsFor, buffer, asked>>

Return(c) ==
  /\ calling[c]
  /\ calling' = [calling EXCEPT ![c] = FALSE]
  /\ waitsFor' = [waitsFor EXCEPT ![c] = NoKey]
  /\ buffer' = [buffer EXCEPT ![c] = 0]
  /\ UNCHANGED <<open, asked>>

Next ==
  \/ \E c \in Callers :
       \/ \E k \in Keys : Call(c, k)
       \/ Ask(c)
       \/ \E a \in open : Deliver(c, a)
       \/ Return(c)
  \/ \E a \in open : Drop(a)

Spec == Init /\ [][Next]_avars
=============================================================================
