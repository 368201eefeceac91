------------------------------ MODULE TaskQueue ------------------------------
(***************************************************************************)
(* What a message task promises to those who send to it, and what the      *)
(* handlers of GnssAdapter, Agps and LocTimer rely on: messages are        *)
(* handled one at a time, in the order in which they were sent, each once, *)
(* and none is left out before the owner has closed the task.              *)
(*                                                                         *)
(* Neither the list, the condition variable nor the delegate are here:     *)
(* MsgTask has them, and is shown to implement this module.                *)
(***************************************************************************)
EXTENDS Naturals, Sequences

CONSTANT Messages

VARIABLES
  sent,    \* the messages that were accepted, in order
  taken,   \* those whose handling has begun, in order
  busy,    \* whether a message is being handled
  closed,  \* whether the owner wants no more messages
  over     \* whether nothing will be handled any more

queueTaskVars == <<sent, taken, busy, closed, over>>

Init ==
  /\ sent = <<>> /\ taken = <<>>
  /\ ~busy /\ ~closed /\ ~over

Send(m) ==
  /\ ~closed /\ \A i \in 1..Len(sent) : sent[i] # m
  /\ sent' = Append(sent, m)
  /\ UNCHANGED <<taken, busy, closed, over>>

(* The oldest message that was not taken yet. *)
Take ==
  /\ ~busy /\ ~over /\ Len(taken) < Len(sent)
  /\ taken' = Append(taken, sent[Len(taken) + 1])
  /\ busy' = TRUE
  /\ UNCHANGED <<sent, closed, over>>

Handled ==
  /\ busy /\ busy' = FALSE
  /\ UNCHANGED <<sent, taken, closed, over>>

Close ==
  /\ closed' = TRUE
  /\ UNCHANGED <<sent, taken, busy, over>>

(* The messages that are left are never handled. *)
End ==
  /\ closed /\ ~busy /\ ~over
  /\ over' = TRUE
  /\ UNCHANGED <<sent, taken, busy, closed>>

Next ==
  \/ \E m \in Messages : Send(m)
  \/ Take \/ Handled
  \/ Close \/ End

Spec == Init /\ [][Next]_queueTaskVars
=============================================================================
