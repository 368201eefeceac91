------------------------------- MODULE MsgTask -------------------------------
(***************************************************************************)
(* A message task: senders put messages into a queue (msg_q, linked_list), *)
(* one thread (LocThread, LocThreadDelegate) takes them out and handles    *)
(* them in a loop, until the owner destroys the task                       *)
(* (gps/utils/MsgTask.cpp, LocThread.cpp, msg_q.c, linked_list.c).         *)
(*                                                                         *)
(* Operations of the queue run under its mutex and are one step each,      *)
(* other than msg_q_rcv, which gives the mutex up while it waits.  The     *)
(* delegate, which the owner and the thread share, is read and written     *)
(* without a lock, but for its reference count.                            *)
(*                                                                         *)
(* Left out: failures of pthread_create and malloc, NULL arguments,        *)
(* linked_list_search (LocHeap's and LocTimer's lists are elsewhere), and  *)
(* a destroy from within a message.  Nobody sends to a deleted task.       *)
(***************************************************************************)
EXTENDS Naturals, Sequences, FiniteSets

CONSTANT NMessages  \* bound on the messages, which are numbered as sent

ASSUME TaskAssumption == NMessages \in Nat

TaskMessages == 1..NMessages

VARIABLES
  mq,         \* the list, oldest message first
  unblocked,  \* msg_q.unblocked
  accepted,   \* the messages that msg_q_snd took, in order
  handled,    \* those whose proc was called, in order
  fate,       \* by message: where it is or how it ended
  taskPc,     \* the thread: where in threadMain, run and msg_q_rcv it is
  wakeUp,     \* whether the condition variable was signalled for it
  mRunnable,  \* LocThreadDelegate: whether mRunnable is set
  joinable,   \* LocThreadDelegate: mJoinable
  refCount,   \* LocThreadDelegate: mRefCount
  delegate,   \* whether the delegate has not been deleted
  task,       \* whether the MsgTask and its queue have not been deleted
  ownerPc     \* the owner: where in destroy, bye and stop it is

queueVars == <<mq, unblocked, accepted, handled, fate, wakeUp>>
delegateVars == <<mRunnable, joinable, refCount, delegate>>
taskVars == <<queueVars, delegateVars, taskPc, task, ownerPc>>

(* The thread is created joinable or detached, with two references.        *)
TaskInit ==
  /\ mq = <<>> /\ unblocked = FALSE
  /\ accepted = <<>> /\ handled = <<>>
  /\ fate = [m \in TaskMessages |-> "unsent"]
  /\ taskPc = "created" /\ wakeUp = FALSE
  /\ mRunnable = TRUE /\ joinable \in BOOLEAN
  /\ refCount = 2 /\ delegate = TRUE
  /\ task = TRUE
  /\ ownerPc = "hasTask"

-----------------------------------------------------------------------------
(* The queue.                                                              *)

(* Mutant of Signal: the reader notices by itself.                         *)
SignalNobody == UNCHANGED wakeUp

(* pthread_cond_signal and pthread_cond_broadcast: there is one waiter at  *)
(* most.                                                                   *)
Signal == wakeUp' = (wakeUp \/ taskPc = "waiting")

(* msg_q_snd and linked_list_add.  Once the queue is unblocked it refuses  *)
(* messages, and sendMsg does not look at the result: nobody deletes them. *)
SendMsg(m) ==
  /\ task /\ fate[m] = "unsent" /\ \A l \in 1..(m - 1) : fate[l] # "unsent"
  /\ \/ /\ unblocked
        /\ fate' = [fate EXCEPT ![m] = "leaked"]
        /\ UNCHANGED <<mq, accepted, wakeUp>>
     \/ /\ ~unblocked
        /\ fate' = [fate EXCEPT ![m] = "queued"]
        /\ mq' = Append(mq, m)
        /\ accepted' = Append(accepted, m)
        /\ Signal
  /\ UNCHANGED <<unblocked, handled, delegateVars, taskPc, task, ownerPc>>

(* Mutant of Removed: the newest element.                                  *)
RemovedNewest ==
  /\ mq' = SubSeq(mq, 1, Len(mq) - 1)
  /\ handled' = Append(handled, mq[Len(mq)])
  /\ fate' = [fate EXCEPT ![mq[Len(mq)]] = "handled"]
  /\ taskPc' = "handling"

(* The oldest element of the list goes to the caller of msg_q_rcv.         *)
Removed ==
  /\ mq' = Tail(mq)
  /\ handled' = Append(handled, Head(mq))
  /\ fate' = [fate EXCEPT ![Head(mq)] = "handled"]
  /\ taskPc' = "handling"

(* msg_q_rcv up to the first pthread_cond_wait.                            *)
ReceiveStarts ==
  /\ taskPc = "receiving"
  /\ \/ unblocked /\ taskPc' = "loopLeft" /\ UNCHANGED <<mq, handled, fate>>
     \/ ~unblocked /\ mq = <<>> /\ taskPc' = "waiting" /\ UNCHANGED <<mq, handled, fate>>
     \/ ~unblocked /\ mq # <<>> /\ Removed
  /\ wakeUp' = FALSE
  /\ UNCHANGED <<unblocked, accepted, delegateVars, task, ownerPc>>

(* pthread_cond_wait returns: the list is looked at before the flag.       *)
WaitReturns ==
  /\ taskPc = "waiting"
  /\ \/ mq # <<>> /\ Removed
     \/ mq = <<>> /\ unblocked /\ taskPc' = "loopLeft" /\ UNCHANGED <<mq, handled, fate>>
     \/ mq = <<>> /\ ~unblocked /\ UNCHANGED <<mq, handled, fate, taskPc>>
  /\ wakeUp' = FALSE
  /\ UNCHANGED <<unblocked, accepted, delegateVars, task, ownerPc>>

ReceiveWakesUp == wakeUp /\ WaitReturns
SpuriousWakeUp == ~wakeUp /\ WaitReturns

-----------------------------------------------------------------------------
(* The thread: LocThreadDelegate::threadMain and MsgTask::run.             *)

ThreadGoes(from, to) ==
  taskPc = from /\ taskPc' = to

(* If the owner was faster and has reset mRunnable, the runnable is not    *)
(* deleted.                                                                *)
ThreadReadsRunnable ==
  /\ ThreadGoes("created", IF mRunnable THEN "running?" ELSE "destroy")
  /\ UNCHANGED <<queueVars, delegateVars, task, ownerPc>>

ThreadTestsRunning ==
  /\ ThreadGoes("running?", IF mRunnable THEN "receiving" ELSE "loopLeft")
  /\ UNCHANGED <<queueVars, delegateVars, task, ownerPc>>

(* proc is over and the message deleted.                                   *)
MessageDone ==
  /\ ThreadGoes("handling", "running?")
  /\ UNCHANGED <<queueVars, delegateVars, task, ownerPc>>

ThreadClearsRunnable ==
  /\ ThreadGoes("loopLeft", "delete")
  /\ mRunnable' = FALSE
  /\ UNCHANGED <<queueVars, joinable, refCount, delegate, task, ownerPc>>

Flushed == [m \in TaskMessages |-> IF fate[m] = "queued" THEN "flushed" ELSE fate[m]]

(* ~MsgTask: msg_q_flush and msg_q_destroy.                                *)
ThreadDeletesTask ==
  /\ ThreadGoes("delete", "destroy")
  /\ task' = FALSE
  /\ mq' = <<>> /\ fate' = Flushed
  /\ UNCHANGED <<unblocked, accepted, handled, wakeUp, delegateVars, ownerPc>>

(* Mutant of DropReference: whoever comes first deletes the delegate.      *)
DropsAtOnce ==
  /\ refCount' = IF refCount > 0 THEN refCount - 1 ELSE refCount
  /\ delegate' = FALSE

(* LocThreadDelegate::destroy. *)
DropReference ==
  /\ refCount' = IF refCount > 0 THEN refCount - 1 ELSE refCount
  /\ delegate' = (delegate /\ refCount # 1)

ThreadDropsReference ==
  /\ ThreadGoes("destroy", "ended")
  /\ DropReference
  /\ UNCHANGED <<queueVars, mRunnable, joinable, task, ownerPc>>

TaskThreadStep ==
  \/ ThreadReadsRunnable
  \/ ThreadTestsRunning
  \/ ReceiveStarts
  \/ ReceiveWakesUp
  \/ MessageDone
  \/ ThreadClearsRunnable
  \/ ThreadDeletesTask
  \/ ThreadDropsReference

-----------------------------------------------------------------------------
(* The owner: MsgTask::destroy, ~LocThread, bye and stop.                  *)

OwnerGoes(from, to) == ownerPc = from /\ ownerPc' = to

(* msg_q_unblock. *)
OwnerUnblocks ==
  /\ OwnerGoes("hasTask", "bye")
  /\ task
  /\ unblocked' = TRUE
  /\ Signal
  /\ UNCHANGED <<mq, accepted, handled, fate, delegateVars, taskPc, task>>

Bye ==
  /\ OwnerGoes("bye", IF joinable THEN "stop" ELSE "destroy")
  /\ UNCHANGED <<queueVars, delegateVars, taskPc, task>>

Stop ==
  /\ OwnerGoes("stop", "join")
  /\ mRunnable' = FALSE /\ joinable' = FALSE
  /\ UNCHANGED <<queueVars, refCount, delegate, taskPc, task>>

Joined ==
  /\ OwnerGoes("join", "destroy")
  /\ taskPc = "ended"
  /\ UNCHANGED <<queueVars, delegateVars, taskPc, task>>

OwnerDropsReference ==
  /\ OwnerGoes("destroy", "done")
  /\ DropReference
  /\ UNCHANGED <<queueVars, mRunnable, joinable, taskPc, task>>

(* What the owner does once it has begun to destroy the task.              *)
OwnerStep ==
  \/ Bye
  \/ Stop
  \/ Joined
  \/ OwnerDropsReference

TaskNext ==
  \/ \E m \in TaskMessages : SendMsg(m)
  \/ TaskThreadStep
  \/ SpuriousWakeUp
  \/ OwnerUnblocks
  \/ OwnerStep

TaskSpec == TaskInit /\ [][TaskNext]_taskVars

(* The two threads run on, but for wakeups without a signal.               *)
TaskFairness == WF_taskVars(TaskThreadStep) /\ WF_taskVars(OwnerStep)

-----------------------------------------------------------------------------
(* Properties.                                                             *)

ThreadPlaces == {"created", "running?", "receiving", "waiting", "handling",
                 "loopLeft", "delete", "destroy", "ended"}
OwnerPlaces == {"hasTask", "bye", "stop", "join", "destroy", "done"}

TaskTypeOK ==
  /\ mq \in Seq(TaskMessages) /\ accepted \in Seq(TaskMessages) /\ handled \in Seq(TaskMessages)
  /\ fate \in [TaskMessages -> {"unsent", "queued", "handled", "flushed", "leaked"}]
  /\ {unblocked, wakeUp, mRunnable, joinable, delegate, task} \subseteq BOOLEAN
  /\ refCount \in 0..2
  /\ taskPc \in ThreadPlaces /\ ownerPc \in OwnerPlaces

(* Messages are handled in the order in which they were sent, none twice   *)
(* and none left out, until those that are left are flushed.               *)
HandledInOrder ==
  /\ task => accepted = handled \o mq
  /\ \E n \in 0..Len(accepted) : handled = SubSeq(accepted, 1, n)

(* To those who send, a MsgTask is a queue as TaskQueue describes it:      *)
(* messages are handled one at a time, in the order in which they were     *)
(* accepted, each once, and none when the task is deleted.                 *)
Queue == INSTANCE TaskQueue WITH
  Messages <- TaskMessages,
  sent <- accepted,
  taken <- handled,
  busy <- taskPc = "handling",
  closed <- unblocked,
  over <- ~task

ImplementsTaskQueue == Queue!Spec

(* Neither the owner nor the thread uses the delegate after its deletion,  *)
(* and the last of the two deletes it, joinable or detached, whoever comes *)
(* first.                                                                  *)
DelegateLives ==
  /\ taskPc # "ended" \/ ownerPc # "done" => delegate
  /\ taskPc = "ended" /\ ownerPc = "done" => ~delegate

(* No wakeup is lost.  Messages that wait are handled, or flushed with the *)
(* task, unless the owner has stopped the thread before it began (then the *)
(* task is never deleted), and an owner that destroys the task is not left *)
(* waiting for its thread.                                                 *)
MessagesEnd ==
  /\ mq # <<>> ~> (mq = <<>> \/ (task /\ taskPc = "ended"))
  /\ ownerPc = "bye" ~> (ownerPc = "done" /\ taskPc = "ended")
=============================================================================
