---------------------------- MODULE ServicesProofs ----------------------------
(***************************************************************************)
(* Proofs about the services of MCServices.  MsgTask, for any number of    *)
(* messages: their order, the queue that it implements, and the life of    *)
(* the delegate that the owner and the thread share.  Odcpi: that          *)
(* positions are asked for again, for any number of messages that wait.    *)
(* LocHeap, for any objects and ranks: that the tree stays sorted, and     *)
(* holds what was put in it.  At the end, that what is proved of each      *)
(* service by itself holds of their composition.                           *)
(***************************************************************************)
EXTENDS MCServices, OsObserverProofs, NiRequestsProofs, ApiClientProofs,
        SequenceTheorems, FiniteSetTheorems, WellFoundedInduction, TLAPS

USE TaskAssumption

-----------------------------------------------------------------------------
(* Sequences: an element moves from the head of the second to the end of   *)
(* the first, and comes in at the end of the second.                       *)

LEMMA MoveHead ==
  ASSUME NEW S, NEW s \in Seq(S), NEW t \in Seq(S), t # <<>>
  PROVE  Append(s, Head(t)) \o Tail(t) = s \o t
<1>1. t = <<Head(t)>> \o Tail(t)
  OBVIOUS
<1>2. Head(t) \in S /\ Tail(t) \in Seq(S) /\ <<Head(t)>> \in Seq(S)
  BY HeadTailProperties
<1>3. Append(s, Head(t)) = s \o <<Head(t)>>
  BY <1>2, AppendIsConcat
<1>4. (s \o <<Head(t)>>) \o Tail(t) = s \o (<<Head(t)>> \o Tail(t))
  BY <1>2, ConcatAssociative
<1> QED BY <1>1, <1>3, <1>4

LEMMA AppendBehind ==
  ASSUME NEW S, NEW s \in Seq(S), NEW t \in Seq(S), NEW e \in S
  PROVE  s \o Append(t, e) = Append(s \o t, e)
<1>1. <<e>> \in Seq(S) /\ s \o t \in Seq(S)
  BY ConcatProperties
<1>2. Append(t, e) = t \o <<e>> /\ Append(s \o t, e) = (s \o t) \o <<e>>
  BY <1>1, AppendIsConcat
<1> QED BY <1>1, <1>2, ConcatAssociative

LEMMA FrontOfConcat ==
  ASSUME NEW S, NEW s \in Seq(S), NEW t \in Seq(S)
  PROVE  /\ Len(s) \in 0..Len(s \o t)
         /\ s = SubSeq(s \o t, 1, Len(s))
<1>1. /\ s \o t \in Seq(S) /\ Len(s \o t) = Len(s) + Len(t)
      /\ \A i \in 1..Len(s) : (s \o t)[i] = s[i]
  BY ConcatProperties
<1>2. Len(s) \in Nat /\ Len(t) \in Nat
  BY LenProperties
<1>3. SubSeq(s \o t, 1, Len(s)) = [i \in 1..Len(s) |-> (s \o t)[i]]
  BY <1>1, <1>2
<1>4. s = [i \in 1..Len(s) |-> s[i]]
  BY <1>2
<1> QED BY <1>1, <1>2, <1>3, <1>4

-----------------------------------------------------------------------------
(* Types.                                                                  *)

LEMMA ReceiveTypes ==
  ASSUME TaskTypeOK, mq # <<>>, Removed
  PROVE  /\ mq' \in Seq(TaskMessages) /\ handled' \in Seq(TaskMessages)
         /\ fate' \in [TaskMessages -> {"unsent", "queued", "handled", "flushed", "leaked"}]
<1>1. Head(mq) \in TaskMessages /\ Tail(mq) \in Seq(TaskMessages)
  BY HeadTailProperties DEF TaskTypeOK
<1> QED BY <1>1, AppendProperties DEF TaskTypeOK, Removed

LEMMA SendTypes ==
  ASSUME TaskTypeOK, NEW m \in TaskMessages, SendMsg(m)
  PROVE  TaskTypeOK'
<1>1. Append(mq, m) \in Seq(TaskMessages) /\ Append(accepted, m) \in Seq(TaskMessages)
  BY AppendProperties DEF TaskTypeOK
<1>2. mq' \in Seq(TaskMessages) /\ accepted' \in Seq(TaskMessages)
  BY <1>1 DEF SendMsg, TaskTypeOK
<1>3. fate' \in [TaskMessages -> {"unsent", "queued", "handled", "flushed", "leaked"}]
  BY DEF SendMsg, TaskTypeOK
<1>4. wakeUp' \in BOOLEAN
  BY DEF SendMsg, Signal, TaskTypeOK
<1> QED BY <1>2, <1>3, <1>4 DEF SendMsg, TaskTypeOK, delegateVars

LEMMA ThreadTypes ==
  ASSUME TaskTypeOK, TaskThreadStep \/ SpuriousWakeUp
  PROVE  TaskTypeOK'
<1>1. CASE ReceiveStarts \/ ReceiveWakesUp \/ SpuriousWakeUp
  <2>1. /\ mq' \in Seq(TaskMessages) /\ handled' \in Seq(TaskMessages)
        /\ fate' \in [TaskMessages -> {"unsent", "queued", "handled", "flushed", "leaked"}]
    BY <1>1, ReceiveTypes
    DEF ReceiveStarts, ReceiveWakesUp, SpuriousWakeUp, WaitReturns, TaskTypeOK
  <2>2. taskPc' \in ThreadPlaces /\ wakeUp' = FALSE
    BY <1>1
    DEF ReceiveStarts, ReceiveWakesUp, SpuriousWakeUp, WaitReturns, Removed,
        ThreadPlaces, TaskTypeOK
  <2>3. UNCHANGED <<unblocked, accepted, delegateVars, task, ownerPc>>
    BY <1>1 DEF ReceiveStarts, ReceiveWakesUp, SpuriousWakeUp, WaitReturns
  <2> QED BY <2>1, <2>2, <2>3 DEF TaskTypeOK, delegateVars
<1>2. CASE ThreadReadsRunnable \/ ThreadTestsRunning \/ MessageDone
  BY <1>2
  DEF ThreadReadsRunnable, ThreadTestsRunning, MessageDone, ThreadGoes, TaskTypeOK,
      ThreadPlaces, queueVars, delegateVars
<1>3. CASE ThreadClearsRunnable
  BY <1>3 DEF ThreadClearsRunnable, ThreadGoes, TaskTypeOK, ThreadPlaces, queueVars
<1>4. CASE ThreadDeletesTask
  <2>1. fate' \in [TaskMessages -> {"unsent", "queued", "handled", "flushed", "leaked"}]
    BY <1>4 DEF ThreadDeletesTask, Flushed, TaskTypeOK
  <2>2. mq' \in Seq(TaskMessages)
    BY <1>4 DEF ThreadDeletesTask
  <2> QED
    BY <1>4, <2>1, <2>2
    DEF ThreadDeletesTask, ThreadGoes, TaskTypeOK, ThreadPlaces, delegateVars
<1>5. CASE ThreadDropsReference
  BY <1>5
  DEF ThreadDropsReference, DropReference, ThreadGoes, TaskTypeOK, ThreadPlaces, queueVars
<1> QED BY <1>1, <1>2, <1>3, <1>4, <1>5 DEF TaskThreadStep

LEMMA OwnerTypes ==
  ASSUME TaskTypeOK, OwnerUnblocks \/ OwnerStep
  PROVE  TaskTypeOK'
<1>1. CASE OwnerUnblocks
  BY <1>1 DEF OwnerUnblocks, OwnerGoes, Signal, TaskTypeOK, OwnerPlaces, delegateVars
<1>2. CASE Bye \/ Stop \/ Joined
  BY <1>2
  DEF Bye, Stop, Joined, OwnerGoes, TaskTypeOK, OwnerPlaces, queueVars, delegateVars
<1>3. CASE OwnerDropsReference
  BY <1>3
  DEF OwnerDropsReference, DropReference, OwnerGoes, TaskTypeOK, OwnerPlaces, queueVars
<1> QED BY <1>1, <1>2, <1>3 DEF OwnerStep

LEMMA NextTypes ==
  ASSUME TaskTypeOK, [TaskNext]_taskVars
  PROVE  TaskTypeOK'
<1>1. CASE UNCHANGED taskVars
  BY <1>1 DEF taskVars, queueVars, delegateVars, TaskTypeOK
<1> QED BY <1>1, SendTypes, ThreadTypes, OwnerTypes DEF TaskNext

LEMMA InitTypes == TaskInit => TaskTypeOK
<1> SUFFICES ASSUME TaskInit PROVE TaskTypeOK
  OBVIOUS
<1>1. mq \in Seq(TaskMessages) /\ accepted \in Seq(TaskMessages) /\ handled \in Seq(TaskMessages)
  BY EmptySeq DEF TaskInit
<1>2. fate \in [TaskMessages -> {"unsent", "queued", "handled", "flushed", "leaked"}]
  BY DEF TaskInit
<1>3. {unblocked, wakeUp, mRunnable, joinable, delegate, task} \subseteq BOOLEAN
  BY Zenon DEF TaskInit
<1>4. refCount \in 0..2 /\ taskPc \in ThreadPlaces /\ ownerPc \in OwnerPlaces
  BY DEF TaskInit, ThreadPlaces, OwnerPlaces
<1> QED BY <1>1, <1>2, <1>3, <1>4 DEF TaskTypeOK

(* The variables keep their types.                                         *)
THEOREM TaskTypeCorrect == TaskSpec => []TaskTypeOK
<1>1. TaskTypeOK /\ [TaskNext]_taskVars => TaskTypeOK'
  BY NextTypes
<1> QED BY <1>1, InitTypes, PTL DEF TaskSpec

-----------------------------------------------------------------------------
(* The order of messages.  The queue is read only while the task exists.   *)

ThreadOutlivesTask == ~task => taskPc \in {"destroy", "ended"}

OrderInv == TaskTypeOK /\ ThreadOutlivesTask /\ HandledInOrder

LEMMA RemovedInOrder ==
  ASSUME OrderInv, task, mq # <<>>, Removed, UNCHANGED <<accepted, task>>
  PROVE  HandledInOrder'
<1>1. accepted = handled \o mq
  BY DEF OrderInv, HandledInOrder
<1>2. accepted' = handled' \o mq'
  BY <1>1, MoveHead DEF Removed, OrderInv, TaskTypeOK
<1>3. mq' \in Seq(TaskMessages) /\ handled' \in Seq(TaskMessages)
  BY ReceiveTypes DEF OrderInv
<1>4. Len(handled') \in 0..Len(accepted') /\ handled' = SubSeq(accepted', 1, Len(handled'))
  BY <1>2, <1>3, FrontOfConcat
<1> QED BY <1>2, <1>4 DEF HandledInOrder

LEMMA SentInOrder ==
  ASSUME OrderInv, NEW m \in TaskMessages, SendMsg(m)
  PROVE  HandledInOrder'
<1>1. CASE unblocked
  <2>1. UNCHANGED <<mq, accepted, handled, task>>
    BY <1>1 DEF SendMsg
  <2> QED BY <2>1 DEF OrderInv, HandledInOrder
<1>2. CASE ~unblocked
  <2>1. /\ mq' = Append(mq, m) /\ accepted' = Append(accepted, m)
        /\ task /\ UNCHANGED <<handled, task>>
    BY <1>2 DEF SendMsg
  <2>2. accepted = handled \o mq
    BY <2>1 DEF OrderInv, HandledInOrder
  <2>3. accepted' = handled \o mq'
    <3>1. mq \in Seq(TaskMessages) /\ handled \in Seq(TaskMessages)
      BY DEF OrderInv, TaskTypeOK
    <3>2. handled \o Append(mq, m) = Append(handled \o mq, m)
      BY <3>1, AppendBehind
    <3> QED BY <2>1, <2>2, <3>2
  <2>4. mq' \in Seq(TaskMessages) /\ handled \in Seq(TaskMessages)
    BY SendTypes DEF OrderInv, TaskTypeOK
  <2>5. Len(handled) \in 0..Len(accepted') /\ handled = SubSeq(accepted', 1, Len(handled))
    BY <2>3, <2>4, FrontOfConcat
  <2> QED BY <2>1, <2>3, <2>5 DEF HandledInOrder
<1> QED BY <1>1, <1>2

LEMMA NextInOrder ==
  ASSUME OrderInv, [TaskNext]_taskVars
  PROVE  OrderInv'
<1>1. TaskTypeOK'
  BY NextTypes DEF OrderInv
<1>2. ThreadOutlivesTask'
  BY DEF OrderInv, ThreadOutlivesTask, TaskNext, taskVars, SendMsg, TaskThreadStep,
         ThreadReadsRunnable, ThreadTestsRunning, ReceiveStarts, ReceiveWakesUp,
         SpuriousWakeUp, WaitReturns, Removed, MessageDone, ThreadClearsRunnable,
         ThreadDeletesTask, ThreadDropsReference, ThreadGoes, OwnerUnblocks,
         OwnerStep, Bye, Stop, Joined, OwnerDropsReference
<1>3. CASE ReceiveStarts \/ ReceiveWakesUp \/ SpuriousWakeUp
  <2>1. task /\ UNCHANGED <<accepted, task>>
    BY <1>3
    DEF OrderInv, ThreadOutlivesTask, ReceiveStarts, ReceiveWakesUp, SpuriousWakeUp, WaitReturns
  <2>2. CASE mq # <<>> /\ Removed
    BY <1>1, <1>2, <2>1, <2>2, RemovedInOrder DEF OrderInv
  <2>3. CASE UNCHANGED <<mq, handled>>
    BY <1>1, <1>2, <2>1, <2>3 DEF OrderInv, HandledInOrder
  <2> QED BY <1>3, <2>2, <2>3 DEF ReceiveStarts, ReceiveWakesUp, SpuriousWakeUp, WaitReturns
<1>4. ASSUME NEW m \in TaskMessages, SendMsg(m)
      PROVE  OrderInv'
  BY <1>1, <1>2, <1>4, SentInOrder DEF OrderInv
<1>5. CASE ThreadDeletesTask
  BY <1>1, <1>2, <1>5 DEF ThreadDeletesTask, OrderInv, HandledInOrder
<1>6. CASE UNCHANGED <<mq, accepted, handled, task>>
  BY <1>1, <1>2, <1>6 DEF OrderInv, HandledInOrder
<1>7. CASE UNCHANGED taskVars
  BY <1>6, <1>7 DEF taskVars, queueVars
<1>8. CASE ThreadReadsRunnable \/ ThreadTestsRunning \/ MessageDone \/ ThreadClearsRunnable
           \/ ThreadDropsReference
  BY <1>6, <1>8
  DEF ThreadReadsRunnable, ThreadTestsRunning, MessageDone, ThreadClearsRunnable,
      ThreadDropsReference, queueVars
<1>9. CASE OwnerUnblocks \/ OwnerStep
  BY <1>6, <1>9
  DEF OwnerUnblocks, OwnerStep, Bye, Stop, Joined, OwnerDropsReference, queueVars
<1> QED BY <1>3, <1>4, <1>5, <1>7, <1>8, <1>9 DEF TaskNext, TaskThreadStep

LEMMA InitInOrder == TaskInit => OrderInv
<1>1. <<>> = <<>> \o <<>> /\ <<>> = SubSeq(<<>>, 1, 0) /\ 0 \in 0..Len(<<>>)
  OBVIOUS
<1> QED
  BY <1>1, InitTypes DEF TaskInit, OrderInv, ThreadOutlivesTask, HandledInOrder

(* MsgTask and msg_q: messages are handled in the order in which they were *)
(* sent, none twice and none left out, for any number of messages.         *)
THEOREM OrderIsKept == TaskSpec => []HandledInOrder
<1>1. TaskInit => OrderInv
  BY InitInOrder
<1>2. OrderInv /\ [TaskNext]_taskVars => OrderInv'
  BY NextInOrder
<1>3. OrderInv => HandledInOrder
  BY DEF OrderInv
<1> QED BY <1>1, <1>2, <1>3, PTL DEF TaskSpec

-----------------------------------------------------------------------------
(* MsgTask implements TaskQueue.                                           *)

(* What was accepted is known as sent, the thread leaves its loop only     *)
(* when the owner has closed the queue, and so the task is deleted after.  *)
SentAreKnown == \A i \in 1..Len(accepted) : fate[accepted[i]] # "unsent"
LeavesWhenClosed ==
  /\ ownerPc # "hasTask" => unblocked
  /\ ~mRunnable => unblocked
  /\ taskPc \in {"loopLeft", "delete"} => unblocked

QueueInv == OrderInv /\ SentAreKnown /\ LeavesWhenClosed

LEMMA SentBecomeKnown ==
  ASSUME QueueInv, [TaskNext]_taskVars
  PROVE  SentAreKnown'
<1> USE DEF QueueInv, OrderInv
<1>1. accepted \in Seq(TaskMessages) /\ mq \in Seq(TaskMessages)
      /\ fate \in [TaskMessages -> {"unsent", "queued", "handled", "flushed", "leaked"}]
  BY DEF TaskTypeOK
<1>2. ASSUME accepted' = accepted, \A m \in TaskMessages : fate[m] # "unsent" => fate'[m] # "unsent"
      PROVE  SentAreKnown'
  BY <1>1, <1>2 DEF SentAreKnown
<1>3. ASSUME NEW m \in TaskMessages, SendMsg(m)
      PROVE  SentAreKnown'
  <2>1. \A l \in TaskMessages : fate[l] # "unsent" => fate'[l] # "unsent"
    BY <1>1, <1>3 DEF SendMsg
  <2>2. fate'[m] # "unsent"
    BY <1>1, <1>3 DEF SendMsg
  <2>3. CASE accepted' = accepted
    BY <1>2, <2>1, <2>3
  <2>4. CASE accepted' = Append(accepted, m)
    <3>1. ASSUME NEW i \in 1..Len(accepted') PROVE fate'[accepted'[i]] # "unsent"
      <4>1. CASE i = Len(accepted) + 1
        BY <1>1, <2>2, <2>4, <4>1
      <4>2. CASE i \in 1..Len(accepted)
        <5>1. accepted'[i] = accepted[i] /\ accepted[i] \in TaskMessages
          BY <1>1, <2>4, <4>2
        <5> QED BY <2>1, <4>2, <5>1 DEF SentAreKnown
      <4> QED BY <1>1, <2>4, <3>1, <4>1, <4>2
    <3> QED BY <3>1 DEF SentAreKnown
  <2> QED BY <1>3, <2>3, <2>4 DEF SendMsg
<1>4. CASE ReceiveStarts \/ ReceiveWakesUp \/ SpuriousWakeUp
  <2>1. accepted' = accepted
    BY <1>4 DEF ReceiveStarts, ReceiveWakesUp, SpuriousWakeUp, WaitReturns
  <2>2. fate' = fate \/ fate' = [fate EXCEPT ![Head(mq)] = "handled"]
    BY <1>4 DEF ReceiveStarts, ReceiveWakesUp, SpuriousWakeUp, WaitReturns, Removed
  <2> QED BY <1>1, <1>2, <2>1, <2>2
<1>5. CASE ThreadDeletesTask
  BY <1>1, <1>2, <1>5 DEF ThreadDeletesTask, Flushed
<1>6. CASE UNCHANGED <<accepted, fate>>
  BY <1>1, <1>2, <1>6
<1>7. CASE UNCHANGED taskVars
  BY <1>6, <1>7 DEF taskVars, queueVars
<1>8. CASE ThreadReadsRunnable \/ ThreadTestsRunning \/ MessageDone \/ ThreadClearsRunnable
           \/ ThreadDropsReference
  BY <1>6, <1>8
  DEF ThreadReadsRunnable, ThreadTestsRunning, MessageDone, ThreadClearsRunnable,
      ThreadDropsReference, queueVars
<1>9. CASE OwnerUnblocks \/ OwnerStep
  BY <1>6, <1>9
  DEF OwnerUnblocks, OwnerStep, Bye, Stop, Joined, OwnerDropsReference, queueVars
<1> QED BY <1>3, <1>4, <1>5, <1>7, <1>8, <1>9 DEF TaskNext, TaskThreadStep

LEMMA QueueInvKeeps ==
  ASSUME QueueInv, [TaskNext]_taskVars
  PROVE  QueueInv'
<1>1. OrderInv' /\ SentAreKnown'
  BY NextInOrder, SentBecomeKnown DEF QueueInv
<1>2. LeavesWhenClosed'
  BY DEF QueueInv, OrderInv, LeavesWhenClosed, TaskNext, taskVars, queueVars, delegateVars,
         SendMsg, TaskThreadStep, ThreadReadsRunnable, ThreadTestsRunning, ReceiveStarts,
         ReceiveWakesUp, SpuriousWakeUp, WaitReturns, Removed, MessageDone,
         ThreadClearsRunnable, ThreadDeletesTask, ThreadDropsReference, ThreadGoes,
         OwnerUnblocks, OwnerGoes, OwnerStep, Bye, Stop, Joined, OwnerDropsReference
<1> QED BY <1>1, <1>2 DEF QueueInv

(* The head of the list is the first message that was not taken yet.       *)
LEMMA HeadIsNext ==
  ASSUME OrderInv, task, mq # <<>>
  PROVE  Len(handled) < Len(accepted) /\ Head(mq) = accepted[Len(handled) + 1]
<1>1. /\ accepted = handled \o mq
      /\ handled \in Seq(TaskMessages) /\ mq \in Seq(TaskMessages)
  BY DEF OrderInv, HandledInOrder, TaskTypeOK
<1> QED BY <1>1

LEMMA TakeIsTake ==
  ASSUME QueueInv, ReceiveStarts \/ ReceiveWakesUp \/ SpuriousWakeUp
  PROVE  Queue!Take \/ UNCHANGED Queue!queueTaskVars
<1>1. /\ task /\ taskPc # "handling"
      /\ UNCHANGED <<accepted, unblocked, task>>
  BY DEF QueueInv, OrderInv, ThreadOutlivesTask, ReceiveStarts, ReceiveWakesUp,
         SpuriousWakeUp, WaitReturns
<1>2. CASE mq # <<>> /\ Removed
  BY <1>1, <1>2, HeadIsNext DEF QueueInv, Removed, Queue!Take
<1>3. CASE handled' = handled /\ taskPc' # "handling"
  BY <1>1, <1>3 DEF Queue!queueTaskVars
<1> QED
  BY <1>1, <1>2, <1>3 DEF ReceiveStarts, ReceiveWakesUp, SpuriousWakeUp, WaitReturns

LEMMA StepsAreQueueSteps ==
  ASSUME QueueInv, [TaskNext]_taskVars
  PROVE  [Queue!Next]_Queue!queueTaskVars
<1>1. ASSUME NEW m \in TaskMessages, SendMsg(m)
      PROVE  Queue!Send(m) \/ UNCHANGED Queue!queueTaskVars
  <2>1. fate[m] = "unsent" /\ UNCHANGED <<handled, unblocked, taskPc, task>>
    BY <1>1 DEF SendMsg
  <2>2. CASE unblocked /\ accepted' = accepted
    BY <2>1, <2>2 DEF Queue!queueTaskVars
  <2>3. CASE ~unblocked /\ accepted' = Append(accepted, m)
    <3>1. \A i \in 1..Len(accepted) : accepted[i] # m
      BY <2>1 DEF QueueInv, SentAreKnown
    <3> QED BY <2>1, <2>3, <3>1 DEF Queue!Send
  <2> QED BY <1>1, <2>2, <2>3 DEF SendMsg
<1>2. CASE ReceiveStarts \/ ReceiveWakesUp \/ SpuriousWakeUp
  BY <1>2, TakeIsTake DEF Queue!Next
<1>3. CASE MessageDone
  BY <1>3 DEF MessageDone, ThreadGoes, queueVars, Queue!Next, Queue!Handled
<1>4. CASE ThreadReadsRunnable \/ ThreadTestsRunning \/ ThreadClearsRunnable
           \/ ThreadDropsReference
  BY <1>4
  DEF ThreadReadsRunnable, ThreadTestsRunning, ThreadClearsRunnable, ThreadDropsReference,
      ThreadGoes, queueVars, Queue!queueTaskVars
<1>5. CASE ThreadDeletesTask
  BY <1>5
  DEF ThreadDeletesTask, ThreadGoes, QueueInv, OrderInv, ThreadOutlivesTask, LeavesWhenClosed,
      Queue!Next, Queue!End
<1>6. CASE OwnerUnblocks
  BY <1>6 DEF OwnerUnblocks, Queue!Next, Queue!Close
<1>7. CASE OwnerStep
  BY <1>7
  DEF OwnerStep, Bye, Stop, Joined, OwnerDropsReference, queueVars, Queue!queueTaskVars
<1>8. CASE UNCHANGED taskVars
  BY <1>8 DEF taskVars, queueVars, Queue!queueTaskVars
<1> QED
  BY <1>1, <1>2, <1>3, <1>4, <1>5, <1>6, <1>7, <1>8
  DEF TaskNext, TaskThreadStep, Queue!Next

(* Those who send to a MsgTask may take it for a queue whose messages are  *)
(* handled one at a time, in order, and none after its end: whatever the   *)
(* threads do between, each step is one of TaskQueue's or changes nothing  *)
(* that it speaks of.                                                      *)
THEOREM TaskImplementsQueue == TaskSpec => ImplementsTaskQueue
<1>1. TaskInit => QueueInv /\ Queue!Init
  <2>1. TaskInit => OrderInv
    BY InitInOrder
  <2>2. TaskInit => SentAreKnown /\ LeavesWhenClosed
    BY DEF TaskInit, SentAreKnown, LeavesWhenClosed
  <2> QED BY <2>1, <2>2 DEF QueueInv, TaskInit, Queue!Init
<1>2. QueueInv /\ [TaskNext]_taskVars => QueueInv'
  BY QueueInvKeeps
<1>3. QueueInv /\ [TaskNext]_taskVars => [Queue!Next]_Queue!queueTaskVars
  BY StepsAreQueueSteps
<1> QED BY <1>1, <1>2, <1>3, PTL DEF TaskSpec, ImplementsTaskQueue, Queue!Spec

-----------------------------------------------------------------------------
(* The delegate: each of the two has a reference until its last step.      *)

References ==
  /\ taskPc # "ended" /\ ownerPc # "done" => refCount = 2 /\ delegate
  /\ ~(taskPc = "ended" <=> ownerPc = "done") => refCount = 1 /\ delegate
  /\ taskPc = "ended" /\ ownerPc = "done" => ~delegate

LEMMA NextReferences ==
  ASSUME TaskTypeOK, References, [TaskNext]_taskVars
  PROVE  References'
<1>1. CASE UNCHANGED <<refCount, delegate, ownerPc>> /\ (taskPc' = "ended" <=> taskPc = "ended")
  BY <1>1 DEF References
<1>2. CASE UNCHANGED taskVars
  BY <1>1, <1>2 DEF taskVars, delegateVars
<1>3. ASSUME NEW m, SendMsg(m)
      PROVE  References'
  BY <1>1, <1>3 DEF SendMsg, delegateVars
<1>4. CASE ReceiveStarts \/ ReceiveWakesUp \/ SpuriousWakeUp
  BY <1>1, <1>4
  DEF ReceiveStarts, ReceiveWakesUp, SpuriousWakeUp, WaitReturns, Removed, delegateVars
<1>5. CASE ThreadReadsRunnable \/ ThreadTestsRunning \/ MessageDone \/ ThreadClearsRunnable
           \/ ThreadDeletesTask
  BY <1>1, <1>5
  DEF ThreadReadsRunnable, ThreadTestsRunning, MessageDone, ThreadClearsRunnable,
      ThreadDeletesTask, ThreadGoes, delegateVars
<1>6. CASE ThreadDropsReference
  <2>1. /\ taskPc = "destroy" /\ taskPc' = "ended" /\ ownerPc' = ownerPc
        /\ refCount' = refCount - 1 /\ delegate' = (delegate /\ refCount # 1)
    BY <1>6 DEF ThreadDropsReference, ThreadGoes, DropReference, References, TaskTypeOK
  <2>2. CASE ownerPc = "done"
    BY <2>1, <2>2 DEF References
  <2>3. CASE ownerPc # "done"
    <3>1. refCount = 2 /\ delegate
      BY <2>1, <2>3 DEF References
    <3>2. refCount' = 1 /\ refCount # 1
      BY <2>1, <3>1
    <3>3. delegate'
      BY <2>1, <3>1, <3>2, Zenon
    <3> QED BY <2>1, <2>3, <3>2, <3>3 DEF References
  <2> QED BY <2>2, <2>3
<1>7. CASE OwnerUnblocks \/ Bye \/ Stop \/ Joined
  BY <1>7
  DEF OwnerUnblocks, Bye, Stop, Joined, OwnerGoes, References, delegateVars
<1>8. CASE OwnerDropsReference
  <2>1. /\ ownerPc = "destroy" /\ ownerPc' = "done" /\ taskPc' = taskPc
        /\ refCount' = refCount - 1 /\ delegate' = (delegate /\ refCount # 1)
    BY <1>8 DEF OwnerDropsReference, OwnerGoes, DropReference, References, TaskTypeOK
  <2>2. CASE taskPc = "ended"
    BY <2>1, <2>2 DEF References
  <2>3. CASE taskPc # "ended"
    <3>1. refCount = 2 /\ delegate
      BY <2>1, <2>3 DEF References
    <3>2. refCount' = 1 /\ refCount # 1
      BY <2>1, <3>1
    <3>3. delegate'
      BY <2>1, <3>1, <3>2, Zenon
    <3> QED BY <2>1, <2>3, <3>2, <3>3 DEF References
  <2> QED BY <2>2, <2>3
<1> QED
  BY <1>2, <1>3, <1>4, <1>5, <1>6, <1>7, <1>8 DEF TaskNext, TaskThreadStep, OwnerStep

(* LocThreadDelegate: neither the owner nor the thread uses the delegate   *)
(* after its deletion, and the last of the two deletes it, whoever comes   *)
(* first and whether the thread is joinable or detached.                   *)
THEOREM DelegateIsDeletedLast == TaskSpec => []DelegateLives
<1>1. TaskInit => References
  BY DEF TaskInit, References
<1>2. TaskTypeOK /\ References /\ [TaskNext]_taskVars => References'
  BY NextReferences
<1>3. References => DelegateLives
  BY DEF References, DelegateLives
<1> QED BY <1>1, <1>2, <1>3, TaskTypeCorrect, PTL DEF TaskSpec

-----------------------------------------------------------------------------
(* Positions on demand.                                                    *)

LEMMA InitIsRepeated == OdcpiInit => OdcpiTypeOK /\ OdcpiIsRepeated
<1> SUFFICES ASSUME OdcpiInit PROVE OdcpiTypeOK /\ OdcpiIsRepeated
  OBVIOUS
<1>1. odcpiQueue \in Seq(OdcpiMessages)
  BY DEF OdcpiInit
<1> QED
  BY <1>1 DEF OdcpiInit, OdcpiTypeOK, OdcpiIsRepeated

(* A message that is posted leaves the expirations in the queue.           *)
LEMMA AppendKeepsExpire ==
  ASSUME OdcpiTypeOK, NEW m \in OdcpiMessages,
         odcpiQueue' = Append(odcpiQueue, m), firing' = firing
  PROVE  odcpiQueue' \in Seq(OdcpiMessages) /\ (ExpireComes => ExpireComes')
<1>1. odcpiQueue \in Seq(OdcpiMessages)
  BY DEF OdcpiTypeOK
<1>2. odcpiQueue' \in Seq(OdcpiMessages)
  BY <1>1
<1>3. \A i \in 1 .. Len(odcpiQueue) :
        i \in 1 .. Len(odcpiQueue') /\ odcpiQueue'[i] = odcpiQueue[i]
  BY <1>1
<1> QED
  BY <1>2, <1>3 DEF ExpireComes

(* A message that is handled, unless it is an expiration itself.           *)
LEMMA TailKeepsExpire ==
  ASSUME OdcpiTypeOK, NEW kind, Takes(kind)
  PROVE  /\ odcpiQueue' \in Seq(OdcpiMessages)
         /\ kind # "expire" /\ ExpireComes => ExpireComes'
<1>1. odcpiQueue \in Seq(OdcpiMessages) /\ odcpiQueue # <<>>
  BY DEF OdcpiTypeOK, Takes
<1>2. odcpiQueue' = Tail(odcpiQueue) /\ odcpiQueue[1].kind = kind /\ firing' = firing
  BY <1>1 DEF Takes, OdcpiMsg
<1>3. odcpiQueue' \in Seq(OdcpiMessages)
  BY <1>1, <1>2
<1>4. ASSUME kind # "expire", ExpireComes PROVE ExpireComes'
  <2>1. CASE firing = "call"
    BY <1>2, <2>1 DEF ExpireComes
  <2>2. CASE firing # "call"
    <3>1. PICK i \in 1 .. Len(odcpiQueue) : odcpiQueue[i].kind = "expire"
      BY <1>4, <2>2 DEF ExpireComes
    <3>2. i # 1
      BY <1>2, <1>4, <3>1
    <3>3. i - 1 \in 1 .. Len(odcpiQueue') /\ odcpiQueue'[i - 1] = odcpiQueue[i]
      BY <1>1, <1>2, <3>1, <3>2
    <3> QED
      BY <3>1, <3>3 DEF ExpireComes
  <2> QED
    BY <2>1, <2>2
<1> QED
  BY <1>3, <1>4

LEMMA PostRepeats ==
  ASSUME OdcpiTypeOK, OdcpiIsRepeated, NEW m \in OdcpiMessages, Posts(m)
  PROVE  OdcpiTypeOK' /\ OdcpiIsRepeated'
<1>1. odcpiQueue' = Append(odcpiQueue, m) /\ firing' = firing
  BY DEF Posts
<1>2. odcpiQueue' \in Seq(OdcpiMessages) /\ (ExpireComes => ExpireComes')
  BY <1>1, AppendKeepsExpire
<1> QED
  BY <1>2 DEF Posts, OdcpiTypeOK, OdcpiIsRepeated, adapterState

(* The timer's thread takes the timer for the expiration, never drops it.  *)
LEMMA TimerRepeats ==
  ASSUME OdcpiTypeOK, OdcpiIsRepeated, TimerStep
  PROVE  OdcpiTypeOK' /\ OdcpiIsRepeated'
<1>1. CASE TimerFires
  BY <1>1 DEF TimerFires, OdcpiTypeOK, OdcpiIsRepeated, ExpireComes, adapterState
<1>2. CASE TimerStops
  BY <1>2 DEF TimerStops, OdcpiTypeOK, OdcpiIsRepeated, ExpireComes, adapterState
<1>3. CASE TimerCalls
  <2>1. odcpiQueue \in Seq(OdcpiMessages) /\ [kind |-> "expire"] \in OdcpiMessages
    BY DEF OdcpiTypeOK, OdcpiMessages
  <2>2. odcpiQueue' = Append(odcpiQueue, [kind |-> "expire"])
    BY <1>3 DEF TimerCalls
  <2>3. odcpiQueue' \in Seq(OdcpiMessages)
    BY <2>1, <2>2
  <2>4. /\ Len(odcpiQueue) + 1 \in 1 .. Len(odcpiQueue')
        /\ odcpiQueue'[Len(odcpiQueue) + 1] = [kind |-> "expire"]
    BY <2>1, <2>2
  <2>5. ExpireComes'
    BY <2>4 DEF ExpireComes
  <2> QED
    BY <1>3, <2>3, <2>5 DEF TimerCalls, OdcpiTypeOK, OdcpiIsRepeated, adapterState
<1> QED
  BY <1>1, <1>2, <1>3 DEF TimerStep

(* What is handled keeps the timer or its expiration, and the expiration   *)
(* that is handled starts the timer again or ends its flag.                *)
LEMMA AdapterRepeats ==
  ASSUME OdcpiTypeOK, OdcpiIsRepeated, OdcpiStep
  PROVE  OdcpiTypeOK' /\ OdcpiIsRepeated'
<1>1. CASE InitOdcpi
  BY <1>1, TailKeepsExpire
     DEF InitOdcpi, TimerStays, Takes, OdcpiTypeOK, OdcpiIsRepeated
<1>2. CASE OdcpiStarts
  <2>1. Takes("start") /\ odcpiQueue[1] \in OdcpiMessages /\ OdcpiMsg = odcpiQueue[1]
    BY <1>2 DEF OdcpiStarts, Takes, OdcpiMsg, OdcpiTypeOK
  <2>2. OdcpiMsg.emergency \in BOOLEAN
    BY <2>1 DEF Takes, OdcpiMessages
  <2>3. odcpiQueue' \in Seq(OdcpiMessages) /\ (ExpireComes => ExpireComes')
    BY <2>1, TailKeepsExpire
  <2>4. CASE ~odcpiCb
    BY <1>2, <2>1, <2>3, <2>4
       DEF OdcpiStarts, TimerStays, Takes, OdcpiTypeOK, OdcpiIsRepeated
  <2>5. CASE odcpiCb
    <3> DEFINE asks == \/ ~reqActive /\ ~timerActive
                       \/ ~forEmergency /\ OdcpiMsg.emergency
    <3>1. /\ reqActive' = TRUE /\ forEmergency' = OdcpiMsg.emergency
          /\ odcpiCb' = odcpiCb /\ firing' = firing
      BY <1>2, <2>1, <2>5 DEF OdcpiStarts, Takes
    <3>2. CASE asks
      <4>1. /\ asked' = IF OdcpiMsg.emergency THEN "emergency" ELSE "normal"
            /\ timerActive' = TRUE /\ timerOn' = TRUE
        BY <1>2, <2>5, <3>2 DEF OdcpiStarts, TimerStarts, Asks
      <4>2. /\ asked' \in {"normal", "emergency"}
            /\ forEmergency' => asked' = "emergency"
        BY <2>2, <3>1, <4>1
      <4> QED
        BY <2>2, <2>3, <2>5, <3>1, <4>1, <4>2 DEF OdcpiTypeOK, OdcpiIsRepeated
    <3>3. CASE ~asks
      BY <1>2, <2>2, <2>3, <2>5, <3>1, <3>3
         DEF OdcpiStarts, TimerStays, OdcpiTypeOK, OdcpiIsRepeated
    <3> QED
      BY <3>2, <3>3
  <2> QED
    BY <2>4, <2>5 DEF OdcpiTypeOK
<1>3. CASE OdcpiStops
  BY <1>3, TailKeepsExpire
     DEF OdcpiStops, TimerStays, Takes, OdcpiTypeOK, OdcpiIsRepeated
<1>4. CASE OdcpiTimerExpire
  BY <1>4, TailKeepsExpire
     DEF OdcpiTimerExpire, TimerStarts, Asks, Takes, OdcpiTypeOK, OdcpiIsRepeated
<1>5. CASE OdcpiRestarts
  BY <1>5, TailKeepsExpire
     DEF OdcpiRestarts, TimerStays, Takes, OdcpiTypeOK, OdcpiIsRepeated
<1> QED
  BY <1>1, <1>2, <1>3, <1>4, <1>5 DEF OdcpiStep

(* As long as the modem asks for positions, whatever it and the timer do   *)
(* in whatever order, the timer runs or its expiration is on its way, and  *)
(* an emergency is asked for as one (reportOdcpiRequest, odcpiTimerExpire  *)
(* and OdcpiTimer).                                                        *)
THEOREM OdcpiRepeats == OdcpiSpec => [](OdcpiTypeOK /\ OdcpiIsRepeated)
<1>1. OdcpiInit => OdcpiTypeOK /\ OdcpiIsRepeated
  BY InitIsRepeated
<1>2. OdcpiTypeOK /\ OdcpiIsRepeated /\ [OdcpiNext]_odcpiVars
        => OdcpiTypeOK' /\ OdcpiIsRepeated'
  <2> SUFFICES ASSUME OdcpiTypeOK, OdcpiIsRepeated, [OdcpiNext]_odcpiVars
               PROVE  OdcpiTypeOK' /\ OdcpiIsRepeated'
    OBVIOUS
  <2>1. CASE OdcpiNext
    BY <2>1, PostRepeats, TimerRepeats, AdapterRepeats DEF OdcpiNext
  <2>2. CASE UNCHANGED odcpiVars
    BY <2>2 DEF odcpiVars, adapterState, OdcpiTypeOK, OdcpiIsRepeated, ExpireComes
  <2> QED
    BY <2>1, <2>2
<1> QED
  BY <1>1, <1>2, PTL DEF OdcpiSpec

-----------------------------------------------------------------------------
(* Places.                                                                 *)

Child(p, q) == q \in {Left(p), Right(p)}

LEMMA Children ==
  /\ Top \in Places
  /\ \A p \in Places : Left(p) \in Places /\ Right(p) \in Places /\ Left(p) # Right(p)
  /\ \A p, q \in Places : Child(p, q) => q # Top /\ ~Child(q, p) /\ p # q
  /\ \A p, q, r \in Places : Child(p, r) /\ Child(q, r) => p = q
<1> DEFINE S == {"left", "right"}
<1>1. \A p \in Seq(S) : \A s \in S :
        /\ Append(p, s) \in Seq(S) /\ Len(Append(p, s)) = Len(p) + 1
        /\ Append(p, s)[Len(p) + 1] = s
        /\ \A n \in 1..Len(p) : Append(p, s)[n] = p[n]
  OBVIOUS
<1>2. \A p, q \in Seq(S) : \A s, t \in S : Append(p, s) = Append(q, t) => p = q /\ s = t
  <2> SUFFICES ASSUME NEW p \in Seq(S), NEW q \in Seq(S), NEW s \in S, NEW t \in S,
                      Append(p, s) = Append(q, t)
               PROVE  p = q /\ s = t
    OBVIOUS
  <2>1. Len(p) \in Nat /\ Len(q) \in Nat
    OBVIOUS
  <2>2. Len(p) = Len(q) /\ s = t
    BY <1>1, <2>1
  <2>3. \A n \in 1..Len(p) : p[n] = q[n]
    BY <1>1, <2>2
  <2> QED BY <2>2, <2>3
<1>3. \A p \in Seq(S) : Len(p) \in Nat
  OBVIOUS
<1>4. \A p \in Places : Len(Left(p)) = Len(p) + 1 /\ Len(Right(p)) = Len(p) + 1
  BY <1>1 DEF Places, Left, Right
<1>5. Top \in Places /\ Len(Top) = 0
  BY DEF Places, Top
<1>6. \A p \in Places : Left(p) \in Places /\ Right(p) \in Places /\ Left(p) # Right(p)
  BY <1>1, <1>2 DEF Places, Left, Right
<1>7. \A p, q \in Places : Child(p, q) => q # Top /\ ~Child(q, p) /\ p # q
  <2> SUFFICES ASSUME NEW p \in Places, NEW q \in Places, Child(p, q)
               PROVE  q # Top /\ ~Child(q, p) /\ p # q
    OBVIOUS
  <2>1. Len(p) \in Nat /\ Len(q) = Len(p) + 1
    BY <1>3, <1>4 DEF Places, Child
  <2>2. Child(q, p) => Len(p) = Len(q) + 1
    BY <1>4 DEF Child
  <2> QED BY <2>1, <2>2, <1>5
<1>8. \A p, q, r \in Places : Child(p, r) /\ Child(q, r) => p = q
  BY <1>2 DEF Places, Child, Left, Right
<1> QED BY <1>5, <1>6, <1>7, <1>8

(* The nodes above a place are its parent and those above the parent.      *)
LEMMA AboveChild ==
  ASSUME NEW p \in Places, NEW q \in Places, Child(p, q)
  PROVE  Above(q) = Above(p) \cup {p} /\ p \notin Above(p)
<1>1. Len(p) \in Nat /\ Len(q) = Len(p) + 1 /\ \A n \in 1..Len(p) : q[n] = p[n]
  BY DEF Places, Child, Left, Right
<1>2. \A n \in 0..Len(p) : SubSeq(q, 1, n) = SubSeq(p, 1, n)
  <2> TAKE n \in 0..Len(p)
  <2>1. SubSeq(q, 1, n) = [i \in 1..n |-> q[i]] /\ SubSeq(p, 1, n) = [i \in 1..n |-> p[i]]
    BY <1>1 DEF Places
  <2>2. \A i \in 1..n : q[i] = p[i]
    BY <1>1
  <2> QED BY <2>1, <2>2
<1>3. SubSeq(p, 1, Len(p)) = p
  BY DEF Places
<1>4. \A n \in 0..(Len(p) - 1) : SubSeq(p, 1, n) # p
  BY <1>1 DEF Places
<1>5. Above(q) = {SubSeq(q, 1, n) : n \in 0..Len(p)}
  BY <1>1 DEF Above
<1>6. {SubSeq(q, 1, n) : n \in 0..Len(p)} = {SubSeq(p, 1, n) : n \in 0..Len(p)}
  BY <1>2
<1>7. {SubSeq(p, 1, n) : n \in 0..Len(p)}
        = {SubSeq(p, 1, n) : n \in 0..(Len(p) - 1)} \cup {SubSeq(p, 1, Len(p))}
  BY <1>1
<1> QED BY <1>3, <1>4, <1>5, <1>6, <1>7 DEF Above

LEMMA AboveTop == Above(Top) = {}
BY DEF Above, Top

(* A line leads from the top to a place, with one child of each node.     *)
LEMMA LineDown ==
  ASSUME NEW p \in Places, NEW q \in Places
  PROVE  /\ \A r \in Above(p) \cup {p} : Child(q, r) => q \in Above(p)
         /\ q \in Above(p) =>
              /\ Left(q) \in Above(p) \cup {p} <=> Right(q) \notin Above(p) \cup {p}
         /\ p \notin Above(p)
         /\ p # Top => Top \in Above(p)
<1> DEFINE Line == {SubSeq(p, 1, n) : n \in 0..Len(p)}
<1>1. Len(p) \in Nat /\ p \in Seq({"left", "right"}) /\ q \in Seq({"left", "right"})
  BY DEF Places
<1>2. /\ SubSeq(p, 1, Len(p)) = p
      /\ \A n \in 0..Len(p) : SubSeq(p, 1, n) = [i \in 1..n |-> p[i]] /\ Len(SubSeq(p, 1, n)) = n
  BY <1>1
<1>3. Line = Above(p) \cup {p} /\ p \notin Above(p)
  <2>1. Line = {SubSeq(p, 1, n) : n \in 0..(Len(p) - 1)} \cup {SubSeq(p, 1, Len(p))}
    BY <1>1
  <2>2. \A q1 \in Above(p) : Len(q1) # Len(p)
    BY <1>1, <1>2 DEF Above
  <2> QED BY <1>2, <2>1, <2>2 DEF Above
<1>4. \A n \in 1..Len(p) :
        SubSeq(p, 1, n) = Append(SubSeq(p, 1, n - 1), p[n]) /\ p[n] \in {"left", "right"}
  <2> TAKE n \in 1..Len(p)
  <2>1. n - 1 \in 0..Len(p) /\ n \in 0..Len(p)
    OBVIOUS
  <2>2. SubSeq(p, 1, n - 1) \in Seq({"left", "right"}) /\ p[n] \in {"left", "right"}
    BY <1>1
  <2>3. Append(SubSeq(p, 1, n - 1), p[n]) = [i \in 1..n |-> p[i]]
    BY <1>2, <2>1, <2>2
  <2> QED BY <1>2, <2>1, <2>2, <2>3
<1>5. ASSUME NEW r \in Line, Child(q, r)
      PROVE  q \in Above(p)
  <2>1. PICK n \in 0..Len(p) : r = SubSeq(p, 1, n)
    OBVIOUS
  <2>2. Len(r) = n /\ Len(r) = Len(q) + 1 /\ Len(q) \in Nat
    BY <1>1, <1>2, <1>5, <2>1 DEF Child, Left, Right
  <2>3. n \in 1..Len(p) /\ n - 1 \in 0..(Len(p) - 1)
    BY <2>2
  <2>4. SubSeq(p, 1, n - 1) \in Places /\ Child(SubSeq(p, 1, n - 1), r)
    <3>1. SubSeq(p, 1, n - 1) \in Seq({"left", "right"})
      BY <1>1, <2>3
    <3> QED BY <1>4, <2>1, <2>3, <3>1 DEF Child, Left, Right, Places
  <2>5. r \in Places
    <3>1. \A p1 \in Places : Left(p1) \in Places /\ Right(p1) \in Places
      BY Children
    <3> QED BY <2>4, <3>1 DEF Child
  <2>6. q = SubSeq(p, 1, n - 1)
    BY <1>5, <2>4, <2>5, Children
  <2> QED BY <2>3, <2>6 DEF Above
<1>6. ASSUME q \in Above(p)
      PROVE  Left(q) \in Line <=> Right(q) \notin Line
  <2>1. PICK n \in 0..(Len(p) - 1) : q = SubSeq(p, 1, n)
    BY <1>6 DEF Above
  <2>2. n + 1 \in 1..Len(p) /\ Len(q) = n /\ n \in Nat /\ (n + 1) - 1 = n
    BY <1>2, <2>1
  <2>3. SubSeq(p, 1, n + 1) = Append(q, p[n + 1]) /\ p[n + 1] \in {"left", "right"}
    BY <1>4, <2>1, <2>2
  <2>4. SubSeq(p, 1, n + 1) \in {Left(q), Right(q)} /\ SubSeq(p, 1, n + 1) \in Line
    BY <2>2, <2>3 DEF Left, Right
  <2>5. \A r \in Line : Len(r) = n + 1 => r = SubSeq(p, 1, n + 1)
    BY <1>2, <2>2
  <2>6. Len(Left(q)) = n + 1 /\ Len(Right(q)) = n + 1 /\ Left(q) # Right(q)
    BY <1>1, <2>2, Children DEF Left, Right
  <2> QED BY <2>4, <2>5, <2>6
<1>7. p # Top => Top \in Above(p)
  <2>1. p # Top => Len(p) # 0
    BY <1>1 DEF Top
  <2>2. SubSeq(p, 1, 0) = <<>>
    BY <1>1
  <2>3. ASSUME p # Top
        PROVE  Top \in Above(p)
    <3>1. 0 \in 0..(Len(p) - 1)
      BY <1>1, <2>1, <2>3
    <3> QED BY <2>2, <3>1 DEF Above, Top
  <2> QED BY <2>3
<1> QED BY <1>3, <1>5, <1>6, <1>7

-----------------------------------------------------------------------------
(* What holds of the tree also within operations.                          *)

DoingAt(op, p) == doing.op = op /\ Child(p, doing.at)

(* A new node that goes to a child is counted already, ... *)
SizesAdd ==
  \A p \in Nodes :
    tree[p].size + (IF DoingAt("pop", p) THEN 1 ELSE 0)
      = 1 + SizeAt(Left(p)) + SizeAt(Right(p)) + (IF DoingAt("push", p) THEN 1 ELSE 0)

(* ... also in the size of the whole.                                      *)
Counted ==
  SizeAt(Top) + (IF doing = Nothing \/ doing.op = "pop" \/ doing.at # Top THEN 0 ELSE 1)
    = Cardinality(inHeap) + (IF doing = Popping(Top) THEN 1 ELSE 0)

Connected == \A p \in Nodes : p # Top => \E q \in Nodes : Child(q, p)

(* Only the data on its way out may outrank its parent, ...                *)
Sorted ==
  \A p, q \in Nodes :
    Child(p, q) /\ ~(doing.op = "pop" /\ doing.at \in {p, q}) =>
      ~OutRanks(tree[q].data, tree[p].data)

(* ... around which nothing does, and so it is for the data on its way in. *)
SortedAround ==
  \A p \in Nodes :
    /\ DoingAt("pop", p) => \A q \in Nodes :
         Child(doing.at, q) => ~OutRanks(tree[q].data, tree[p].data)
    /\ DoingAt("push", p) => ~OutRanks(doing.data, tree[p].data)

(* An object has one node, and each that is in the heap has one, but for   *)
(* the one that comes or goes.                                             *)
Data == {tree[p].data : p \in Nodes}

Complete ==
  /\ \A p, q \in Nodes : tree[p].data = tree[q].data => p = q
  /\ doing = Nothing => inHeap = Data
  /\ doing.op = "push" => inHeap = Data \cup {doing.data} /\ doing.data \notin Data
  /\ doing.op = "pop" => inHeap = Data \ {tree[doing.at].data}

HeapInv ==
  /\ HeapTypeOK
  /\ SizesAdd /\ Counted
  /\ Connected /\ Sorted /\ SortedAround
  /\ Complete

LEMMA Doings ==
  /\ Nothing.op = "nothing"
  /\ \A p, x : /\ Pushing(p, x).op = "push" /\ Pushing(p, x).at = p /\ Pushing(p, x).data = x
               /\ Pushing(p, x) # Nothing
  /\ \A p : /\ Popping(p).op = "pop" /\ Popping(p).at = p /\ Popping(p) # Nothing
  /\ \A p, q : Popping(p) = Popping(q) => p = q
<1>1. \A p, x : Pushing(p, x).op = "push" /\ Pushing(p, x).at = p /\ Pushing(p, x).data = x
  BY DEF Pushing
<1>2. \A p : Popping(p).op = "pop" /\ Popping(p).at = p
  BY DEF Popping
<1>3. Nothing.op = "nothing"
  BY DEF Nothing
<1> QED BY <1>1, <1>2, <1>3

LEMMA HeapTypes ==
  ASSUME HeapTypeOK
  PROVE  /\ \A p \in Nodes : p \in Places /\ tree[p] = [data |-> tree[p].data, size |-> tree[p].size]
              /\ tree[p].data \in Rankables /\ tree[p].size \in Nat \ {0}
         /\ \A p : SizeAt(p) \in Nat /\ (p \notin Nodes => SizeAt(p) = 0)
                   /\ (p \in Nodes => SizeAt(p) = tree[p].size)
         /\ \/ doing = Nothing
            \/ \E p \in Nodes, x \in Rankables : doing = Pushing(p, x)
            \/ \E p \in Nodes : doing = Popping(p)
<1>1. \A p \in Nodes : p \in Places /\ tree[p] = [data |-> tree[p].data, size |-> tree[p].size]
        /\ tree[p].data \in Rankables /\ tree[p].size \in Nat \ {0}
  BY DEF HeapTypeOK
<1>2. \A p : SizeAt(p) \in Nat /\ (p \notin Nodes => SizeAt(p) = 0)
             /\ (p \in Nodes => SizeAt(p) = tree[p].size)
  BY <1>1 DEF SizeAt
<1>3. \/ doing = Nothing
      \/ \E p \in Nodes, x \in Rankables : doing = Pushing(p, x)
      \/ \E p \in Nodes : doing = Popping(p)
  BY DEF HeapTypeOK
<1> QED BY <1>1, <1>2, <1>3

(* Ranks are numbers. *)
LEMMA Ranks ==
  \A x, y \in Rankables :
    /\ OutRanks(x, y) => ~OutRanks(y, x)
    /\ \A z \in Rankables : ~OutRanks(x, y) /\ ~OutRanks(y, z) => ~OutRanks(x, z)
<1>1. \A x \in Rankables : Rank[x] \in Nat
  BY HeapAssumption
<1> QED BY <1>1 DEF OutRanks

(* The data of an ancestor is never outranked.                             *)
LEMMA NatMin ==
  ASSUME NEW A, A \subseteq Nat, A # {}
  PROVE  \E x \in A : \A y \in A : x <= y
<1> DEFINE R == {ss \in Nat \X Nat : ss[1] < ss[2]}
<1>1. IsWellFoundedOn(R, Nat)
  <2>1. OpToRel(<, Nat) = R
    BY DEF OpToRel
  <2> QED BY <2>1, NatLessThanWellFounded
<1>2. \E x \in A : \A y \in A : ~ (<<y, x>> \in R)
  <2> HIDE DEF R
  <2> QED BY <1>1, WFMin
<1>3. PICK x \in A : \A y \in A : ~ (<<y, x>> \in R)
  BY <1>2
<1>4. \A y \in A : x <= y
  <2> TAKE y \in A
  <2>1. x \in Nat /\ y \in Nat
    OBVIOUS
  <2>2. ~(<<y, x>> \in Nat \X Nat /\ y < x)
    BY <1>3
  <2> QED BY <2>1, <2>2
<1> QED BY <1>4

LEMMA AncestorsRankHigher ==
  ASSUME HeapInv, doing = Nothing
  PROVE  \A p \in Nodes : \A q \in Above(p) : q \in Nodes /\ ~OutRanks(tree[p].data, tree[q].data)
<1> DEFINE Bad(p) == \E q \in Above(p) : ~(q \in Nodes /\ ~OutRanks(tree[p].data, tree[q].data))
           A == {Len(p) : p \in {n \in Nodes : Bad(n)}}
<1>1. SUFFICES ASSUME \E p \in Nodes : Bad(p)
               PROVE  FALSE
  OBVIOUS
<1>2. A \subseteq Nat /\ A # {}
  <2>1. \A p \in Nodes : Len(p) \in Nat
    BY DEF HeapInv, HeapTypeOK, Places
  <2> QED BY <1>1, <2>1
<1>3. PICK n \in A : \A m \in A : n <= m
  <2> HIDE DEF A
  <2> QED BY <1>2, NatMin
<1>4. PICK p \in Nodes : Bad(p) /\ n = Len(p)
  BY <1>3
<1>5. p # Top
  BY <1>4, AboveTop
<1>6. PICK q \in Nodes : Child(q, p)
  BY <1>5 DEF HeapInv, Connected
<1>7. p \in Places /\ q \in Places
  BY DEF HeapInv, HeapTypeOK
<1>8. Len(q) \in Nat /\ Len(p) = Len(q) + 1
  BY <1>6, <1>7 DEF Child, Places, Left, Right
<1>9. ~Bad(q)
  BY <1>3, <1>4, <1>8
<1>10. Above(p) = Above(q) \cup {q}
  BY <1>6, <1>7, AboveChild
<1>11. ~OutRanks(tree[p].data, tree[q].data)
  BY <1>6, Doings DEF HeapInv, Sorted
<1>12. \A r \in Nodes : tree[r].data \in Rankables
  BY HeapTypes DEF HeapInv
<1>13. \A r \in Above(q) : r \in Nodes /\ ~OutRanks(tree[p].data, tree[r].data)
  BY <1>9, <1>11, <1>12, Ranks
<1> QED BY <1>4, <1>10, <1>11, <1>13

(* What the heap promises follows from the invariant.                      *)
LEMMA HeapInvImplies == HeapInv => HeapIsSound
<1> SUFFICES ASSUME HeapInv, doing = Nothing
             PROVE  /\ CheckNodes
                    /\ inHeap = {tree[p].data : p \in Nodes}
                    /\ \A p, q \in Nodes : tree[p].data = tree[q].data => p = q
                    /\ SizeAt(Top) = Cardinality(inHeap)
                    /\ \A x \in inHeap : ~OutRanks(x, tree[Top].data)
  BY DEF HeapIsSound
<1>1. inHeap = Data /\ \A p, q \in Nodes : tree[p].data = tree[q].data => p = q
  BY DEF HeapInv, Complete
<1>2. CheckNodes
  <2>1. \A p \in Nodes : ~DoingAt("pop", p) /\ ~DoingAt("push", p)
    BY Doings DEF DoingAt
  <2>2. \A p \in Nodes : tree[p].size = 1 + SizeAt(Left(p)) + SizeAt(Right(p))
    BY <2>1, HeapTypes DEF HeapInv, SizesAdd
  <2>3. \A p, q \in Nodes : Child(p, q) => ~OutRanks(tree[q].data, tree[p].data)
    BY Doings DEF HeapInv, Sorted
  <2> QED BY <2>2, <2>3 DEF CheckNodes, Child
<1>3. SizeAt(Top) = Cardinality(inHeap)
  <2>1. doing # Popping(Top)
    BY Doings
  <2>2. Cardinality(inHeap) \in Nat /\ SizeAt(Top) \in Nat
    BY FS_CardinalityType, HeapTypes DEF HeapInv, HeapTypeOK
  <2> QED BY <2>1, <2>2 DEF HeapInv, Counted
<1>4. ASSUME NEW x \in inHeap
      PROVE  ~OutRanks(x, tree[Top].data)
  <2>1. PICK p \in Nodes : x = tree[p].data
    BY <1>1 DEF Data
  <2>2. CASE p = Top
    BY <2>1, <2>2, HeapTypes, Ranks DEF HeapInv
  <2>3. CASE p # Top
    <3>1. Top \in Above(p)
      BY <2>3, LineDown, Children DEF HeapInv, HeapTypeOK
    <3> QED BY <2>1, <3>1, AncestorsRankHigher
  <2> QED BY <2>2, <2>3
<1> QED BY <1>1, <1>2, <1>3, <1>4 DEF Data

-----------------------------------------------------------------------------
(* The invariant holds initially, and is kept.                             *)

LEMMA HeapInitInv == HeapInit => HeapInv
<1> SUFFICES ASSUME HeapInit PROVE HeapInv
  OBVIOUS
<1>1. Nodes = {} /\ doing = Nothing /\ inHeap = {}
  BY DEF HeapInit, Nodes
<1>2. IsFiniteSet(inHeap) /\ Cardinality(inHeap) = 0
  BY <1>1, FS_EmptySet
<1>3. tree = [p \in Nodes |-> tree[p]]
  BY DEF HeapInit, Nodes
<1>4. tree \in [Nodes -> [data : Rankables, size : Nat \ {0}]]
  BY <1>1, <1>3
<1>5. HeapTypeOK
  BY <1>1, <1>2, <1>4 DEF HeapTypeOK
<1>6. Counted
  BY <1>1, <1>2, Doings DEF Counted, SizeAt
<1>7. Complete
  BY <1>1, Doings DEF Complete, Data
<1> QED BY <1>1, <1>5, <1>6, <1>7 DEF HeapInv, SizesAdd, Connected, Sorted, SortedAround

(* A push begins: the first node, or the first step. *)
LEMMA HeapPushKeeps ==
  ASSUME HeapInv, NEW x \in Rankables, HeapPush(x)
  PROVE  HeapInv'
<1> USE DEF HeapInv
<1>1. doing = Nothing /\ x \notin inHeap /\ inHeap' = inHeap \cup {x}
  BY DEF HeapPush
<1>2. /\ IsFiniteSet(inHeap') /\ inHeap' \subseteq Rankables
      /\ Cardinality(inHeap) \in Nat /\ Cardinality(inHeap') = Cardinality(inHeap) + 1
  BY <1>1, FS_AddElement, FS_CardinalityType DEF HeapTypeOK
<1>3. SizeAt(Top) = Cardinality(inHeap)
  BY <1>1, HeapInvImplies DEF HeapIsSound
<1>4. CASE Nodes = {}
  <2>1. tree' = [p \in {Top} |-> NewNode(x)] /\ Nodes' = {Top} /\ doing' = Nothing
    BY <1>1, <1>4 DEF HeapPush, Nodes
  <2>2. tree'[Top] = [data |-> x, size |-> 1]
    BY <2>1 DEF NewNode
  <2>3. inHeap' = {x} /\ Data' = {x}
    BY <1>1, <1>4, <2>1, <2>2 DEF Data, Complete
  <2>4. HeapTypeOK'
    BY <1>2, <2>1, <2>2, Children DEF HeapTypeOK, NewNode
  <2>5. SizesAdd'
    <3>1. SizeAt(Left(Top))' = 0 /\ SizeAt(Right(Top))' = 0
      BY <2>1, Children DEF SizeAt, Child
    <3>2. ~DoingAt("push", Top)' /\ ~DoingAt("pop", Top)'
      BY <2>1, Doings DEF DoingAt
    <3> QED BY <3>1, <3>2, <2>1, <2>2 DEF SizesAdd
  <2>6. Counted'
    <3>1. SizeAt(Top)' = 1 /\ Cardinality(inHeap') = 1
      <4>1. Cardinality({x}) = 1
        BY FS_Singleton
      <4> QED BY <2>1, <2>2, <2>3, <4>1 DEF SizeAt
    <3> QED BY <3>1, <2>1, Doings DEF Counted
  <2>7. Connected'
    BY <2>1 DEF Connected
  <2>8. Sorted' /\ SortedAround'
    BY <2>1, Children, Doings DEF Sorted, SortedAround, DoingAt
  <2>9. Complete'
    BY <2>1, <2>3, Doings DEF Complete
  <2> QED BY <2>4, <2>5, <2>6, <2>7, <2>8, <2>9
<1>5. CASE Nodes # {}
  <2>1. doing' = Pushing(Top, x) /\ UNCHANGED tree /\ Nodes' = Nodes
    BY <1>1, <1>5 DEF HeapPush, Nodes
  <2>2. Top \in Nodes
    <3>1. IsFiniteSet(inHeap) /\ inHeap # {} /\ Top \notin Nodes => Cardinality(inHeap) # 0
      BY FS_EmptySet
    <3>2. inHeap # {}
      BY <1>1, <1>5 DEF Complete, Data
    <3> QED BY <1>3, <3>1, <3>2 DEF SizeAt, HeapTypeOK
  <2>3. HeapTypeOK'
    BY <1>2, <2>1, <2>2 DEF HeapTypeOK
  <2>4. \A p \in Nodes : ~DoingAt("push", p)' /\ ~DoingAt("pop", p)'
    BY <2>1, Doings, Children DEF DoingAt, HeapTypeOK
  <2>5. \A p \in Nodes : ~DoingAt("push", p) /\ ~DoingAt("pop", p)
    BY <1>1, Doings DEF DoingAt
  <2>6. \A p : SizeAt(p)' = SizeAt(p)
    BY <2>1 DEF SizeAt, Nodes
  <2>7. SizesAdd'
    BY <2>1, <2>4, <2>5, <2>6 DEF SizesAdd
  <2>8. Counted'
    BY <1>2, <1>3, <2>1, <2>6, Doings DEF Counted
  <2>9. Connected' /\ Sorted' /\ SortedAround'
    BY <1>1, <2>1, <2>4, Doings DEF Connected, Sorted, SortedAround
  <2>10. Complete'
    <3>1. Data' = Data
      BY <2>1 DEF Data
    <3> QED BY <1>1, <2>1, <3>1, Doings DEF Complete
  <2> QED BY <2>3, <2>7, <2>8, <2>9, <2>10
<1> QED BY <1>4, <1>5

(* A pop begins at the top, ...                                            *)
LEMMA TopIsThere ==
  ASSUME HeapInv, doing = Nothing, Nodes # {}
  PROVE  Top \in Nodes /\ tree[Top].data \in inHeap
<1>1. SizeAt(Top) = Cardinality(inHeap) /\ inHeap = Data
  BY HeapInvImplies DEF HeapIsSound, Data
<1>2. inHeap # {} /\ IsFiniteSet(inHeap)
  BY <1>1 DEF Data, HeapInv, HeapTypeOK
<1>3. SizeAt(Top) # 0
  BY <1>1, <1>2, FS_EmptySet
<1> QED BY <1>1, <1>3 DEF SizeAt, Data

LEMMA HeapPopKeeps ==
  ASSUME HeapInv, HeapPop
  PROVE  HeapInv'
<1> USE DEF HeapInv
<1>1. /\ doing = Nothing /\ doing' = Popping(Top) /\ UNCHANGED tree
      /\ Nodes' = Nodes /\ Top \in Nodes /\ tree[Top].data \in inHeap
      /\ inHeap' = inHeap \ {tree[Top].data}
  BY TopIsThere DEF HeapPop, Nodes
<1>2. /\ IsFiniteSet(inHeap') /\ inHeap' \subseteq Rankables
      /\ Cardinality(inHeap) \in Nat /\ Cardinality(inHeap') = Cardinality(inHeap) - 1
  <2>1. inHeap \subseteq Rankables /\ IsFiniteSet(inHeap)
    BY DEF HeapTypeOK
  <2>2. Cardinality(inHeap) \in Nat
    BY <2>1, FS_CardinalityType
  <2>3. /\ IsFiniteSet(inHeap \ {tree[Top].data})
        /\ Cardinality(inHeap \ {tree[Top].data}) = Cardinality(inHeap) - 1
    BY <1>1, <2>1, FS_RemoveElement
  <2> QED BY <1>1, <2>1, <2>2, <2>3
<1>3. HeapTypeOK'
  BY <1>1, <1>2 DEF HeapTypeOK
<1>4. \A p \in Nodes : ~DoingAt("push", p)' /\ ~DoingAt("pop", p)'
  BY <1>1, Doings, Children DEF DoingAt, HeapTypeOK
<1>5. \A p \in Nodes : ~DoingAt("push", p) /\ ~DoingAt("pop", p)
  BY <1>1, Doings DEF DoingAt
<1>6. \A p : SizeAt(p)' = SizeAt(p)
  BY <1>1 DEF SizeAt, Nodes
<1>7. SizesAdd'
  BY <1>1, <1>4, <1>5, <1>6 DEF SizesAdd
<1>8. Counted'
  <2>1. SizeAt(Top) = Cardinality(inHeap)
    BY <1>1, HeapInvImplies DEF HeapIsSound
  <2> QED BY <1>1, <1>2, <1>6, <2>1, Doings DEF Counted
<1>9. Connected' /\ Sorted' /\ SortedAround'
  BY <1>1, <1>4, Doings DEF Connected, Sorted, SortedAround
<1>10. Complete'
  <2>1. Data' = Data
    BY <1>1 DEF Data
  <2> QED BY <1>1, <2>1, Doings DEF Complete
<1> QED BY <1>3, <1>7, <1>8, <1>9, <1>10

(* ... and a removal at the place of the object.                           *)
LEMMA HeapRemoveKeeps ==
  ASSUME HeapInv, NEW x \in Rankables, HeapRemove(x)
  PROVE  HeapInv'
<1> USE DEF HeapInv
<1>1. doing = Nothing /\ inHeap = Data /\ inHeap' = inHeap \ {x}
  BY DEF HeapRemove, Complete
<1>2. /\ IsFiniteSet(inHeap) /\ Cardinality(inHeap) \in Nat /\ IsFiniteSet(inHeap')
      /\ inHeap' \subseteq Rankables
      /\ x \in inHeap => Cardinality(inHeap') = Cardinality(inHeap) - 1
  <2>1. inHeap \subseteq Rankables /\ IsFiniteSet(inHeap)
    BY DEF HeapTypeOK
  <2>2. Cardinality(inHeap) \in Nat
    BY <2>1, FS_CardinalityType
  <2>3. /\ IsFiniteSet(inHeap \ {x})
        /\ x \in inHeap => Cardinality(inHeap \ {x}) = Cardinality(inHeap) - 1
    BY <2>1, FS_RemoveElement
  <2> QED BY <1>1, <2>1, <2>2, <2>3
<1>3. \A p \in Nodes : ~DoingAt("push", p) /\ ~DoingAt("pop", p)
  BY <1>1, Doings DEF DoingAt
<1>4. CASE Finds(x) = {}
  <2>1. x \notin Data
    BY <1>1, <1>4, AncestorsRankHigher DEF Finds, Data
  <2>2. UNCHANGED heapVars
    BY <1>1, <1>4, <2>1 DEF HeapRemove, heapVars
  <2> QED BY <2>2 DEF heapVars, HeapTypeOK, SizesAdd, Counted, Connected, Sorted, SortedAround,
                      Complete, Nodes, SizeAt, DoingAt, Data
<1>5. CASE Finds(x) # {}
  <2>1. PICK p \in Finds(x) :
          /\ tree' = [q \in Nodes |-> IF q \in Above(p)
                                      THEN [tree[q] EXCEPT !.size = @ - 1] ELSE tree[q]]
          /\ doing' = Popping(p)
    BY <1>5 DEF HeapRemove
  <2>2. p \in Nodes /\ p \in Places /\ tree[p].data = x /\ x \in inHeap
    BY <1>1, HeapTypes DEF Finds, Data
  <2>3. Nodes' = Nodes
    BY <2>1 DEF Nodes
  <2>4. \A q \in Nodes :
          /\ tree'[q].data = tree[q].data
          /\ tree'[q].size = IF q \in Above(p) THEN tree[q].size - 1 ELSE tree[q].size
          /\ tree'[q] = [data |-> tree'[q].data, size |-> tree'[q].size]
    <3> TAKE q \in Nodes
    <3>1. tree[q] = [data |-> tree[q].data, size |-> tree[q].size]
      BY HeapTypes
    <3>2. [tree[q] EXCEPT !.size = @ - 1] = [data |-> tree[q].data, size |-> tree[q].size - 1]
      BY <3>1
    <3> QED BY <2>1, <3>1, <3>2
  <2>5. \A q \in Nodes : ~DoingAt("push", q)' /\ (DoingAt("pop", q)' <=> Child(q, p))
    BY <2>1, Doings DEF DoingAt
  <2>6. \A q : SizeAt(q)' = IF q \in Above(p) /\ q \in Nodes THEN SizeAt(q) - 1 ELSE SizeAt(q)
    BY <2>3, <2>4 DEF SizeAt
  <2>7. \A q \in Above(p) : q \in Nodes
    BY <1>1, <2>2, AncestorsRankHigher
  <2>8. \A q \in Nodes : tree[q].size = 1 + SizeAt(Left(q)) + SizeAt(Right(q))
    BY <1>3, HeapTypes DEF SizesAdd
  <2>9. \A q \in Nodes : q \in Above(p) => tree[q].size - 1 \in Nat \ {0}
    <3> TAKE q \in Nodes
    <3> HAVE q \in Above(p)
    <3>1. q \in Places
      BY HeapTypes
    <3>2. Left(q) \in Above(p) \cup {p} \/ Right(q) \in Above(p) \cup {p}
      BY <2>2, <3>1, LineDown
    <3>3. Left(q) \in Nodes \/ Right(q) \in Nodes
      BY <2>2, <2>7, <3>2
    <3>4. SizeAt(Left(q)) \in Nat /\ SizeAt(Right(q)) \in Nat
          /\ (SizeAt(Left(q)) > 0 \/ SizeAt(Right(q)) > 0)
      <4>1. \A r \in Nodes : SizeAt(r) \in Nat \ {0}
        BY HeapTypes
      <4> QED BY <3>3, <4>1, HeapTypes
    <3> QED BY <2>8, <3>4
  <2>10. HeapTypeOK'
    <3>1. \A q \in Nodes : tree'[q] \in [data : Rankables, size : Nat \ {0}]
      <4> TAKE q \in Nodes
      <4>1. tree[q].data \in Rankables /\ tree[q].size \in Nat \ {0}
        BY HeapTypes
      <4>2. tree'[q].data \in Rankables /\ tree'[q].size \in Nat \ {0}
        BY <2>4, <2>9, <4>1
      <4>3. \E d \in Rankables, n \in Nat \ {0} : tree'[q] = [data |-> d, size |-> n]
        BY <2>4, <4>2
      <4> QED BY <4>3
    <3>2. tree' \in [Nodes -> [data : Rankables, size : Nat \ {0}]]
      BY <2>1, <3>1
    <3> QED BY <1>2, <2>1, <2>2, <2>3, <3>2 DEF HeapTypeOK
  <2>11. SizesAdd'
    <3> SUFFICES ASSUME NEW q \in Nodes
                 PROVE  tree'[q].size + (IF Child(q, p) THEN 1 ELSE 0)
                          = 1 + SizeAt(Left(q))' + SizeAt(Right(q))'
      BY <2>3, <2>5, <2>6, <2>10, HeapTypes DEF SizesAdd
    <3>1. q \in Places /\ SizeAt(Left(q)) \in Nat /\ SizeAt(Right(q)) \in Nat /\ tree[q].size \in Nat
      BY HeapTypes
    <3>2. /\ Left(q) \in Above(p) \cup {p} => q \in Above(p)
          /\ Right(q) \in Above(p) \cup {p} => q \in Above(p)
          /\ q \in Above(p) => (Left(q) \in Above(p) \cup {p} <=> Right(q) \notin Above(p) \cup {p})
          /\ p \notin Above(p)
      BY <2>2, <3>1, LineDown DEF Child
    <3>3. SizeAt(Left(q))' = (IF Left(q) \in Above(p) THEN SizeAt(Left(q)) - 1 ELSE SizeAt(Left(q)))
          /\ SizeAt(Right(q))' = (IF Right(q) \in Above(p) THEN SizeAt(Right(q)) - 1 ELSE SizeAt(Right(q)))
      BY <2>6, <2>7
    <3>4. Child(q, p) <=> Left(q) = p \/ Right(q) = p
      BY DEF Child
    <3>5. tree[q].size = 1 + SizeAt(Left(q)) + SizeAt(Right(q))
      BY <2>8
    <3>6. tree'[q].size = IF q \in Above(p) THEN tree[q].size - 1 ELSE tree[q].size
      BY <2>4
    <3>7. CASE q \notin Above(p)
      BY <3>1, <3>2, <3>3, <3>4, <3>5, <3>6, <3>7
    <3>8. CASE q \in Above(p) /\ Left(q) \in Above(p) \cup {p}
      BY <3>1, <3>2, <3>3, <3>4, <3>5, <3>6, <3>8
    <3>9. CASE q \in Above(p) /\ Right(q) \in Above(p) \cup {p}
      BY <3>1, <3>2, <3>3, <3>4, <3>5, <3>6, <3>9
    <3> QED BY <3>2, <3>7, <3>8, <3>9
  <2>12. Counted'
    <3>1. SizeAt(Top) = Cardinality(inHeap) /\ SizeAt(Top) \in Nat
      BY <1>1, HeapInvImplies, HeapTypes DEF HeapIsSound
    <3>2. Cardinality(inHeap') = Cardinality(inHeap) - 1
      BY <1>2, <2>2
    <3>3. CASE p = Top
      BY <1>2, <2>1, <2>6, <3>1, <3>2, <3>3, AboveTop, Doings DEF Counted
    <3>4. CASE p # Top
      <4>1. SizeAt(Top)' = SizeAt(Top) - 1
        BY <2>2, <2>6, <2>7, <3>4, LineDown, Children
      <4> QED BY <1>2, <2>1, <3>1, <3>2, <3>4, <4>1, Doings DEF Counted
    <3> QED BY <3>3, <3>4
  <2>13. Connected'
    BY <2>3 DEF Connected
  <2>14. \A q, r \in Nodes : Child(q, r) => ~OutRanks(tree[r].data, tree[q].data)
    BY <1>1, Doings DEF Sorted
  <2>15. Sorted'
    BY <2>3, <2>4, <2>14 DEF Sorted
  <2>16. SortedAround'
    <3>1. \A q, r \in Nodes : Child(q, p) /\ Child(p, r) => ~OutRanks(tree[r].data, tree[q].data)
      BY <2>2, <2>14, HeapTypes, Ranks
    <3> QED BY <2>1, <2>3, <2>4, <2>5, <3>1, Doings DEF SortedAround
  <2>17. Complete'
    <3>1. Data' = Data
      BY <2>3, <2>4 DEF Data
    <3> QED BY <1>1, <2>1, <2>2, <2>3, <2>4, <3>1, Doings DEF Complete
  <2> QED BY <2>10, <2>11, <2>12, <2>13, <2>15, <2>16, <2>17
<1> QED BY <1>4, <1>5

(* The children of the node that an operation has come to.                 *)
LEMMA NoChildrenYet ==
  ASSUME HeapInv, NEW p \in Places, p \notin Nodes
  PROVE  \A q \in Nodes : ~Child(p, q)
<1> SUFFICES ASSUME NEW q \in Nodes, Child(p, q)
             PROVE  FALSE
  OBVIOUS
<1>1. q \in Places
  BY HeapTypes DEF HeapInv
<1>2. q # Top
  BY <1>1, Children
<1>3. PICK r \in Nodes : Child(r, q)
  BY <1>2 DEF HeapInv, Connected
<1>4. r \in Places
  BY HeapTypes DEF HeapInv
<1>5. r = p
  BY <1>1, <1>3, <1>4, Children
<1> QED BY <1>5

(* A step of a push puts the higher of two objects into its node, and goes *)
(* on with the lower one.                                                  *)
LEMMA NodePushEffect ==
  ASSUME HeapInv, NodePush
  PROVE  \E p \in Nodes : \E side \in Places : \E x, high, low \in Rankables :
           /\ doing = Pushing(p, x) /\ Child(p, side)
           /\ (high = x /\ low = tree[p].data) \/ (high = tree[p].data /\ low = x)
           /\ ~OutRanks(low, high)
           /\ inHeap' = inHeap
           /\ tree'[p] = [data |-> high, size |-> tree[p].size + 1]
           /\ \A q \in Nodes \ {p} : tree'[q] = tree[q]
           /\ \/ /\ side \in Nodes
                 /\ Nodes' = Nodes /\ tree' = [q \in Nodes |-> tree'[q]]
                 /\ doing' = Pushing(side, low)
              \/ /\ side \notin Nodes
                 /\ Nodes' = Nodes \cup {side}
                 /\ tree' = [q \in Nodes \cup {side} |-> tree'[q]]
                 /\ tree'[side] = [data |-> low, size |-> 1]
                 /\ doing' = Nothing
<1> DEFINE p == doing.at
           x == doing.data
           side == PushSide(p)
           swaps == OutRanks(x, tree[p].data)
           high == IF swaps THEN x ELSE tree[p].data
           low == IF swaps THEN tree[p].data ELSE x
<1>1. p \in Nodes /\ x \in Rankables /\ doing = Pushing(p, x)
  BY HeapTypes, Doings DEF HeapInv, NodePush
<1>2. p \in Places /\ tree[p].data \in Rankables
  BY <1>1, HeapTypes DEF HeapInv
<1>3. side \in Places /\ Child(p, side) /\ side # p
  BY <1>2, Children DEF PushSide, Child
<1>4. /\ high \in Rankables /\ low \in Rankables
      /\ (high = x /\ low = tree[p].data) \/ (high = tree[p].data /\ low = x)
  BY <1>1, <1>2
<1>5. ~OutRanks(low, high)
  BY <1>1, <1>2, Ranks
<1> DEFINE grown == [tree EXCEPT ![p] = [data |-> IF swaps THEN x ELSE @.data,
                                         size |-> @.size + 1]]
<1>6. /\ grown = [q \in Nodes |-> grown[q]]
      /\ grown[p] = [data |-> high, size |-> tree[p].size + 1]
      /\ \A q \in Nodes \ {p} : grown[q] = tree[q]
  BY <1>1 DEF Nodes
<1>7. /\ side \in Nodes => tree' = grown /\ doing' = Pushing(side, low)
      /\ side \notin Nodes =>
           /\ tree' = [q \in Nodes \cup {side} |-> IF q = side THEN NewNode(low) ELSE grown[q]]
           /\ doing' = Nothing
      /\ inHeap' = inHeap
  BY DEF NodePush
<1> HIDE DEF p, x, side, swaps, high, low, grown
<1>8. CASE side \in Nodes
  BY <1>1, <1>3, <1>4, <1>5, <1>6, <1>7, <1>8 DEF Nodes
<1>9. CASE side \notin Nodes
  <2>1. /\ Nodes' = Nodes \cup {side}
        /\ tree' = [q \in Nodes \cup {side} |-> tree'[q]]
        /\ tree'[side] = [data |-> low, size |-> 1]
    BY <1>7, <1>9 DEF Nodes, NewNode
  <2>2. \A q \in Nodes : tree'[q] = grown[q]
    BY <1>7, <1>9
  <2>3. doing' = Nothing /\ tree'[p] = [data |-> high, size |-> tree[p].size + 1]
        /\ \A q \in Nodes \ {p} : tree'[q] = tree[q]
    BY <1>1, <1>6, <1>7, <1>9, <2>2
  <2> p \in Nodes /\ side \in Places /\ x \in Rankables /\ high \in Rankables /\ low \in Rankables
    BY <1>1, <1>3, <1>4
  <2> WITNESS p \in Nodes
  <2> WITNESS side \in Places
  <2> WITNESS x \in Rankables, high \in Rankables, low \in Rankables
  <2> QED BY <1>1, <1>3, <1>4, <1>5, <1>7, <1>9, <2>1, <2>3
<1> QED BY <1>8, <1>9

LEMMA NodePopEffect ==
  ASSUME HeapInv, NodePop
  PROVE  \E p \in Nodes :
           /\ doing = Popping(p) /\ inHeap' = inHeap
           /\ \/ \E side \in Nodes :
                   /\ Child(p, side)
                   /\ \A q \in Nodes : Child(p, q) => ~OutRanks(tree[q].data, tree[side].data)
                   /\ Nodes' = Nodes /\ tree' = [q \in Nodes |-> tree'[q]]
                   /\ tree'[p] = [data |-> tree[side].data, size |-> tree[p].size - 1]
                   /\ tree'[side] = [data |-> tree[p].data, size |-> tree[side].size]
                   /\ \A q \in Nodes \ {p, side} : tree'[q] = tree[q]
                   /\ doing' = Popping(side)
              \/ /\ \A q \in Nodes : ~Child(p, q)
                 /\ Nodes' = Nodes \ {p} /\ tree' = [q \in Nodes \ {p} |-> tree[q]]
                 /\ doing' = Nothing
<1> DEFINE p == doing.at
           side == HigherSide(p)
<1>1. p \in Nodes /\ doing = Popping(p) /\ p \in Places /\ inHeap' = inHeap
  <2>1. doing.op = "pop" /\ inHeap' = inHeap
    BY DEF NodePop
  <2>2. \E q \in Nodes : doing = Popping(q)
    BY <2>1, HeapTypes, Doings DEF HeapInv
  <2>3. p \in Nodes /\ doing = Popping(p)
    BY <2>2, Doings
  <2> QED BY <2>1, <2>3, HeapTypes DEF HeapInv
<1>2. CASE {Left(p), Right(p)} \cap Nodes # {}
  <2>1. /\ tree' = [tree EXCEPT ![p] = [data |-> tree[side].data, size |-> @.size - 1],
                                ![side].data = tree[p].data]
        /\ doing' = Popping(side)
    BY <1>2 DEF NodePop
  <2>2. Child(p, side) /\ side \in Nodes
    BY <1>2 DEF HigherSide, Child
  <2>3. \A q \in Nodes : tree[q].data \in Rankables
    BY HeapTypes DEF HeapInv
  <2>4. \A q \in Nodes : Child(p, q) => ~OutRanks(tree[q].data, tree[side].data)
    BY <2>3, Ranks DEF HigherSide, Child
  <2>5. side # p
    BY <1>1, <2>2, Children, HeapTypes DEF HeapInv
  <2>6. tree[side] = [data |-> tree[side].data, size |-> tree[side].size]
    BY <2>2, HeapTypes DEF HeapInv
  <2> HIDE DEF p, side
  <2>7. /\ Nodes' = Nodes /\ tree' = [q \in Nodes |-> tree'[q]]
        /\ tree'[p] = [data |-> tree[side].data, size |-> tree[p].size - 1]
        /\ \A q \in Nodes \ {p, side} : tree'[q] = tree[q]
    BY <1>1, <2>1, <2>2, <2>5 DEF Nodes
  <2>8. tree'[side] = [tree[side] EXCEPT !.data = tree[p].data]
    BY <1>1, <2>1, <2>2, <2>5 DEF Nodes
  <2>9. tree'[side] = [data |-> tree[p].data, size |-> tree[side].size]
    BY <2>6, <2>8
  <2> QED BY <1>1, <2>1, <2>2, <2>4, <2>7, <2>9
<1>3. CASE {Left(p), Right(p)} \cap Nodes = {}
  <2>1. tree' = [q \in Nodes \ {p} |-> tree[q]] /\ doing' = Nothing
    BY <1>3 DEF NodePop
  <2> QED BY <1>1, <1>3, <2>1 DEF Nodes, Child
<1> QED BY <1>2, <1>3

LEMMA NodePushKeeps ==
  ASSUME HeapInv, NodePush
  PROVE  HeapInv'
<1> USE DEF HeapInv
<1>1. PICK p \in Nodes, side \in Places, x, high, low \in Rankables :
        /\ doing = Pushing(p, x) /\ Child(p, side)
        /\ (high = x /\ low = tree[p].data) \/ (high = tree[p].data /\ low = x)
        /\ ~OutRanks(low, high)
        /\ inHeap' = inHeap
        /\ tree'[p] = [data |-> high, size |-> tree[p].size + 1]
        /\ \A q \in Nodes \ {p} : tree'[q] = tree[q]
        /\ \/ /\ side \in Nodes
              /\ Nodes' = Nodes /\ tree' = [q \in Nodes |-> tree'[q]]
              /\ doing' = Pushing(side, low)
           \/ /\ side \notin Nodes
              /\ Nodes' = Nodes \cup {side}
              /\ tree' = [q \in Nodes \cup {side} |-> tree'[q]]
              /\ tree'[side] = [data |-> low, size |-> 1]
              /\ doing' = Nothing
  BY NodePushEffect
<1>2. /\ \A q \in Nodes : q \in Places /\ tree[q].data \in Rankables /\ tree[q].size \in Nat \ {0}
      /\ \A q : SizeAt(q) \in Nat /\ (q \notin Nodes => SizeAt(q) = 0)
                /\ (q \in Nodes => SizeAt(q) = tree[q].size)
  BY HeapTypes
<1>3. tree'[p].data = high /\ tree'[p].size = tree[p].size + 1
  BY <1>1
<1>4. side # p /\ side # Top
  BY <1>1, <1>2, Children
<1>5. \A q \in Nodes : (DoingAt("push", q) <=> Child(q, p)) /\ ~DoingAt("pop", q)
  BY <1>1, Doings DEF DoingAt
<1>6. \A q \in Nodes : q # p => ~Child(q, side)
  BY <1>1, <1>2, Children
<1>7. /\ \A r \in Nodes : Child(r, p) => ~OutRanks(high, tree[r].data)
      /\ ~OutRanks(tree[p].data, high) /\ ~OutRanks(low, high)
  <2>1. \A r \in Nodes : Child(r, p) => ~OutRanks(x, tree[r].data) /\ ~OutRanks(tree[p].data, tree[r].data)
    BY <1>1, <1>5, Doings DEF SortedAround, Sorted
  <2>2. high = x \/ high = tree[p].data
    BY <1>1
  <2>3. ~OutRanks(tree[p].data, high)
    BY <1>1, <1>2, Ranks
  <2> QED BY <1>1, <2>1, <2>2, <2>3
<1>8. /\ \A q, r \in Nodes : tree[q].data = tree[r].data => q = r
      /\ inHeap = Data \cup {x} /\ x \notin Data
  BY <1>1, Doings DEF Complete
<1>9. high # low /\ \A q \in Nodes : q # p => tree[q].data # high /\ tree[q].data # low
  <2>1. \A q \in Nodes : tree[q].data # x
    BY <1>8 DEF Data
  <2> QED BY <1>1, <1>8, <2>1
<1>10. CASE side \in Nodes
  <2>1. /\ Nodes' = Nodes /\ tree' = [q \in Nodes |-> tree'[q]]
        /\ doing' = Pushing(side, low)
    BY <1>1, <1>10
  <2>2. \A q \in Nodes : (DoingAt("push", q)' <=> q = p) /\ ~DoingAt("pop", q)'
    BY <1>1, <1>6, <2>1, Doings DEF DoingAt
  <2>3. \A q \in Nodes : q # p => tree'[q].data = tree[q].data /\ tree'[q].size = tree[q].size
    BY <1>1
  <2>4. \A q : SizeAt(q)' = IF q = p THEN SizeAt(q) + 1 ELSE SizeAt(q)
    BY <1>2, <1>3, <2>1, <2>3 DEF SizeAt
  <2>5. HeapTypeOK'
    <3>1. \A q \in Nodes : tree'[q] \in [data : Rankables, size : Nat \ {0}]
      <4> TAKE q \in Nodes
      <4>1. CASE q = p
        BY <1>1, <1>2, <4>1
      <4>2. CASE q # p
        BY <1>1, <4>2 DEF HeapTypeOK
      <4> QED BY <4>1, <4>2
    <3>2. tree' \in [Nodes' -> [data : Rankables, size : Nat \ {0}]]
      BY <2>1, <3>1
    <3> QED BY <1>1, <1>10, <2>1, <3>2 DEF HeapTypeOK
  <2>6. SizesAdd'
    <3> SUFFICES ASSUME NEW q \in Nodes
                 PROVE  tree'[q].size = 1 + SizeAt(Left(q))' + SizeAt(Right(q))'
                                          + (IF q = p THEN 1 ELSE 0)
      <4>1. \A q \in Nodes : tree'[q].size \in Nat
        BY <1>2, <1>3, <2>3
      <4>2. \A q : SizeAt(q)' \in Nat
        BY <1>2, <2>4
      <4> QED BY <2>1, <2>2, <4>1, <4>2 DEF SizesAdd
    <3>1. tree[q].size = 1 + SizeAt(Left(q)) + SizeAt(Right(q)) + (IF Child(q, p) THEN 1 ELSE 0)
      BY <1>2, <1>5 DEF SizesAdd
    <3>2. SizeAt(Left(q))' = (IF Left(q) = p THEN SizeAt(Left(q)) + 1 ELSE SizeAt(Left(q)))
          /\ SizeAt(Right(q))' = (IF Right(q) = p THEN SizeAt(Right(q)) + 1 ELSE SizeAt(Right(q)))
      BY <2>4
    <3>3. Left(q) # Right(q) /\ (Child(q, p) <=> Left(q) = p \/ Right(q) = p) /\ ~Child(p, p)
      BY <1>2, Children DEF Child
    <3>4. tree'[q].size = IF q = p THEN tree[q].size + 1 ELSE tree[q].size
      BY <1>3, <2>3
    <3> QED BY <1>2, <3>1, <3>2, <3>3, <3>4
  <2>7. Counted'
    <3>1. Cardinality(inHeap) \in Nat /\ Cardinality(inHeap') = Cardinality(inHeap)
      BY <1>1, FS_CardinalityType DEF HeapTypeOK
    <3>2. SizeAt(Top) + (IF p # Top THEN 0 ELSE 1) = Cardinality(inHeap)
      BY <1>1, <1>2, <3>1, Doings DEF Counted
    <3> QED BY <1>1, <1>2, <1>4, <2>1, <2>4, <3>1, <3>2, Doings, Children DEF Counted
  <2>8. Connected'
    BY <2>1 DEF Connected
  <2>9. Sorted'
    <3> SUFFICES ASSUME NEW q \in Nodes, NEW r \in Nodes, Child(q, r)
                 PROVE  ~OutRanks(tree'[r].data, tree'[q].data)
      BY <2>1 DEF Sorted
    <3>1. q # r
      BY <1>2, Children
    <3>2. ~OutRanks(tree[r].data, tree[q].data)
      BY <1>1, Doings DEF Sorted
    <3>3. CASE r = p
      BY <1>3, <1>7, <2>3, <3>1, <3>3
    <3>4. CASE q = p
      BY <1>2, <1>3, <1>7, <2>3, <3>1, <3>2, <3>4, Ranks
    <3> QED BY <2>3, <3>2, <3>3, <3>4
  <2>10. SortedAround'
    BY <1>3, <1>7, <2>1, <2>2, Doings DEF SortedAround
  <2>11. Complete'
    <3>1. \A q, r \in Nodes : tree'[q].data = tree'[r].data => q = r
      BY <1>3, <1>8, <1>9, <2>3
    <3>2. Data' = (Data \ {tree[p].data}) \cup {high}
      BY <1>3, <1>8, <2>1, <2>3 DEF Data
    <3>3. inHeap = Data' \cup {low} /\ low \notin Data'
      <4>1. tree[p].data \in Data /\ (high = tree[p].data \/ high \notin Data)
        BY <1>1, <1>8 DEF Data
      <4>2. \A d \in Data : d # tree[p].data => d # low
        BY <1>9 DEF Data
      <4> QED BY <1>1, <1>8, <1>9, <3>2, <4>1, <4>2
    <3> QED BY <1>1, <2>1, <3>1, <3>3, Doings DEF Complete
  <2> QED BY <2>5, <2>6, <2>7, <2>8, <2>9, <2>10, <2>11
<1>11. CASE side \notin Nodes
  <2>1. /\ Nodes' = Nodes \cup {side} /\ tree' = [q \in Nodes \cup {side} |-> tree'[q]]
        /\ tree'[side].data = low /\ tree'[side].size = 1 /\ doing' = Nothing
        /\ tree'[side] = [data |-> low, size |-> 1]
    BY <1>1, <1>11
  <2>2. \A q \in Nodes' : ~DoingAt("push", q)' /\ ~DoingAt("pop", q)'
    BY <2>1, Doings DEF DoingAt
  <2>3. \A q \in Nodes : q # p => tree'[q].data = tree[q].data /\ tree'[q].size = tree[q].size
    BY <1>1
  <2>4. \A q : SizeAt(q)' = IF q = p THEN SizeAt(q) + 1 ELSE IF q = side THEN 1 ELSE SizeAt(q)
    BY <1>2, <1>3, <1>11, <2>1, <2>3 DEF SizeAt
  <2>5. HeapTypeOK'
    <3>1. \A q \in Nodes' : tree'[q] \in [data : Rankables, size : Nat \ {0}]
      <4> TAKE q \in Nodes'
      <4>1. CASE q = p
        BY <1>1, <1>2, <4>1
      <4>2. CASE q = side
        BY <2>1, <4>2
      <4>3. CASE q # p /\ q # side
        BY <1>1, <2>1, <4>3 DEF HeapTypeOK
      <4> QED BY <4>1, <4>2, <4>3
    <3>2. tree' \in [Nodes' -> [data : Rankables, size : Nat \ {0}]]
      BY <2>1, <3>1
    <3> QED BY <1>1, <2>1, <3>2 DEF HeapTypeOK
  <2>6. \A q \in Nodes : ~Child(side, q)
    BY <1>11, NoChildrenYet
  <2>7. SizesAdd'
    <3> SUFFICES ASSUME NEW q \in Nodes'
                 PROVE  tree'[q].size = 1 + SizeAt(Left(q))' + SizeAt(Right(q))'
      BY <2>2, <2>5, HeapTypes DEF SizesAdd
    <3>1. CASE q = side
      <4>1. Left(side) \notin Nodes' /\ Right(side) \notin Nodes'
        BY <2>1, <2>6, Children DEF Child
      <4> QED BY <2>1, <3>1, <4>1 DEF SizeAt
    <3>2. CASE q # side
      <4>1. q \in Nodes /\ q \in Places
        BY <1>2, <2>1, <3>2
      <4>2. tree[q].size = 1 + SizeAt(Left(q)) + SizeAt(Right(q)) + (IF Child(q, p) THEN 1 ELSE 0)
        BY <1>2, <1>5, <4>1 DEF SizesAdd
      <4>3. /\ SizeAt(Left(q))' = (IF Left(q) = p THEN SizeAt(Left(q)) + 1
                                   ELSE IF Left(q) = side THEN 1 ELSE SizeAt(Left(q)))
            /\ SizeAt(Right(q))' = (IF Right(q) = p THEN SizeAt(Right(q)) + 1
                                    ELSE IF Right(q) = side THEN 1 ELSE SizeAt(Right(q)))
            /\ SizeAt(side) = 0
        BY <1>2, <1>11, <2>4
      <4>4. /\ Left(q) # Right(q) /\ ~Child(p, p)
            /\ Child(q, p) <=> Left(q) = p \/ Right(q) = p
            /\ q = p <=> Left(q) = side \/ Right(q) = side
        BY <1>1, <1>2, <1>6, <4>1, Children DEF Child
      <4>5. tree'[q].size = IF q = p THEN tree[q].size + 1 ELSE tree[q].size
        BY <1>3, <2>3, <4>1
      <4> QED BY <1>2, <1>4, <4>2, <4>3, <4>4, <4>5
    <3> QED BY <3>1, <3>2
  <2>8. Counted'
    <3>1. Cardinality(inHeap) \in Nat /\ Cardinality(inHeap') = Cardinality(inHeap)
      BY <1>1, FS_CardinalityType DEF HeapTypeOK
    <3>2. SizeAt(Top) + (IF p # Top THEN 0 ELSE 1) = Cardinality(inHeap)
      BY <1>1, <1>2, <3>1, Doings DEF Counted
    <3>3. SizeAt(Top)' = IF p = Top THEN SizeAt(Top) + 1 ELSE SizeAt(Top)
      BY <1>1, <1>2, <2>4, Children
    <3> QED BY <1>1, <1>2, <2>1, <3>1, <3>2, <3>3, Doings DEF Counted
  <2>9. Connected'
    BY <1>1, <2>1 DEF Connected
  <2>10. Sorted'
    <3> SUFFICES ASSUME NEW q \in Nodes', NEW r \in Nodes', Child(q, r)
                 PROVE  ~OutRanks(tree'[r].data, tree'[q].data)
      BY DEF Sorted
    <3>1. q # r /\ q # side
      BY <1>1, <1>2, <2>1, <2>6, Children
    <3>2. CASE r = side
      BY <1>3, <1>6, <1>7, <2>1, <3>1, <3>2
    <3>3. CASE r # side
      <4>1. ~OutRanks(tree[r].data, tree[q].data)
        BY <1>1, <2>1, <3>1, <3>3, Doings DEF Sorted
      <4>2. CASE r = p
        BY <1>3, <1>7, <2>1, <2>3, <3>1, <4>2
      <4>3. CASE q = p
        BY <1>2, <1>3, <1>7, <2>1, <2>3, <3>1, <3>3, <4>1, <4>3, Ranks
      <4> QED BY <2>1, <2>3, <3>1, <3>3, <4>1, <4>2, <4>3
    <3> QED BY <3>2, <3>3
  <2>11. SortedAround'
    BY <2>2 DEF SortedAround
  <2>12. Complete'
    <3>1. \A q, r \in Nodes' : tree'[q].data = tree'[r].data => q = r
      BY <1>3, <1>8, <1>9, <2>1, <2>3
    <3>2. Data' = (Data \ {tree[p].data}) \cup {high, low}
      BY <1>3, <1>8, <2>1, <2>3 DEF Data
    <3>3. inHeap = Data'
      <4>1. tree[p].data \in Data
        BY DEF Data
      <4> QED BY <1>1, <1>8, <3>2, <4>1
    <3> QED BY <1>1, <2>1, <3>1, <3>3, Doings DEF Complete
  <2> QED BY <2>5, <2>7, <2>8, <2>9, <2>10, <2>11, <2>12
<1> QED BY <1>1, <1>10, <1>11

LEMMA NodePopKeeps ==
  ASSUME HeapInv, NodePop
  PROVE  HeapInv'
<1> USE DEF HeapInv
<1>1. PICK p \in Nodes :
        /\ doing = Popping(p) /\ inHeap' = inHeap
        /\ \/ \E side \in Nodes :
                /\ Child(p, side)
                /\ \A q \in Nodes : Child(p, q) => ~OutRanks(tree[q].data, tree[side].data)
                /\ Nodes' = Nodes /\ tree' = [q \in Nodes |-> tree'[q]]
                /\ tree'[p] = [data |-> tree[side].data, size |-> tree[p].size - 1]
                /\ tree'[side] = [data |-> tree[p].data, size |-> tree[side].size]
                /\ \A q \in Nodes \ {p, side} : tree'[q] = tree[q]
                /\ doing' = Popping(side)
           \/ /\ \A q \in Nodes : ~Child(p, q)
              /\ Nodes' = Nodes \ {p} /\ tree' = [q \in Nodes \ {p} |-> tree[q]]
              /\ doing' = Nothing
  BY NodePopEffect
<1>2. /\ \A q \in Nodes : q \in Places /\ tree[q].data \in Rankables /\ tree[q].size \in Nat \ {0}
      /\ \A q : SizeAt(q) \in Nat /\ (q \notin Nodes => SizeAt(q) = 0)
                /\ (q \in Nodes => SizeAt(q) = tree[q].size)
  BY HeapTypes
<1>3. \A q \in Nodes : (DoingAt("pop", q) <=> Child(q, p)) /\ ~DoingAt("push", q)
  BY <1>1, Doings DEF DoingAt
<1>4. \A q \in Nodes : tree[q].size + (IF Child(q, p) THEN 1 ELSE 0)
                         = 1 + SizeAt(Left(q)) + SizeAt(Right(q))
  BY <1>2, <1>3 DEF SizesAdd
<1>5. \A q \in Nodes : /\ Left(q) # Right(q) /\ ~Child(q, q)
                       /\ \A r : Child(q, r) <=> Left(q) = r \/ Right(q) = r
  BY <1>2, Children DEF Child
<1>6. /\ IsFiniteSet(inHeap) /\ inHeap \subseteq Rankables /\ Cardinality(inHeap) \in Nat
      /\ SizeAt(Top) = Cardinality(inHeap) + (IF p = Top THEN 1 ELSE 0)
  <2>1. IsFiniteSet(inHeap) /\ inHeap \subseteq Rankables /\ Cardinality(inHeap) \in Nat
    BY FS_CardinalityType DEF HeapTypeOK
  <2>2. Popping(p) = Popping(Top) <=> p = Top
    BY Doings
  <2> QED BY <1>1, <1>2, <2>1, <2>2, Doings DEF Counted
<1>7. \A q, r \in Nodes : Child(q, r) /\ p \notin {q, r} => ~OutRanks(tree[r].data, tree[q].data)
  BY <1>1, Doings DEF Sorted
<1>8. \A q, r \in Nodes : Child(q, p) /\ Child(p, r) => ~OutRanks(tree[r].data, tree[q].data)
  BY <1>1, <1>3, Doings DEF SortedAround
<1>9. /\ \A q, r \in Nodes : tree[q].data = tree[r].data => q = r
      /\ inHeap = Data \ {tree[p].data}
  BY <1>1, Doings DEF Complete
<1>10. CASE \E side \in Nodes :
                /\ Child(p, side)
                /\ \A q \in Nodes : Child(p, q) => ~OutRanks(tree[q].data, tree[side].data)
                /\ Nodes' = Nodes /\ tree' = [q \in Nodes |-> tree'[q]]
                /\ tree'[p] = [data |-> tree[side].data, size |-> tree[p].size - 1]
                /\ tree'[side] = [data |-> tree[p].data, size |-> tree[side].size]
                /\ \A q \in Nodes \ {p, side} : tree'[q] = tree[q]
                /\ doing' = Popping(side)
  <2>1. PICK side \in Nodes :
          /\ Child(p, side)
          /\ \A q \in Nodes : Child(p, q) => ~OutRanks(tree[q].data, tree[side].data)
          /\ Nodes' = Nodes /\ tree' = [q \in Nodes |-> tree'[q]]
          /\ tree'[p] = [data |-> tree[side].data, size |-> tree[p].size - 1]
          /\ tree'[side] = [data |-> tree[p].data, size |-> tree[side].size]
          /\ \A q \in Nodes \ {p, side} : tree'[q] = tree[q]
          /\ doing' = Popping(side)
    BY <1>10
  <2>2. side # p /\ side # Top /\ \A q \in Nodes : Child(q, side) <=> q = p
    BY <1>2, <1>5, <2>1, Children
  <2>3. /\ tree'[p].data = tree[side].data /\ tree'[p].size = tree[p].size - 1
        /\ tree'[side].data = tree[p].data
        /\ \A q \in Nodes : q \notin {p, side} => tree'[q].data = tree[q].data
        /\ \A q \in Nodes : q # p => tree'[q].size = tree[q].size
    BY <2>1
  <2>4. tree[p].size - 1 \in Nat \ {0}
    <3>1. SizeAt(Left(p)) > 0 \/ SizeAt(Right(p)) > 0
      BY <1>2, <1>5, <2>1
    <3>2. tree[p].size = 1 + SizeAt(Left(p)) + SizeAt(Right(p))
      BY <1>2, <1>4, <1>5
    <3> QED BY <1>2, <3>1, <3>2
  <2>5. \A q : SizeAt(q)' = IF q = p THEN SizeAt(q) - 1 ELSE SizeAt(q)
    BY <1>2, <2>1, <2>3 DEF SizeAt
  <2>6. \A q \in Nodes : (DoingAt("pop", q)' <=> q = p) /\ ~DoingAt("push", q)'
    BY <2>1, <2>2, Doings DEF DoingAt
  <2>7. HeapTypeOK'
    <3>1. \A q \in Nodes : tree'[q] \in [data : Rankables, size : Nat \ {0}]
      <4> TAKE q \in Nodes
      <4>1. CASE q = p
        BY <1>2, <2>1, <2>4, <4>1
      <4>2. CASE q = side
        BY <1>2, <2>1, <4>2
      <4>3. CASE q \notin {p, side}
        BY <2>1, <4>3 DEF HeapTypeOK
      <4> QED BY <4>1, <4>2, <4>3
    <3>2. tree' \in [Nodes' -> [data : Rankables, size : Nat \ {0}]]
      BY <2>1, <3>1
    <3> QED BY <1>1, <1>6, <2>1, <3>2 DEF HeapTypeOK
  <2>8. SizesAdd'
    <3> SUFFICES ASSUME NEW q \in Nodes
                 PROVE  tree'[q].size + (IF q = p THEN 1 ELSE 0)
                          = 1 + SizeAt(Left(q))' + SizeAt(Right(q))'
      <4>1. \A q \in Nodes : tree'[q].size \in Nat
        BY <1>2, <2>3, <2>4
      <4>2. \A q : SizeAt(q)' \in Nat
        BY <1>2, <2>4, <2>5
      <4> QED BY <2>1, <2>6, <4>1, <4>2 DEF SizesAdd
    <3>1. /\ SizeAt(Left(q))' = (IF Left(q) = p THEN SizeAt(Left(q)) - 1 ELSE SizeAt(Left(q)))
          /\ SizeAt(Right(q))' = (IF Right(q) = p THEN SizeAt(Right(q)) - 1 ELSE SizeAt(Right(q)))
          /\ tree'[q].size = IF q = p THEN tree[q].size - 1 ELSE tree[q].size
      BY <2>3, <2>5
    <3>2. tree[q].size + (IF Left(q) = p \/ Right(q) = p THEN 1 ELSE 0)
            = 1 + SizeAt(Left(q)) + SizeAt(Right(q))
      BY <1>4, <1>5
    <3>3. /\ tree[q].size \in Nat /\ SizeAt(Left(q)) \in Nat /\ SizeAt(Right(q)) \in Nat
          /\ Left(q) # Right(q) /\ (q = p => Left(q) # p /\ Right(q) # p)
      BY <1>2, <1>5
    <3> QED BY <3>1, <3>2, <3>3
  <2>9. Counted'
    <3>1. SizeAt(Top)' = Cardinality(inHeap) /\ Cardinality(inHeap') = Cardinality(inHeap)
      BY <1>1, <1>6, <2>5
    <3>2. Popping(side) # Popping(Top)
      BY <2>2, Doings
    <3> QED BY <1>6, <2>1, <3>1, <3>2, Doings DEF Counted
  <2>10. Connected'
    BY <2>1 DEF Connected
  <2>11. Sorted'
    <3> SUFFICES ASSUME NEW q \in Nodes, NEW r \in Nodes, Child(q, r), side \notin {q, r}
                 PROVE  ~OutRanks(tree'[r].data, tree'[q].data)
      BY <2>1, Doings DEF Sorted
    <3>1. CASE r = p
      BY <1>5, <1>8, <2>1, <2>3, <3>1
    <3>2. CASE q = p
      BY <1>5, <2>1, <2>3, <3>2
    <3> QED BY <1>7, <2>3, <3>1, <3>2
  <2>12. SortedAround'
    <3>1. \A r \in Nodes : Child(side, r) => ~OutRanks(tree'[r].data, tree'[p].data)
      <4> TAKE r \in Nodes
      <4> HAVE Child(side, r)
      <4>1. r # side /\ r # p
        BY <1>2, <2>1, Children
      <4> QED BY <1>7, <2>2, <2>3, <4>1
    <3> QED BY <2>1, <2>6, <3>1, Doings DEF SortedAround
  <2>13. Complete'
    <3>1. \A q, r \in Nodes : tree'[q].data = tree'[r].data => q = r
      BY <1>9, <2>2, <2>3
    <3>2. Data' = Data
      BY <2>1, <2>2, <2>3 DEF Data
    <3> QED BY <1>1, <1>9, <2>1, <2>3, <3>1, <3>2, Doings DEF Complete
  <2> QED BY <2>7, <2>8, <2>9, <2>10, <2>11, <2>12, <2>13
<1>11. CASE /\ \A q \in Nodes : ~Child(p, q)
            /\ Nodes' = Nodes \ {p} /\ tree' = [q \in Nodes \ {p} |-> tree[q]]
            /\ doing' = Nothing
  <2>1. \A q \in Nodes' : tree'[q] = tree[q] /\ q \in Nodes /\ q # p
    BY <1>11
  <2>2. \A q \in Nodes' : ~DoingAt("push", q)' /\ ~DoingAt("pop", q)'
    BY <1>11, Doings DEF DoingAt
  <2>3. tree[p].size = 1
    <3>1. SizeAt(Left(p)) = 0 /\ SizeAt(Right(p)) = 0
      BY <1>2, <1>5, <1>11
    <3> QED BY <1>2, <1>4, <1>5, <3>1
  <2>4. \A q : SizeAt(q)' = IF q = p THEN 0 ELSE SizeAt(q)
    BY <1>2, <1>11, <2>1 DEF SizeAt
  <2>5. HeapTypeOK'
    <3>1. tree' \in [Nodes' -> [data : Rankables, size : Nat \ {0}]]
      BY <1>11, <2>1 DEF HeapTypeOK
    <3> QED BY <1>1, <1>6, <1>11, <3>1 DEF HeapTypeOK
  <2>6. SizesAdd'
    <3> SUFFICES ASSUME NEW q \in Nodes'
                 PROVE  tree'[q].size = 1 + SizeAt(Left(q))' + SizeAt(Right(q))'
      BY <1>2, <2>1, <2>2, <2>4 DEF SizesAdd
    <3>1. q \in Nodes /\ tree'[q].size = tree[q].size
      BY <2>1
    <3>2. /\ SizeAt(Left(q))' = (IF Left(q) = p THEN SizeAt(Left(q)) - 1 ELSE SizeAt(Left(q)))
          /\ SizeAt(Right(q))' = (IF Right(q) = p THEN SizeAt(Right(q)) - 1 ELSE SizeAt(Right(q)))
      BY <1>2, <2>3, <2>4
    <3>3. tree[q].size + (IF Left(q) = p \/ Right(q) = p THEN 1 ELSE 0)
            = 1 + SizeAt(Left(q)) + SizeAt(Right(q))
      BY <1>4, <1>5, <3>1
    <3>4. /\ tree[q].size \in Nat /\ SizeAt(Left(q)) \in Nat /\ SizeAt(Right(q)) \in Nat
          /\ Left(q) # Right(q) /\ (q = p => Left(q) # p /\ Right(q) # p)
      BY <1>2, <1>5, <3>1
    <3> QED BY <3>1, <3>2, <3>3, <3>4
  <2>7. Counted'
    <3>1. SizeAt(Top)' = Cardinality(inHeap) /\ Cardinality(inHeap') = Cardinality(inHeap)
      <4>1. CASE p = Top
        BY <1>1, <1>2, <1>6, <2>3, <2>4, <4>1
      <4>2. CASE p # Top
        BY <1>1, <1>6, <2>4, <4>2
      <4> QED BY <4>1, <4>2
    <3> QED BY <1>6, <1>11, <3>1, Doings DEF Counted
  <2>8. Connected'
    BY <1>11 DEF Connected
  <2>9. Sorted' /\ SortedAround'
    BY <1>7, <2>1, <2>2 DEF Sorted, SortedAround
  <2>10. Complete'
    <3>1. \A q, r \in Nodes' : tree'[q].data = tree'[r].data => q = r
      BY <1>9, <2>1
    <3>2. Data' = Data \ {tree[p].data}
      BY <1>9, <1>11, <2>1 DEF Data
    <3> QED BY <1>1, <1>9, <1>11, <3>1, <3>2, Doings DEF Complete
  <2> QED BY <2>5, <2>6, <2>7, <2>8, <2>9, <2>10
<1> QED BY <1>1, <1>10, <1>11

-----------------------------------------------------------------------------
(* The heap keeps its types and, as no object outranks one above it, has   *)
(* one of the highest rank on top; its sizes count its nodes, and it holds *)
(* what was pushed and neither popped nor removed.                         *)

LEMMA HeapInvHolds == HeapSpec => []HeapInv
<1>1. HeapInv /\ [HeapNext]_heapVars => HeapInv'
  <2> SUFFICES ASSUME HeapInv, [HeapNext]_heapVars
               PROVE  HeapInv'
    OBVIOUS
  <2>1. CASE HeapNext
    BY <2>1, HeapPushKeeps, HeapRemoveKeeps, HeapPopKeeps, NodePushKeeps, NodePopKeeps
       DEF HeapNext
  <2>2. CASE UNCHANGED heapVars
    BY <2>2 DEF heapVars, HeapInv, HeapTypeOK, SizesAdd, Counted, Connected, Sorted,
                SortedAround, Complete, Nodes, SizeAt, DoingAt, Data
  <2> QED BY <2>1, <2>2
<1> QED BY <1>1, HeapInitInv, PTL DEF HeapSpec

(* Every variable of a heap has its type, also within operations. *)
THEOREM HeapTypeCorrect == HeapSpec => []HeapTypeOK
<1>1. HeapInv => HeapTypeOK
  BY DEF HeapInv
<1> QED BY <1>1, HeapInvHolds, PTL

(* Between operations, the tree passes its own check and stands for the set *)
(* of the objects in it, with one that nothing outranks on top.            *)
THEOREM HeapStaysSound == HeapSpec => []HeapIsSound
BY HeapInvHolds, HeapInvImplies, PTL

-----------------------------------------------------------------------------
(* The composition of the services.                                        *)

(* Every behaviour of the composition is one of each service: a service    *)
(* begins as its specification says, and each step is one of its own or    *)
(* leaves its variables as they are.  What is proved of a service is       *)
(* therefore true of the composition.                                      *)
THEOREM PartsAsSpecified ==
  ServicesSpec => /\ ObserverSpec /\ NiSpec /\ TaskSpec
                  /\ ClientSpec /\ HeapSpec /\ OdcpiSpec
<1>1. ServicesInit => /\ ObserverInit /\ NiInit /\ TaskInit
                      /\ ClientInit /\ HeapInit /\ OdcpiInit
  BY DEF ServicesInit
<1>2. [ServicesNext]_partVars =>
        /\ [ObserverNext]_observerVars /\ [NiNext]_niVars /\ [TaskNext]_taskVars
        /\ [ClientNext]_clientVars /\ [HeapNext]_heapVars /\ [OdcpiNext]_odcpiVars
  BY DEF ServicesNext, partVars, servicesVars, Service, Observer, Ni, Task, Client, Heap, OnDemand
<1> QED BY <1>1, <1>2, PTL
       DEF ServicesSpec, ObserverSpec, NiSpec, TaskSpec, ClientSpec, HeapSpec, OdcpiSpec

(* The variables of all services have the values their code gives them.    *)
THEOREM PartsTypeCorrect == ServicesSpec => []PartsTypeOK
<1>1. ObserverSpec => []ObserverTypeOK
  BY ObserverTypeCorrect
<1>2. NiSpec => []NiTypeOK
  BY NiTypeCorrect
<1>3. ClientSpec => []ClientTypeOK
  BY ClientTypeCorrect
<1> QED BY <1>1, <1>2, <1>3, PartsAsSpecified, TaskTypeCorrect, HeapTypeCorrect, OdcpiRepeats, PTL
        DEF PartsTypeOK

(* The safety properties of all services hold of the composition: the maps *)
(* of the observer mirror each other and are followed; a network request   *)
(* has one owner and is answered as its user said; messages are handled in *)
(* order by a delegate that lives; until a queue of the client is out of   *)
(* step, responses find their requests and sessions that run are known;    *)
(* the heap holds what was put in it, the highest on top; and positions on *)
(* demand are asked for again.  The task is the queue its senders take it  *)
(* for.                                                                    *)
THEOREM ServicesAreSafe ==
  ServicesSpec => /\ ImplementsTaskQueue
                  /\ [](/\ MapsMirror /\ FrameworkFollows /\ SubscribersKnow
                        /\ OneOwner /\ AnswersAreOwn
                        /\ HandledInOrder /\ DelegateLives
                        /\ ResponsesMatch /\ SessionsFollow
                        /\ HeapIsSound /\ OdcpiIsRepeated)
<1>1. ObserverSpec => [](MapsMirror /\ FrameworkFollows /\ SubscribersKnow)
  <2>1. ObserverSpec => []MapsMirror
    BY MapsAreMirrored
  <2>2. ObserverSpec => []FrameworkFollows
    BY FrameworkIsSubscribed
  <2>3. ObserverSpec => []SubscribersKnow
    BY SubscribersAreTold
  <2> QED BY <2>1, <2>2, <2>3, PTL
<1>2. NiSpec => [](OneOwner /\ AnswersAreOwn)
  <2>1. NiSpec => []OneOwner
    BY RequestsHaveOneOwner
  <2>2. NiSpec => []AnswersAreOwn
    BY AnswersAreTheUsers
  <2> QED BY <2>1, <2>2, PTL
<1>3. ClientSpec => [](ResponsesMatch /\ SessionsFollow)
  <2>1. ClientSpec => []ResponsesMatch
    BY ResponsesAreMatched
  <2>2. ClientSpec => []SessionsFollow
    BY SessionsAreFollowed
  <2> QED BY <2>1, <2>2, PTL
<1> QED BY <1>1, <1>2, <1>3, PartsAsSpecified, TaskImplementsQueue, OrderIsKept,
           DelegateIsDeletedLast, HeapStaysSound, OdcpiRepeats, PTL
=============================================================================
