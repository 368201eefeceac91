--------------------------- MODULE LocTimerProofs ---------------------------
(***************************************************************************)
(* Proofs about LocTimer, for any timers, delays and numbers of starts:    *)
(* the variables keep their types, a delegate and its LocTimer point at    *)
(* each other, each start ends once, the soonest timer is armed, and no    *)
(* deleted delegate is used.                                               *)
(*                                                                         *)
(* Two of them need more than themselves.  Where the soonest timer is      *)
(* armed, it is so because every expire message ends in an update of the   *)
(* fd: ArmedOrDue follows that update while its system calls are still     *)
(* ahead.  That a delegate is deleted once rests on the queue: its push    *)
(* comes before its remove, and each comes once (InOrder).                 *)
(***************************************************************************)
EXTENDS LocTimer, TLAPS

USE DEF clientVars, delegateVars, fdVars, msgVars, NoDelegate, Disarmed

(* While the MsgTask is between stop and the callback, the start it has    *)
(* stopped runs no more.                                                   *)
CallInProgress ==
  /\ stopped # NoDelegate <=> mpc = "call"
  /\ mpc \in {"stop", "call"} => caller \in Timers
  /\ stopped # NoDelegate => \A t \in Timers : cur[t] # stopped

(* What is queued to be pushed or removed has been created.                *)
QueuedAreCreated ==
  \A i \in 1 .. Len(queue) : queue[i].timer <= created

Inv ==
  /\ TypeOK
  /\ ClientMirrorsTimer
  /\ OneOutcome
  /\ CallInProgress

-----------------------------------------------------------------------------
(* Types, and the two ends of a delegate.                                  *)

(* Each delegate's message is one.                                         *)
LEMMA MessageFacts ==
  /\ \A d \in Delegates : Push(d) \in Messages /\ Remove(d) \in Messages
  /\ Expire \in Messages
  /\ \A m \in Messages :
       m.kind \in {"push", "remove"} => m.timer \in Delegates
BY DEF Messages, Push, Remove, Expire

(* The initial states satisfy the invariant.                               *)
LEMMA InitInv == Init => Inv
<1> SUFFICES ASSUME Init
             PROVE  Inv
  OBVIOUS
<1>1. TypeOK
  <2>1. queue \in Seq(Messages)
    BY DEF Init
  <2>2. /\ created \in 0 .. MaxStarts /\ now \in 1 .. MaxTime
        /\ fd \in 0 .. MaxTime /\ limit \in 0 .. MaxTime
        /\ due \in [Delegates -> 0 .. MaxTime]
        /\ cur \in [Timers -> 0 .. created]
        /\ deleted \in SUBSET (1 .. created) /\ heap \in SUBSET (1 .. created)
        /\ firing \in 0 .. created /\ stopped \in 0 .. created
    BY BoundsAssumption DEF Init
  <2>3. client \in [Delegates -> Timers \cup {NoTimer}]
        /\ alive \in [Timers -> BOOLEAN] /\ outcomes \in [Delegates -> Nat]
    BY DEF Init
  <2>4. QED
    BY <2>1, <2>2, <2>3 DEF Init, TypeOK
<1>2. ClientMirrorsTimer
  BY DEF Init, ClientMirrorsTimer
<1>3. OneOutcome
  BY BoundsAssumption DEF Init, OneOutcome, Delegates
<1>4. CallInProgress
  BY DEF Init, CallInProgress
<1>5. QED
  BY <1>1, <1>2, <1>3, <1>4 DEF Inv

(* Ending the start of a timer that runs.                                  *)
LEMMA StopRunningFacts ==
  ASSUME Inv, NEW t \in Timers, cur[t] # NoDelegate, StopRunning(t),
         UNCHANGED created
  PROVE  /\ cur[t] \in Delegates /\ cur[t] <= created
         /\ outcomes[cur[t]] = 0
         /\ cur' \in [Timers -> 0 .. created]
         /\ client' \in [Delegates -> Timers \cup {NoTimer}]
         /\ queue' \in Seq(Messages)
         /\ ClientMirrorsTimer'
         /\ cur'[t] = NoDelegate
         /\ \A u \in Timers : u # t => cur'[u] = cur[u] /\ cur[u] # cur[t]
<1>1. cur[t] \in Delegates /\ cur[t] <= created
  BY BoundsAssumption DEF Inv, TypeOK, Delegates
<1>2. outcomes[cur[t]] = 0
  BY <1>1 DEF Inv, OneOutcome
<1>3. queue' \in Seq(Messages)
  BY <1>1, MessageFacts DEF Inv, TypeOK, StopRunning
<1>4. /\ cur' \in [Timers -> 0 .. created]
      /\ client' \in [Delegates -> Timers \cup {NoTimer}]
  BY <1>1 DEF Inv, TypeOK, StopRunning
<1>5. ClientMirrorsTimer'
  BY <1>1, NoTimerAssumption
     DEF Inv, TypeOK, ClientMirrorsTimer, StopRunning
<1>6. /\ cur'[t] = NoDelegate
      /\ \A u \in Timers : u # t => cur'[u] = cur[u] /\ cur[u] # cur[t]
  BY <1>1 DEF Inv, TypeOK, ClientMirrorsTimer, StopRunning
<1>7. QED
  BY <1>1, <1>2, <1>3, <1>4, <1>5, <1>6

(* A pop is well-typed, and its reader knows who to call.                  *)
LEMMA PopFacts ==
  ASSUME Inv, NEW d \in Soonest(heap), PopAndRead(d)
  PROVE  /\ heap' \in SUBSET (1 .. created)
         /\ firing' \in 0 .. created
         /\ caller' \in Timers \cup {NoTimer}
         /\ mpc' \in {"stop", "next"}
         /\ mpc' = "stop" => caller' \in Timers
<1>1. d \in heap /\ d \in 1 .. created /\ d \in Delegates
  BY BoundsAssumption DEF Soonest, Inv, TypeOK, Delegates
<1>2. client[d] \in Timers \cup {NoTimer}
  BY <1>1 DEF Inv, TypeOK
<1>3. QED
  BY <1>1, <1>2 DEF PopAndRead, Inv, TypeOK

(* An update of the fd is well-typed.                                      *)
LEMMA UpdateFacts ==
  ASSUME Inv, NEW h \in SUBSET Delegates, UpdateSoonest(h)
  PROVE  /\ polled' \in BOOLEAN
         /\ limit' \in 0 .. MaxTime
         /\ mpc' \in {"idle", "arm"}
BY DEF Inv, TypeOK, UpdateSoonest, Soonest

(* Starting a timer.                                                       *)
LEMMA StartPreserves ==
  ASSUME Inv, NEW t \in Timers, NEW delay \in Delays, Start(t, delay)
  PROVE  Inv'
<1>1. /\ created' = created + 1 /\ created \in Nat /\ created' \in Delegates
      /\ now + delay \in 0 .. MaxTime
  BY BoundsAssumption, DelaysAssumption DEF Inv, TypeOK, Start, Delegates
<1>2. TypeOK'
  <2>1. queue' \in Seq(Messages)
    BY <1>1, MessageFacts DEF Inv, TypeOK, Start
  <2>2. /\ cur' \in [Timers -> 0 .. created']
        /\ client' \in [Delegates -> Timers \cup {NoTimer}]
        /\ due' \in [Delegates -> 0 .. MaxTime]
    BY <1>1 DEF Inv, TypeOK, Start
  <2>3. /\ created' \in 0 .. MaxStarts
        /\ deleted' \in SUBSET (1 .. created') /\ heap' \in SUBSET (1 .. created')
        /\ firing' \in 0 .. created' /\ stopped' \in 0 .. created'
    BY <1>1 DEF Inv, TypeOK, Start, Delegates
  <2>4. QED
    BY <2>1, <2>2, <2>3 DEF Inv, TypeOK, Start
<1>3. /\ \A u \in Timers : cur[u] <= created /\ cur[u] \in Nat
      /\ stopped <= created /\ stopped \in Nat
      /\ \A d \in Delegates : d \in Nat
  BY BoundsAssumption DEF Inv, TypeOK, Delegates
<1>4. ClientMirrorsTimer'
  <2>1. /\ client' = [client EXCEPT ![created'] = t]
        /\ cur' = [cur EXCEPT ![t] = created']
        /\ cur[t] = NoDelegate
    BY DEF Start
  <2>2. /\ client \in [Delegates -> Timers \cup {NoTimer}]
        /\ cur \in [Timers -> 0 .. created]
    BY DEF Inv, TypeOK
  <2>3. ASSUME NEW d \in Delegates, client'[d] # NoTimer
        PROVE  cur'[client'[d]] = d
    <3>1. CASE d = created'
      BY <1>1, <2>1, <2>2, <3>1
    <3>2. CASE d # created'
      <4>1. client'[d] = client[d] /\ cur[client[d]] = d /\ client[d] \in Timers
        BY <2>1, <2>2, <2>3, <3>2 DEF Inv, ClientMirrorsTimer
      <4>2. client[d] # t
        BY <2>1, <4>1, <1>3 DEF Delegates
      <4>3. QED
        BY <2>1, <2>2, <4>1, <4>2
    <3>3. QED
      BY <3>1, <3>2
  <2>4. ASSUME NEW u \in Timers, cur'[u] # NoDelegate
        PROVE  client'[cur'[u]] = u
    <3>1. CASE u = t
      BY <1>1, <2>1, <2>2, <3>1
    <3>2. CASE u # t
      <4>1. cur'[u] = cur[u] /\ client[cur[u]] = u
        BY <2>1, <2>2, <2>4, <3>2 DEF Inv, ClientMirrorsTimer
      <4>2. cur[u] # created' /\ cur[u] \in Delegates
        BY <1>1, <1>3, <2>4, <4>1, BoundsAssumption DEF Delegates
      <4>3. QED
        BY <2>1, <2>2, <4>1, <4>2
    <3>3. QED
      BY <3>1, <3>2
  <2>5. QED
    BY <2>3, <2>4 DEF ClientMirrorsTimer
<1>5. OneOutcome'
  <2>1. UNCHANGED <<outcomes, stopped>> /\ cur' = [cur EXCEPT ![t] = created']
        /\ cur[t] = NoDelegate /\ cur \in [Timers -> 0 .. created]
    BY DEF Start, Inv, TypeOK
  <2>2. ASSUME NEW d \in Delegates
        PROVE  outcomes[d] = IF \/ d > created' \/ stopped = d
                                \/ \E u \in Timers : cur'[u] = d
                             THEN 0 ELSE 1
    <3>1. outcomes[d] = IF \/ d > created \/ stopped = d
                           \/ \E u \in Timers : cur[u] = d
                        THEN 0 ELSE 1
      BY DEF Inv, OneOutcome
    <3>2. CASE d = created'
      BY <1>1, <1>3, <2>1, <3>1, <3>2
    <3>3. CASE d # created'
      <4>1. d > created <=> d > created'
        BY <1>1, <1>3, <3>3
      <4>2. (\E u \in Timers : cur[u] = d) <=> (\E u \in Timers : cur'[u] = d)
        <5>1. d # 0
          BY DEF Delegates
        <5>2. QED
          BY <2>1, <3>3, <5>1
      <4>3. QED
        BY <3>1, <4>1, <4>2
    <3>4. QED
      BY <3>2, <3>3
  <2>3. QED
    BY <2>1, <2>2 DEF OneOutcome
<1>6. CallInProgress'
  BY <1>1, <1>3 DEF Inv, TypeOK, CallInProgress, Start
<1>7. QED
  BY <1>2, <1>4, <1>5, <1>6 DEF Inv

(* A client stops its timer.                                               *)
LEMMA StopPreserves ==
  ASSUME Inv, NEW t \in Timers, Stop(t)
  PROVE  Inv'
<1>1. cur[t] # NoDelegate /\ StopRunning(t) /\ UNCHANGED created
  BY DEF Stop
<1>2. TypeOK'
  <2>1. outcomes' \in [Delegates -> Nat]
    BY <1>1, StopRunningFacts DEF Inv, TypeOK, Stop
  <2>2. QED
    BY <1>1, <2>1, StopRunningFacts DEF Inv, TypeOK, Stop
<1>3. OneOutcome'
  <2>1. ASSUME NEW d \in Delegates
        PROVE  outcomes'[d] = IF \/ d > created \/ stopped = d
                                 \/ \E u \in Timers : cur'[u] = d
                              THEN 0 ELSE 1
    <3>1. outcomes[d] = IF \/ d > created \/ stopped = d
                           \/ \E u \in Timers : cur[u] = d
                        THEN 0 ELSE 1
      BY DEF Inv, OneOutcome
    <3>2. CASE d = cur[t]
      <4>1. outcomes'[d] = 1
        BY <1>1, <3>2, StopRunningFacts DEF Stop, Inv, TypeOK
      <4>2. ~(d > created) /\ stopped # d
        BY <1>1, <3>2, StopRunningFacts DEF Inv, TypeOK, CallInProgress, Delegates
      <4>3. \A u \in Timers : cur'[u] # d
        BY <1>1, <3>2, StopRunningFacts DEF Delegates
      <4>4. QED
        BY <4>1, <4>2, <4>3
    <3>3. CASE d # cur[t]
      <4>1. d # NoDelegate
        BY DEF Delegates
      <4>2. (\E u \in Timers : cur[u] = d) <=> (\E u \in Timers : cur'[u] = d)
        BY <1>1, <3>3, <4>1, StopRunningFacts
      <4>3. outcomes'[d] = outcomes[d]
        BY <3>3 DEF Stop, Inv, TypeOK
      <4>4. QED
        BY <3>1, <4>2, <4>3
    <3>4. QED
      BY <3>2, <3>3
  <2>2. UNCHANGED <<created, stopped>>
    BY DEF Stop
  <2>3. QED
    BY <2>1, <2>2 DEF OneOutcome
<1>4. CallInProgress'
  <2>1. UNCHANGED <<stopped, mpc, caller>>
    BY DEF Stop
  <2>2. ASSUME stopped # NoDelegate, NEW u \in Timers
        PROVE  cur'[u] # stopped
    <3>1. CASE u = t
      BY <1>1, <2>2, <3>1, StopRunningFacts
    <3>2. CASE u # t
      BY <1>1, <2>2, <3>2, StopRunningFacts DEF Inv, CallInProgress
    <3>3. QED
      BY <3>1, <3>2
  <2>3. QED
    BY <2>1, <2>2 DEF Inv, CallInProgress
<1>5. QED
  BY <1>1, <1>2, <1>3, <1>4, StopRunningFacts DEF Inv, Stop

-----------------------------------------------------------------------------
(* The MsgTask's steps.                                                    *)

(* Taking a message leaves a well-typed queue.                             *)
LEMMA TakesFacts ==
  ASSUME Inv, NEW kind, Takes(kind)
  PROVE  /\ queue' \in Seq(Messages)
         /\ Head(queue) \in Messages
         /\ mpc = "idle"
BY DEF Inv, TypeOK, Takes

(* A step that leaves the timers, the clients and the history of the       *)
(* callbacks alone needs only keep the types.                              *)
LEMMA ServiceStepPreserves ==
  ASSUME Inv, TypeOK',
         UNCHANGED <<clientVars, created, client, stopped, outcomes>>,
         mpc # "call" /\ mpc' # "call",
         mpc' = "stop" => caller' \in Timers
  PROVE  Inv'
BY DEF Inv, ClientMirrorsTimer, OneOutcome, CallInProgress

(* A push.                                                                 *)
LEMMA PushPreserves ==
  ASSUME Inv, QueuedAreCreated, MsgPush
  PROVE  Inv'
<1> DEFINE d == Head(queue).timer
<1>1. d \in Delegates /\ d \in 1 .. created
  <2>1. Takes("push") /\ queue # <<>> /\ queue \in Seq(Messages)
    BY DEF MsgPush, Takes, Inv, TypeOK
  <2>2. Head(queue) = queue[1] /\ 1 \in 1 .. Len(queue)
    BY <2>1
  <2>3. d \in Delegates
    BY <2>1, TakesFacts, MessageFacts DEF Takes
  <2>4. QED
    BY <2>2, <2>3, BoundsAssumption DEF QueuedAreCreated, Delegates, Inv, TypeOK
<1>2. /\ polled' \in BOOLEAN /\ limit' \in 0 .. MaxTime
      /\ mpc' \in {"idle", "arm"}
  <2>1. UpdateSoonest({d}) \/ (UNCHANGED <<mpc, polled, limit>> /\ mpc = "idle")
    BY DEF MsgPush, Takes
  <2>2. QED
    BY <1>1, <2>1, UpdateFacts DEF Inv, TypeOK
<1>3. TypeOK'
  <2>1. heap' \in SUBSET (1 .. created)
    BY <1>1 DEF MsgPush, Inv, TypeOK
  <2>2. queue' \in Seq(Messages)
    BY TakesFacts DEF MsgPush
  <2>3. QED
    BY <1>2, <2>1, <2>2 DEF MsgPush, Inv, TypeOK
<1>4. QED
  BY <1>2, <1>3, ServiceStepPreserves DEF MsgPush, Takes

(* A removal.                                                              *)
LEMMA RemovePreserves ==
  ASSUME Inv, QueuedAreCreated, MsgRemove
  PROVE  Inv'
<1> DEFINE d == Head(queue).timer
<1>1. d \in Delegates /\ d \in 1 .. created
  <2>1. Takes("remove") /\ queue # <<>> /\ queue \in Seq(Messages)
    BY DEF MsgRemove, Takes, Inv, TypeOK
  <2>2. Head(queue) = queue[1] /\ 1 \in 1 .. Len(queue)
    BY <2>1
  <2>3. d \in Delegates
    BY <2>1, TakesFacts, MessageFacts DEF Takes
  <2>4. QED
    BY <2>2, <2>3, BoundsAssumption DEF QueuedAreCreated, Delegates, Inv, TypeOK
<1>2. heap \ {d} \in SUBSET Delegates
  <2>1. heap \in SUBSET Delegates
    BY BoundsAssumption DEF Inv, TypeOK, Delegates
  <2>2. QED
    BY <2>1
<1>3. /\ polled' \in BOOLEAN /\ limit' \in 0 .. MaxTime
      /\ mpc' \in {"idle", "arm"}
  <2>1. UpdateSoonest(heap \ {d})
        \/ (UNCHANGED <<mpc, polled, limit>> /\ mpc = "idle")
    BY DEF MsgRemove, Takes
  <2>2. QED
    BY <1>2, <2>1, UpdateFacts DEF Inv, TypeOK
<1>4. TypeOK'
  <2>1. /\ heap' \in SUBSET (1 .. created)
        /\ deleted' \in SUBSET (1 .. created)
    BY <1>1 DEF MsgRemove, Inv, TypeOK
  <2>2. queue' \in Seq(Messages)
    BY TakesFacts DEF MsgRemove
  <2>3. QED
    BY <1>3, <2>1, <2>2 DEF MsgRemove, Inv, TypeOK
<1>5. QED
  BY <1>3, <1>4, ServiceStepPreserves DEF MsgRemove, Takes

(* The beginning of an expiration.                                         *)
LEMMA ExpirePreserves ==
  ASSUME Inv, MsgExpire
  PROVE  Inv'
<1>1. queue' \in Seq(Messages) /\ mpc = "idle"
  BY TakesFacts DEF MsgExpire
<1>2. CASE heap = {}
  <2>1. TypeOK'
    BY <1>1, <1>2 DEF MsgExpire, Inv, TypeOK
  <2>2. QED
    BY <1>1, <1>2, <2>1, ServiceStepPreserves DEF MsgExpire
<1>3. CASE heap # {}
  <2>1. PICK d \in Soonest(heap) : PopAndRead(d) /\ limit' = now
    BY <1>3 DEF MsgExpire
  <2>2. now \in 0 .. MaxTime
    BY DEF Inv, TypeOK
  <2>3. TypeOK'
    BY <1>1, <2>1, <2>2, PopFacts DEF MsgExpire, Inv, TypeOK
  <2>4. QED
    BY <1>1, <2>1, <2>3, PopFacts, ServiceStepPreserves DEF MsgExpire
<1>4. QED
  BY <1>2, <1>3

(* The end of an expiration, or its next timer.                            *)
LEMMA NextExpiredPreserves ==
  ASSUME Inv, NextExpired
  PROVE  Inv'
<1>1. mpc = "next"
  BY DEF NextExpired
<1>2. CASE \E d \in Soonest(heap) : PopAndRead(d) /\ UNCHANGED <<limit, polled>>
  <2>1. PICK d \in Soonest(heap) : PopAndRead(d) /\ UNCHANGED <<limit, polled>>
    BY <1>2
  <2>2. TypeOK'
    BY <2>1, PopFacts DEF NextExpired, Inv, TypeOK
  <2>3. QED
    BY <1>1, <2>1, <2>2, PopFacts, ServiceStepPreserves DEF NextExpired
<1>3. CASE /\ firing' = NoDelegate /\ caller' = NoTimer
           /\ UpdateSoonest(heap) /\ UNCHANGED heap
  <2>1. heap \in SUBSET Delegates
    BY BoundsAssumption DEF Inv, TypeOK, Delegates
  <2>2. TypeOK'
    <3>1. 0 \in 0 .. created
      BY BoundsAssumption DEF Inv, TypeOK
    <3>2. QED
      BY <1>3, <2>1, <3>1, UpdateFacts DEF NextExpired, Inv, TypeOK
  <2>3. QED
    BY <1>1, <1>3, <2>1, <2>2, UpdateFacts, ServiceStepPreserves DEF NextExpired
<1>4. QED
  BY <1>2, <1>3 DEF NextExpired

(* Calling stop.                                                           *)
LEMMA StopClientPreserves ==
  ASSUME Inv, StopClient
  PROVE  Inv'
<1>1. mpc = "stop" /\ caller \in Timers /\ stopped = NoDelegate
  BY DEF StopClient, Inv, CallInProgress
<1>2. CASE ~alive[caller]
  <2>1. TypeOK'
    BY <1>2 DEF StopClient, Inv, TypeOK
  <2>2. QED
    BY <1>1, <1>2, <2>1, ServiceStepPreserves DEF StopClient
<1>3. CASE alive[caller] /\ cur[caller] = NoDelegate
  <2>1. TypeOK'
    BY <1>3 DEF StopClient, Inv, TypeOK
  <2>2. QED
    BY <1>1, <1>3, <2>1, ServiceStepPreserves DEF StopClient
<1>4. CASE alive[caller] /\ cur[caller] # NoDelegate
  <2>1. /\ StopRunning(caller) /\ stopped' = cur[caller] /\ mpc' = "call"
        /\ UNCHANGED <<created, outcomes, caller, crashed>>
    BY <1>4 DEF StopClient
  <2>2. TypeOK'
    BY <1>1, <1>4, <2>1, StopRunningFacts DEF StopClient, Inv, TypeOK
  <2>3. OneOutcome'
    <3>1. ASSUME NEW d \in Delegates
          PROVE  outcomes[d] = IF \/ d > created \/ stopped' = d
                                  \/ \E u \in Timers : cur'[u] = d
                               THEN 0 ELSE 1
      <4>1. outcomes[d] = IF \/ d > created \/ stopped = d
                             \/ \E u \in Timers : cur[u] = d
                          THEN 0 ELSE 1
        BY DEF Inv, OneOutcome
      <4>2. CASE d = cur[caller]
        BY <1>1, <2>1, <4>1, <4>2
      <4>3. CASE d # cur[caller]
        <5>1. d # NoDelegate
          BY DEF Delegates
        <5>2. (\E u \in Timers : cur[u] = d) <=> (\E u \in Timers : cur'[u] = d)
          BY <1>1, <1>4, <2>1, <4>3, <5>1, StopRunningFacts
        <5>3. QED
          BY <1>1, <2>1, <4>1, <4>3, <5>1, <5>2
      <4>4. QED
        BY <4>2, <4>3
    <3>2. QED
      BY <2>1, <3>1 DEF OneOutcome
  <2>4. CallInProgress'
    BY <1>1, <1>4, <2>1, StopRunningFacts DEF CallInProgress
  <2>5. QED
    BY <1>1, <1>4, <2>1, <2>2, <2>3, <2>4, StopRunningFacts DEF Inv
<1>5. QED
  BY <1>2, <1>3, <1>4

(* Calling back.                                                           *)
LEMMA CallBackPreserves ==
  ASSUME Inv, CallBack
  PROVE  Inv'
<1>1. /\ mpc = "call" /\ stopped # NoDelegate
      /\ stopped \in Delegates /\ stopped <= created
      /\ \A t \in Timers : cur[t] # stopped
  BY BoundsAssumption DEF CallBack, Inv, TypeOK, CallInProgress, Delegates
<1>2. CASE ~alive[caller]
  BY <1>2 DEF CallBack, Inv, TypeOK, ClientMirrorsTimer, OneOutcome, CallInProgress
<1>3. CASE alive[caller]
  <2>1. /\ outcomes' = [outcomes EXCEPT ![stopped] = @ + 1]
        /\ stopped' = NoDelegate /\ mpc' = "next"
        /\ UNCHANGED <<clientVars, created, client, caller, crashed>>
    BY <1>3 DEF CallBack
  <2>2. TypeOK'
    <3>1. outcomes[stopped] + 1 \in Nat /\ outcomes \in [Delegates -> Nat]
      BY <1>1 DEF Inv, TypeOK
    <3>2. outcomes' \in [Delegates -> Nat]
      BY <1>1, <2>1, <3>1
    <3> QED
      BY <1>1, <2>1, <3>2 DEF CallBack, Inv, TypeOK
  <2>3. OneOutcome'
    <3>1. ASSUME NEW d \in Delegates
          PROVE  outcomes'[d] = IF \/ d > created \/ stopped' = d
                                   \/ \E u \in Timers : cur[u] = d
                                THEN 0 ELSE 1
      <4>1. outcomes[d] = IF \/ d > created \/ stopped = d
                             \/ \E u \in Timers : cur[u] = d
                          THEN 0 ELSE 1
        BY DEF Inv, OneOutcome
      <4>2. d # NoDelegate /\ outcomes \in [Delegates -> Nat]
            /\ d \in Nat /\ created \in Nat
        BY BoundsAssumption DEF Delegates, Inv, TypeOK
      <4>3. CASE d = stopped
        <5>1. ~(d > created)
          BY <1>1, <4>2, <4>3
        <5>2. outcomes'[d] = 1
          BY <2>1, <4>1, <4>2, <4>3
        <5>3. QED
          BY <1>1, <2>1, <4>2, <4>3, <5>1, <5>2
      <4>4. CASE d # stopped
        BY <2>1, <4>1, <4>2, <4>4
      <4>5. QED
        BY <4>3, <4>4
    <3>2. QED
      BY <2>1, <3>1 DEF OneOutcome
  <2>4. ClientMirrorsTimer' /\ CallInProgress'
    BY <2>1 DEF Inv, ClientMirrorsTimer, CallInProgress
  <2>5. QED
    BY <2>2, <2>3, <2>4 DEF Inv
<1>4. QED
  BY <1>2, <1>3

(* The steps outside the MsgTask that change no timer.                     *)
LEMMA OtherStepPreserves ==
  ASSUME Inv, Tick \/ (\E t \in Timers : Delete(t)) \/ PollStep \/ Arm
  PROVE  Inv'
<1>1. TypeOK'
  <2>1. CASE Tick
    BY <2>1, BoundsAssumption DEF Tick, Inv, TypeOK
  <2>2. CASE \E t \in Timers : Delete(t)
    BY <2>2 DEF Delete, Inv, TypeOK
  <2>3. CASE PollStep
    <3>1. CASE PollPosts
      <4>1. queue' \in Seq(Messages)
        BY <3>1, MessageFacts DEF PollPosts, Inv, TypeOK
      <4>2. QED
        BY <3>1, <4>1 DEF PollPosts, PollOnly, Inv, TypeOK
    <3>2. CASE PollWakes \/ PollDisarms \/ PollRemoves
      <4>1. 0 \in 0 .. MaxTime
        BY BoundsAssumption
      <4>2. QED
        BY <3>2, <4>1
           DEF PollWakes, PollDisarms, PollRemoves, PollOnly, Inv, TypeOK
    <3>3. QED
      BY <2>3, <3>1, <3>2 DEF PollStep
  <2>4. CASE Arm
    <3>1. 0 \in 0 .. MaxTime
      BY BoundsAssumption
    <3>2. QED
      BY <2>4, <3>1 DEF Arm, Inv, TypeOK
  <2>5. QED
    BY <2>1, <2>2, <2>3, <2>4
<1>2. /\ UNCHANGED <<cur, client, created, stopped, outcomes, caller>>
      /\ mpc' = mpc \/ (mpc = "arm" /\ mpc' = "idle")
  BY DEF Tick, Delete, PollStep, PollWakes, PollDisarms, PollRemoves, PollPosts,
         PollOnly, Arm
<1>3. QED
  BY <1>1, <1>2 DEF Inv, ClientMirrorsTimer, OneOutcome, CallInProgress

-----------------------------------------------------------------------------
(* The queue, and the deleted delegates.                                   *)

(* The messages of a delegate come once each, the push before the remove.  *)
InOrder ==
  /\ QueuedAreCreated
  /\ \A i, j \in 1 .. Len(queue) :
       queue[i] = queue[j] /\ queue[i] # Expire => i = j
  /\ \A i, j \in 1 .. Len(queue) :
       queue[i].kind = "remove" /\ queue[j] = Push(queue[i].timer) => j < i

(* Only an expiration fires delegates.                                     *)
OnlyExpirationFires == mpc \in {"idle", "arm"} => firing = NoDelegate

QueueInv ==
  /\ Inv
  /\ InOrder
  /\ OnlyExpirationFires
  /\ DeletedNotUsed

(* A message that is not in the queue yet is posted.                       *)
LEMMA PostFacts ==
  ASSUME queue \in Seq(Messages), InOrder, created \in Nat, created' \in Nat,
         NEW m \in Messages, queue' = Append(queue, m),
         created <= created', m.timer <= created',
         m # Expire => ~Queued(m),
         m.kind = "push" => ~Queued(Remove(m.timer))
  PROVE  /\ InOrder'
         /\ \A x : Queued(x)' <=> Queued(x) \/ x = m
<1> DEFINE n == Len(queue)
<1>1. /\ n \in Nat /\ Len(queue') = n + 1
      /\ \A i \in 1 .. n : queue'[i] = queue[i] /\ queue[i] \in Messages
      /\ queue'[n + 1] = m
  OBVIOUS
<1>2. \A i \in 1 .. n + 1 : i \in 1 .. n \/ i = n + 1
  BY <1>1
<1>3. \A x : Queued(x)' <=> Queued(x) \/ x = m
  BY <1>1, <1>2 DEF Queued
<1>4. QueuedAreCreated'
  <2>1. \A x \in Messages : x.timer \in Nat
    BY DEF Messages, Expire, Delegates
  <2>2. QED
    BY <1>1, <1>2, <2>1 DEF InOrder, QueuedAreCreated
<1>5. ASSUME NEW i \in 1 .. n + 1, NEW j \in 1 .. n + 1,
             queue'[i] = queue'[j], queue'[i] # Expire
      PROVE  i = j
  BY <1>1, <1>2, <1>5 DEF InOrder, Queued
<1>6. ASSUME NEW i \in 1 .. n + 1, NEW j \in 1 .. n + 1,
             queue'[i].kind = "remove", queue'[j] = Push(queue'[i].timer)
      PROVE  j < i
  <2>1. CASE i = n + 1
    <3>1. j # n + 1
      BY <1>1, <1>6, <2>1 DEF Push
    <3>2. QED
      BY <1>1, <1>2, <2>1, <3>1
  <2>2. CASE i \in 1 .. n /\ j \in 1 .. n
    BY <1>1, <1>6, <2>2 DEF InOrder
  <2>3. CASE i \in 1 .. n /\ j = n + 1
    <3>1. m = Push(queue[i].timer) /\ queue[i].kind = "remove"
          /\ queue[i] \in Messages
      BY <1>1, <1>6, <2>3
    <3>2. m.kind = "push" /\ m.timer = queue[i].timer
      BY <3>1 DEF Push
    <3>3. queue[i] = Remove(m.timer)
      BY <3>1, <3>2 DEF Messages, Remove, Expire
    <3>4. QED
      BY <2>3, <3>2, <3>3 DEF Queued
  <2>4. QED
    BY <1>2, <2>1, <2>2, <2>3
<1>7. QED
  BY <1>1, <1>3, <1>4, <1>5, <1>6 DEF InOrder

(* A message is taken: it does not come again, and after a remove the push *)
(* of the delegate does not come either.                                   *)
LEMMA TakeFacts ==
  ASSUME queue \in Seq(Messages), InOrder, NEW kind, Takes(kind),
         UNCHANGED created
  PROVE  /\ InOrder'
         /\ Queued(Head(queue)) /\ Head(queue) \in Messages
         /\ Head(queue).kind = kind
         /\ \A x : Queued(x)' => /\ Queued(x)
                                 /\ x # Head(queue) \/ x = Expire
                                 /\ kind = "remove" => x # Push(Head(queue).timer)
<1> DEFINE n == Len(queue)
<1>1. /\ n \in Nat \ {0} /\ Len(queue') = n - 1
      /\ \A i \in 1 .. n - 1 : queue'[i] = queue[i + 1] /\ i + 1 \in 1 .. n
      /\ Head(queue) = queue[1] /\ 1 \in 1 .. n /\ queue[1] \in Messages
      /\ queue[1].kind = kind
  BY DEF Takes
<1>2. InOrder'
  <2>1. QueuedAreCreated'
    BY <1>1 DEF InOrder, QueuedAreCreated
  <2>2. ASSUME NEW i \in 1 .. n - 1, NEW j \in 1 .. n - 1
        PROVE  /\ queue'[i] = queue'[j] /\ queue'[i] # Expire => i = j
               /\ queue'[i].kind = "remove" /\ queue'[j] = Push(queue'[i].timer)
                    => j < i
    <3>1. i + 1 = j + 1 <=> i = j
      BY <1>1
    <3>2. j + 1 < i + 1 <=> j < i
      BY <1>1
    <3>3. QED
      BY <1>1, <3>1, <3>2 DEF InOrder
  <2>3. QED
    BY <1>1, <2>1, <2>2 DEF InOrder
<1>3. Queued(Head(queue)) /\ \A x : Queued(x)' => Queued(x)
  BY <1>1 DEF Queued
<1>4. ASSUME NEW x, x # Expire, Queued(x)'
      PROVE  x # Head(queue)
  <2>1. PICK i \in 1 .. n - 1 : queue'[i] = x
    BY <1>1, <1>4 DEF Queued
  <2>2. queue[i + 1] = x /\ i + 1 \in 1 .. n /\ i + 1 # 1
    BY <1>1, <2>1
  <2>3. QED
    BY <1>1, <1>4, <2>2 DEF InOrder
<1>5. ASSUME NEW x, kind = "remove", Queued(x)'
      PROVE  x # Push(Head(queue).timer)
  <2>1. PICK i \in 1 .. n - 1 : queue'[i] = x
    BY <1>1, <1>5 DEF Queued
  <2>2. queue[i + 1] = x /\ i + 1 \in 1 .. n /\ ~(i + 1 < 1)
    BY <1>1, <2>1
  <2>3. QED
    BY <1>1, <1>5, <2>2 DEF InOrder
<1>6. QED
  BY <1>1, <1>2, <1>3, <1>4, <1>5

-----------------------------------------------------------------------------
(* What the steps do to the queue and the deleted delegates.               *)

(* What DeletedNotUsed says, given the order of the queue.                 *)
NotUsed ==
  /\ \A d \in deleted :
       /\ d \notin heap /\ firing # d /\ \A t \in Timers : cur[t] # d
       /\ ~Queued(Push(d)) /\ ~Queued(Remove(d))
  /\ \A d \in Delegates : Queued(Remove(d)) => \A t \in Timers : cur[t] # d

(* A queue in order holds each remove once.                                *)
LEMMA NotUsedIsEnough ==
  /\ DeletedNotUsed => NotUsed
  /\ InOrder' /\ NotUsed' => DeletedNotUsed'
<1>1. \A d : Remove(d) # Expire
  BY DEF Remove, Expire
<1>2. QED
  BY <1>1 DEF InOrder, NotUsed, DeletedNotUsed, Times

(* Delegates are told apart in messages by their number.                   *)
LEMMA MessagesDiffer ==
  /\ \A d, e : Push(d) # Remove(e) /\ Push(d) # Expire /\ Remove(d) # Expire
  /\ \A d, e : Push(d) = Push(e) \/ Remove(d) = Remove(e) => d = e
  /\ \A d : Push(d).timer = d /\ Remove(d).timer = d
  /\ \A d : Push(d).kind = "push" /\ Remove(d).kind = "remove"
  /\ Expire.timer = 0 /\ Expire.kind = "expire"
BY DEF Push, Remove, Expire

(* Starting a timer posts the push of a new delegate.                      *)
LEMMA StartKeepsOrder ==
  ASSUME QueueInv, NEW t \in Timers, NEW delay \in Delays, Start(t, delay)
  PROVE  InOrder' /\ OnlyExpirationFires' /\ DeletedNotUsed'
<1>1. /\ created' = created + 1 /\ created \in Nat /\ created' \in Delegates
      /\ queue \in Seq(Messages) /\ queue' = Append(queue, Push(created'))
      /\ Push(created') \in Messages
      /\ UNCHANGED <<deleted, heap, firing, mpc>>
      /\ cur' = [cur EXCEPT ![t] = created'] /\ cur \in [Timers -> 0 .. created]
      /\ deleted \subseteq 1 .. created
  BY BoundsAssumption, MessageFacts DEF QueueInv, Inv, TypeOK, Start, Delegates
<1>2. \A x : Queued(x) => x.timer <= created
  BY DEF QueueInv, InOrder, QueuedAreCreated, Queued
<1>3. ~Queued(Push(created')) /\ ~Queued(Remove(created'))
  <2>1. ~(created' <= created)
    BY <1>1
  <2>2. Push(created').timer = created' /\ Remove(created').timer = created'
    BY MessagesDiffer
  <2> QED BY <1>2, <2>1, <2>2, Zenon
<1>4. InOrder' /\ \A x : Queued(x)' <=> Queued(x) \/ x = Push(created')
  BY <1>1, <1>3, MessagesDiffer, PostFacts DEF QueueInv
<1>5. NotUsed
  BY NotUsedIsEnough DEF QueueInv
<1>6. ASSUME NEW d \in deleted
      PROVE  /\ d \notin heap' /\ firing' # d /\ \A u \in Timers : cur'[u] # d
             /\ ~Queued(Push(d))' /\ ~Queued(Remove(d))'
  <2>1. d # created'
    BY <1>1
  <2>2. QED
    BY <1>1, <1>4, <1>5, <2>1, MessagesDiffer DEF NotUsed
<1>7. ASSUME NEW d \in Delegates, Queued(Remove(d))', NEW u \in Timers
      PROVE  cur'[u] # d
  <2>1. Queued(Remove(d))
    BY <1>4, <1>7, MessagesDiffer
  <2>2. d # created'
    BY <1>3, <2>1
  <2>3. QED
    BY <1>1, <1>5, <2>1, <2>2 DEF NotUsed
<1>8. NotUsed'
  BY <1>1, <1>6, <1>7 DEF NotUsed
<1>9. QED
  BY <1>1, <1>4, <1>8, NotUsedIsEnough DEF QueueInv, OnlyExpirationFires

(* Stopping a timer posts the only remove of its delegate.                 *)
LEMMA StopRunningKeepsOrder ==
  ASSUME QueueInv, NEW t \in Timers, cur[t] # NoDelegate, StopRunning(t),
         UNCHANGED <<created, deleted, heap, firing>>
  PROVE  InOrder' /\ DeletedNotUsed'
<1>1. /\ cur[t] \in Delegates /\ cur[t] <= created /\ created \in Nat
      /\ queue \in Seq(Messages) /\ queue' = Append(queue, Remove(cur[t]))
      /\ Remove(cur[t]) \in Messages
      /\ cur'[t] = NoDelegate
      /\ \A u \in Timers : u # t => cur'[u] = cur[u] /\ cur[u] # cur[t]
  <2>1. Inv /\ UNCHANGED created
    BY DEF QueueInv
  <2>2. cur[t] \in Delegates /\ cur[t] <= created /\ cur'[t] = NoDelegate
    BY <2>1, StopRunningFacts
  <2>3. \A u \in Timers : u # t => cur'[u] = cur[u] /\ cur[u] # cur[t]
    BY <2>1, StopRunningFacts
  <2>4. created \in Nat /\ queue \in Seq(Messages)
    BY <2>1 DEF Inv, TypeOK
  <2>5. QED
    BY <2>2, <2>3, <2>4, MessageFacts DEF StopRunning
<1>2. NotUsed
  BY NotUsedIsEnough DEF QueueInv
<1>3. ~Queued(Remove(cur[t])) /\ cur[t] \notin deleted
  BY <1>1, <1>2 DEF NotUsed
<1>4. InOrder' /\ \A x : Queued(x)' <=> Queued(x) \/ x = Remove(cur[t])
  BY <1>1, <1>3, MessagesDiffer, PostFacts DEF QueueInv
<1>5. ASSUME NEW d \in deleted
      PROVE  /\ d \notin heap /\ firing # d /\ \A u \in Timers : cur'[u] # d
             /\ ~Queued(Push(d))' /\ ~Queued(Remove(d))'
  <2>1. d # cur[t] /\ d # NoDelegate
    BY <1>3 DEF QueueInv, Inv, TypeOK
  <2>2. QED
    BY <1>1, <1>2, <1>4, <2>1, MessagesDiffer DEF NotUsed
<1>6. ASSUME NEW d \in Delegates, Queued(Remove(d))', NEW u \in Timers
      PROVE  cur'[u] # d
  <2>1. d # NoDelegate
    BY DEF Delegates
  <2>2. CASE d = cur[t]
    BY <1>1, <2>1, <2>2
  <2>3. CASE d # cur[t]
    BY <1>1, <1>2, <1>4, <1>6, <2>1, <2>3, MessagesDiffer DEF NotUsed
  <2>4. QED
    BY <2>2, <2>3
<1>7. NotUsed'
  BY <1>5, <1>6 DEF NotUsed
<1>8. QED
  BY <1>4, <1>7, NotUsedIsEnough

(* A push that is taken brings a delegate that is not deleted.             *)
LEMMA PushKeepsOrder ==
  ASSUME QueueInv, MsgPush
  PROVE  InOrder' /\ OnlyExpirationFires' /\ DeletedNotUsed'
<1>1. /\ Takes("push") /\ UNCHANGED <<created, deleted, firing, cur>>
      /\ heap' = heap \cup {Head(queue).timer} /\ queue \in Seq(Messages)
  BY DEF MsgPush, QueueInv, Inv, TypeOK
<1>2. /\ InOrder' /\ \A x : Queued(x)' => Queued(x)
      /\ Queued(Head(queue)) /\ Head(queue) \in Messages
      /\ Head(queue).kind = "push"
  BY <1>1, TakeFacts DEF QueueInv
<1>3. Head(queue) = Push(Head(queue).timer)
  BY <1>2 DEF Messages, Push, Expire
<1>4. NotUsed'
  <2>1. NotUsed
    BY NotUsedIsEnough DEF QueueInv
  <2>2. Head(queue).timer \notin deleted
    BY <1>2, <1>3, <2>1 DEF NotUsed
  <2>3. QED
    BY <1>1, <1>2, <2>1, <2>2 DEF NotUsed
<1>5. mpc = "idle"
  BY <1>1 DEF Takes
<1>6. QED
  BY <1>1, <1>2, <1>4, <1>5, NotUsedIsEnough DEF QueueInv, OnlyExpirationFires

(* A remove that is taken is the last message of a delegate that nothing   *)
(* refers to.                                                              *)
LEMMA RemoveKeepsOrder ==
  ASSUME QueueInv, MsgRemove
  PROVE  InOrder' /\ OnlyExpirationFires' /\ DeletedNotUsed'
<1>1. PICK d : d = Head(queue).timer
  OBVIOUS
<1>2. /\ Takes("remove") /\ UNCHANGED <<created, firing, cur>>
      /\ heap' = heap \ {d} /\ deleted' = deleted \cup {d}
      /\ queue \in Seq(Messages)
  BY <1>1 DEF MsgRemove, QueueInv, Inv, TypeOK
<1>3. /\ InOrder' /\ Queued(Head(queue)) /\ Head(queue) \in Messages
      /\ Head(queue).kind = "remove"
      /\ \A x : Queued(x)' => /\ Queued(x)
                              /\ x # Head(queue) \/ x = Expire
                              /\ x # Push(d)
  BY <1>1, <1>2, TakeFacts DEF QueueInv
<1>4. Head(queue) = Remove(d) /\ d \in Delegates
  BY <1>1, <1>3 DEF Messages, Remove, Expire
<1>5. NotUsed
  BY NotUsedIsEnough DEF QueueInv
<1>6. mpc = "idle" /\ firing = NoDelegate
  BY <1>2 DEF Takes, QueueInv, OnlyExpirationFires
<1>7. d \notin heap' /\ firing # d
  BY <1>2, <1>4, <1>6 DEF Delegates
<1>8. \A t \in Timers : cur[t] # d
  BY <1>3, <1>4, <1>5 DEF NotUsed
<1>9. ~Queued(Push(d))' /\ ~Queued(Remove(d))'
  BY <1>3, <1>4, MessagesDiffer
<1>10. NotUsed'
  BY <1>2, <1>3, <1>5, <1>7, <1>8, <1>9 DEF NotUsed
<1>11. QED
  BY <1>2, <1>3, <1>6, <1>10, NotUsedIsEnough DEF QueueInv, OnlyExpirationFires

(* What is popped is not deleted.                                          *)
LEMMA PopKeepsOrder ==
  ASSUME QueueInv, NEW d \in Soonest(heap), PopAndRead(d), InOrder',
         \A x : Queued(x)' => Queued(x), UNCHANGED <<deleted, cur>>
  PROVE  OnlyExpirationFires' /\ DeletedNotUsed'
<1>1. NotUsed /\ d \in heap /\ heap' \subseteq heap /\ firing' = d
      /\ mpc' \notin {"idle", "arm"}
  BY NotUsedIsEnough DEF QueueInv, Soonest, PopAndRead
<1>2. NotUsed'
  BY <1>1 DEF NotUsed
<1>3. QED
  BY <1>1, <1>2, NotUsedIsEnough DEF OnlyExpirationFires

(* The beginning and the end of an expiration.                             *)
LEMMA ExpirationKeepsOrder ==
  ASSUME QueueInv, MsgExpire \/ NextExpired
  PROVE  InOrder' /\ OnlyExpirationFires' /\ DeletedNotUsed'
<1>1. UNCHANGED <<created, deleted, cur>> /\ queue \in Seq(Messages)
  BY DEF MsgExpire, NextExpired, QueueInv, Inv, TypeOK
<1>2. InOrder' /\ \A x : Queued(x)' => Queued(x)
  <2>1. CASE MsgExpire
    BY <1>1, <2>1, TakeFacts DEF MsgExpire, QueueInv
  <2>2. CASE NextExpired
    BY <1>1, <2>2
       DEF NextExpired, QueueInv, InOrder, QueuedAreCreated, Queued
  <2>3. QED
    BY <2>1, <2>2
<1>3. CASE \E d \in Soonest(heap) : PopAndRead(d)
  BY <1>1, <1>2, <1>3, PopKeepsOrder
<1>4. CASE /\ UNCHANGED heap /\ firing' = NoDelegate
  <2>1. NotUsed /\ \A d \in deleted : d # NoDelegate
    BY NotUsedIsEnough DEF QueueInv, Inv, TypeOK
  <2>2. NotUsed'
    BY <1>1, <1>2, <1>4, <2>1 DEF NotUsed
  <2>3. QED
    BY <1>2, <1>4, <2>2, NotUsedIsEnough DEF OnlyExpirationFires
<1>5. CASE MsgExpire /\ heap = {}
  <2>1. UNCHANGED heap /\ firing' = firing /\ mpc = "idle"
    BY <1>5 DEF MsgExpire, Takes
  <2>2. QED
    BY <1>4, <2>1 DEF QueueInv, OnlyExpirationFires
<1>6. QED
  BY <1>3, <1>4, <1>5 DEF MsgExpire, NextExpired

(* Posting an expire message.                                              *)
LEMMA PollPostsKeepsOrder ==
  ASSUME QueueInv, PollPosts
  PROVE  InOrder' /\ OnlyExpirationFires' /\ DeletedNotUsed'
<1>1. /\ created \in Nat /\ UNCHANGED <<created, deleted, cur, heap, firing, mpc>>
      /\ queue \in Seq(Messages) /\ queue' = Append(queue, Expire)
      /\ Expire \in Messages
  BY MessageFacts DEF PollPosts, PollOnly, QueueInv, Inv, TypeOK
<1>2. InOrder' /\ \A x : Queued(x)' <=> Queued(x) \/ x = Expire
  BY <1>1, MessagesDiffer, PostFacts DEF QueueInv
<1>3. NotUsed'
  <2>1. NotUsed
    BY NotUsedIsEnough DEF QueueInv
  <2>2. QED
    BY <1>1, <1>2, <2>1, MessagesDiffer DEF NotUsed
<1>4. QED
  BY <1>1, <1>2, <1>3, NotUsedIsEnough DEF QueueInv, OnlyExpirationFires

(* The steps that touch neither the queue nor the delegates.               *)
LEMMA OthersKeepOrder ==
  ASSUME QueueInv, UNCHANGED <<created, deleted, cur, heap, firing, queue>>,
         mpc' = mpc \/ mpc' \in {"call", "next"} \/ mpc = "arm"
  PROVE  InOrder' /\ OnlyExpirationFires' /\ DeletedNotUsed'
BY DEF QueueInv, InOrder, QueuedAreCreated, OnlyExpirationFires,
       DeletedNotUsed, Queued, Times

(* Every step preserves the invariant.                                     *)
LEMMA NextQueueInv == QueueInv /\ [Next]_vars => QueueInv'
<1> SUFFICES ASSUME QueueInv, [Next]_vars
             PROVE  QueueInv'
  OBVIOUS
<1>1. Inv /\ QueuedAreCreated
  BY DEF QueueInv, InOrder
<1>2. ASSUME NEW t \in Timers, NEW delay \in Delays, Start(t, delay)
      PROVE  QueueInv'
  BY <1>1, <1>2, StartPreserves, StartKeepsOrder DEF QueueInv
<1>3. ASSUME NEW t \in Timers, Stop(t)
      PROVE  QueueInv'
  <2>1. InOrder' /\ DeletedNotUsed' /\ UNCHANGED <<mpc, firing>>
    BY <1>3, StopRunningKeepsOrder DEF Stop
  <2>2. QED
    BY <1>1, <1>3, <2>1, StopPreserves DEF QueueInv, OnlyExpirationFires
<1>4. CASE MsgPush
  BY <1>1, <1>4, PushPreserves, PushKeepsOrder DEF QueueInv
<1>5. CASE MsgRemove
  BY <1>1, <1>5, RemovePreserves, RemoveKeepsOrder DEF QueueInv
<1>6. CASE MsgExpire
  BY <1>1, <1>6, ExpirePreserves, ExpirationKeepsOrder DEF QueueInv
<1>7. CASE NextExpired
  BY <1>1, <1>7, NextExpiredPreserves, ExpirationKeepsOrder DEF QueueInv
<1>8. CASE StopClient
  <2>1. Inv'
    BY <1>1, <1>8, StopClientPreserves
  <2>2. CASE UNCHANGED <<cur, queue>>
    BY <1>8, <2>1, <2>2, OthersKeepOrder DEF StopClient, QueueInv
  <2>3. CASE cur[caller] # NoDelegate /\ StopRunning(caller) /\ mpc' = "call"
    <3>1. caller \in Timers
      BY <1>1, <1>8 DEF StopClient, Inv, CallInProgress
    <3>2. InOrder' /\ DeletedNotUsed'
      BY <1>8, <2>3, <3>1, StopRunningKeepsOrder DEF StopClient
    <3>3. QED
      BY <2>1, <2>3, <3>2 DEF QueueInv, OnlyExpirationFires
  <2>4. QED
    BY <1>8, <2>2, <2>3 DEF StopClient
<1>9. CASE CallBack
  <2>1. UNCHANGED <<created, deleted, cur, heap, firing, queue>>
        /\ (mpc' = mpc \/ mpc' = "next")
    BY <1>9 DEF CallBack
  <2>2. QED
    BY <1>1, <1>9, <2>1, CallBackPreserves, OthersKeepOrder DEF QueueInv
<1>10. CASE PollPosts
  BY <1>1, <1>10, OtherStepPreserves, PollPostsKeepsOrder DEF QueueInv, PollStep
<1>11. CASE \/ Tick \/ \E t \in Timers : Delete(t)
            \/ PollWakes \/ PollDisarms \/ PollRemoves \/ Arm
  <2>1. UNCHANGED <<created, deleted, cur, heap, firing, queue>>
        /\ (mpc' = mpc \/ mpc = "arm")
    BY <1>11 DEF Tick, Delete, PollWakes, PollDisarms, PollRemoves, PollOnly, Arm
  <2>2. QED
    BY <1>1, <1>11, <2>1, OtherStepPreserves, OthersKeepOrder
       DEF QueueInv, PollStep
<1>12. CASE UNCHANGED vars
  BY <1>12 DEF vars, QueueInv, Inv, TypeOK, ClientMirrorsTimer, OneOutcome,
     CallInProgress, InOrder, QueuedAreCreated, OnlyExpirationFires,
     DeletedNotUsed, Queued, Times
<1>13. QED
  BY <1>2, <1>3, <1>4, <1>5, <1>6, <1>7, <1>8, <1>9, <1>10, <1>11, <1>12
     DEF Next, MsgStep, PollStep

(* Types, the links between delegates and timers, the outcomes of starts   *)
(* and the order of the queue hold in every reachable state.               *)
THEOREM QueueInvHolds == Spec => []QueueInv
<1>1. Init => QueueInv
  BY InitInv DEF Init, QueueInv, InOrder, QueuedAreCreated,
     OnlyExpirationFires, DeletedNotUsed, Queued, Times
<1>2. QED
  BY <1>1, NextQueueInv, PTL DEF Spec

(* For any timers, delays and number of starts: every variable keeps its   *)
(* type.                                                                   *)
THEOREM TypeCorrect == Spec => []TypeOK
<1>1. QueueInv => TypeOK
  BY DEF QueueInv, Inv
<1>2. QED
  BY <1>1, QueueInvHolds, PTL

(* For any interleaving of clients and MsgTask: a running LocTimer and its *)
(* delegate point at each other, so expire never stops somebody else's.    *)
THEOREM TimersAreMirrored == Spec => []ClientMirrorsTimer
<1>1. QueueInv => ClientMirrorsTimer
  BY DEF QueueInv, Inv
<1>2. QED
  BY <1>1, QueueInvHolds, PTL

(* For any interleaving: a start has either one successful stop or one     *)
(* callback, although expire and stop race for it.                         *)
THEOREM StartsEndOnce == Spec => []OneOutcome
<1>1. QueueInv => OneOutcome
  BY DEF QueueInv, Inv
<1>2. QED
  BY <1>1, QueueInvHolds, PTL

(* For any interleaving: a delegate is deleted once, when nothing refers   *)
(* to it any more.                                                         *)
THEOREM DelegatesDeletedOnce == Spec => []DeletedNotUsed
<1>1. QueueInv => DeletedNotUsed
  BY DEF QueueInv
<1>2. QED
  BY <1>1, QueueInvHolds, PTL

-----------------------------------------------------------------------------
(* The soonest timer is armed.                                             *)

(* The fd is polled, and time is that of the soonest timers.               *)
Armed(time) == \A d \in Soonest(heap) : polled /\ time = due[d]

(* Unless an expire message comes, the fd is set to the soonest timer, or  *)
(* the MsgTask is about to set it.                                         *)
ArmedOrDue ==
  ppc = "wait" /\ ~Queued(Expire) =>
    /\ mpc = "idle" => Armed(fd)
    /\ mpc = "arm" => Armed(limit)

(* What the heap holds has a time.                                         *)
LEMMA DueFacts ==
  ASSUME Inv
  PROVE  /\ heap \subseteq Delegates
         /\ \A d \in Delegates : due[d] \in Nat
BY BoundsAssumption DEF Inv, TypeOK, Delegates

(* After an update, the new heap's soonest timer is about to be armed.     *)
LEMMA UpdateArms ==
  ASSUME Inv, UpdateSoonest(heap'), heap' \subseteq Delegates, UNCHANGED due
  PROVE  ArmedOrDue'
<1>1. CASE heap' = {}
  BY <1>1 DEF ArmedOrDue, Armed, Soonest
<1>2. CASE heap' # {}
  <2>1. polled' /\ mpc' = "arm" /\ \E d \in Soonest(heap') : limit' = due[d]
    BY <1>2 DEF UpdateSoonest
  <2>2. ASSUME NEW d \in heap', NEW e \in heap',
               \A f \in heap' : due[d] <= due[f], \A f \in heap' : due[e] <= due[f]
        PROVE  due[d] = due[e]
    BY <2>2, DueFacts
  <2>3. \A d \in Soonest(heap') : limit' = due[d]
    BY <2>1, <2>2 DEF Soonest
  <2>4. Soonest(heap)' = Soonest(heap')
    BY DEF Soonest
  <2>5. QED
    BY <2>1, <2>3, <2>4 DEF ArmedOrDue, Armed
<1>3. QED
  BY <1>1, <1>2

(* Taking another message leaves an expire message in the queue.           *)
LEMMA ExpireStaysQueued ==
  ASSUME Inv, NEW kind, Takes(kind), kind # "expire", Queued(Expire)
  PROVE  Queued(Expire)'
<1>1. queue \in Seq(Messages) /\ Head(queue) # Expire
  BY DEF Inv, TypeOK, Takes, Expire
<1>2. PICK i \in 1 .. Len(queue) : queue[i] = Expire
  BY DEF Queued
<1>3. queue' = Tail(queue) /\ queue # <<>> /\ i # 1
  BY <1>1, <1>2 DEF Takes
<1>4. i - 1 \in 1 .. Len(queue') /\ queue'[i - 1] = Expire
  BY <1>1, <1>2, <1>3
<1>5. QED
  BY <1>4 DEF Queued

(* A new timer is armed if it is the soonest.                              *)
LEMMA PushArms ==
  ASSUME Inv, Inv', ArmedOrDue, MsgPush
  PROVE  ArmedOrDue'
<1>1. PICK d : d = Head(queue).timer
  OBVIOUS
<1>2. /\ Takes("push") /\ mpc = "idle" /\ heap' = heap \cup {d}
      /\ UNCHANGED <<due, fd, ppc>>
  BY <1>1 DEF MsgPush, Takes
<1>3. heap' \subseteq Delegates /\ \A e \in Delegates : due[e] \in Nat
  <2>1. heap' \in SUBSET (1 .. created') /\ created' \in 0 .. MaxStarts
    BY DEF Inv, TypeOK
  <2>2. QED
    BY <2>1, DueFacts, BoundsAssumption DEF Delegates
<1>4. CASE \A e \in heap : due[d] < due[e]
  <2>1. UpdateSoonest({d})
    BY <1>1, <1>4 DEF MsgPush
  <2>2. polled' /\ mpc' = "arm" /\ limit' = due[d]
    BY <2>1 DEF UpdateSoonest, Soonest
  <2>3. ASSUME NEW e \in heap', \A f \in heap' : due[e] <= due[f]
        PROVE  e = d
    <3>1. due[e] <= due[d] /\ e \in Delegates /\ d \in Delegates
      BY <1>2, <1>3, <2>3
    <3>2. QED
      BY <1>2, <1>3, <1>4, <3>1
  <2>4. \A e \in Soonest(heap)' : e = d
    BY <1>2, <2>3 DEF Soonest
  <2>5. QED
    BY <1>2, <2>2, <2>4 DEF ArmedOrDue, Armed
<1>5. CASE ~(\A e \in heap : due[d] < due[e])
  <2>1. UNCHANGED <<mpc, polled, limit>>
    BY <1>1, <1>5 DEF MsgPush
  <2>2. SUFFICES ASSUME ppc = "wait", ~Queued(Expire)', NEW x \in heap',
                        \A f \in heap' : due[x] <= due[f]
                 PROVE  polled /\ fd = due[x]
    BY <1>2, <2>1 DEF ArmedOrDue, Armed, Soonest
  <2>3. ~Queued(Expire)
    BY <1>2, <2>2, ExpireStaysQueued
  <2>4. \A e \in heap : (\A f \in heap : due[e] <= due[f]) => polled /\ fd = due[e]
    BY <1>2, <2>2, <2>3 DEF ArmedOrDue, Armed, Soonest
  <2>5. PICK e \in heap : ~(due[d] < due[e])
    BY <1>5
  <2>6. CASE x \in heap
    BY <1>2, <2>2, <2>4, <2>6
  <2>7. CASE x = d
    <3>1. \A f \in heap : due[d] <= due[f] /\ due[f] \in Nat /\ due[d] \in Nat
      BY <1>2, <1>3, <2>2, <2>7
    <3>2. due[d] = due[e]
      BY <2>5, <3>1
    <3>3. QED
      BY <2>4, <2>7, <3>1, <3>2
  <2>8. QED
    BY <1>2, <2>6, <2>7
<1>6. QED
  BY <1>4, <1>5

(* When the top leaves, the next is armed.                                 *)
LEMMA RemoveArms ==
  ASSUME Inv, ArmedOrDue, MsgRemove
  PROVE  ArmedOrDue'
<1>1. PICK d : d = Head(queue).timer
  OBVIOUS
<1>2. PICK top \in Soonest(heap) \cup {NoDelegate} :
        /\ top = NoDelegate => heap = {}
        /\ IF top = d THEN UpdateSoonest(heap \ {d})
           ELSE UNCHANGED <<mpc, polled, limit>>
  BY <1>1 DEF MsgRemove
<1>3. /\ Takes("remove") /\ mpc = "idle" /\ heap' = heap \ {d}
      /\ UNCHANGED <<due, fd, ppc>>
  BY <1>1 DEF MsgRemove, Takes
<1>4. heap \subseteq Delegates /\ \A e \in Delegates : due[e] \in Nat
  BY DueFacts
<1>5. CASE top = d
  BY <1>2, <1>3, <1>4, <1>5, UpdateArms
<1>6. CASE top # d /\ top = NoDelegate
  BY <1>2, <1>3, <1>6 DEF ArmedOrDue, Armed, Soonest
<1>7. CASE top # d /\ top \in Soonest(heap)
  <2>1. UNCHANGED <<mpc, polled, limit>>
    BY <1>2, <1>7
  <2>2. SUFFICES ASSUME ppc = "wait", ~Queued(Expire)', NEW x \in heap',
                        \A f \in heap' : due[x] <= due[f]
                 PROVE  polled /\ fd = due[x]
    BY <1>3, <2>1 DEF ArmedOrDue, Armed, Soonest
  <2>3. ~Queued(Expire)
    BY <1>3, <2>2, ExpireStaysQueued
  <2>4. \A e \in heap : (\A f \in heap : due[e] <= due[f]) => polled /\ fd = due[e]
    BY <1>3, <2>2, <2>3 DEF ArmedOrDue, Armed, Soonest
  <2>5. top \in heap' /\ \A f \in heap : due[top] <= due[f]
    BY <1>3, <1>7 DEF Soonest
  <2>6. \A f \in heap : due[x] <= due[f]
    BY <1>3, <1>4, <2>2, <2>5
  <2>7. QED
    BY <1>3, <2>2, <2>4, <2>6
<1>8. QED
  BY <1>5, <1>6, <1>7

(* A new delegate is in no heap yet.                                       *)
LEMMA StartArms ==
  ASSUME Inv, ArmedOrDue, NEW t \in Timers, NEW delay \in Delays,
         Start(t, delay)
  PROVE  ArmedOrDue'
<1>1. /\ UNCHANGED <<heap, fd, polled, limit, mpc, ppc>>
      /\ queue' = Append(queue, Push(created')) /\ queue \in Seq(Messages)
      /\ due' = [due EXCEPT ![created'] = now + delay]
      /\ heap \subseteq 1 .. created /\ created' = created + 1
      /\ created \in Nat /\ due \in [Delegates -> 0 .. MaxTime]
  BY DEF Start, Inv, TypeOK
<1>2. Queued(Expire) => Queued(Expire)'
  <2>1. Len(queue') = Len(queue) + 1 /\ Len(queue) \in Nat
        /\ \A i \in 1 .. Len(queue) : queue'[i] = queue[i]
    BY <1>1, MessageFacts
  <2>2. QED
    BY <2>1 DEF Queued
<1>3. \A d \in heap : due'[d] = due[d]
  BY <1>1, DueFacts
<1>4. Soonest(heap)' = Soonest(heap)
  BY <1>1, <1>3 DEF Soonest
<1>5. QED
  BY <1>1, <1>2, <1>3, <1>4 DEF ArmedOrDue, Armed, Soonest

(* A message that is posted leaves the others in the queue.                *)
LEMMA StopArms ==
  ASSUME Inv, ArmedOrDue, NEW t \in Timers, Stop(t)
  PROVE  ArmedOrDue'
<1>1. /\ UNCHANGED <<heap, fd, polled, limit, mpc, ppc, due>>
      /\ queue' = Append(queue, Remove(cur[t])) /\ queue \in Seq(Messages)
  BY DEF Stop, StopRunning, Inv, TypeOK
<1>2. Queued(Expire) => Queued(Expire)'
  <2>1. Len(queue') = Len(queue) + 1 /\ Len(queue) \in Nat
        /\ \A i \in 1 .. Len(queue) : queue'[i] = queue[i]
    BY <1>1
  <2>2. QED
    BY <2>1 DEF Queued
<1>3. QED
  BY <1>1, <1>2 DEF ArmedOrDue, Armed, Soonest

(* Every step keeps the soonest timer armed or due to be.                  *)
LEMMA NextArms == Inv /\ Inv' /\ ArmedOrDue /\ [Next]_vars => ArmedOrDue'
<1> SUFFICES ASSUME Inv, Inv', ArmedOrDue, [Next]_vars
             PROVE  ArmedOrDue'
  OBVIOUS
<1>1. ASSUME NEW t \in Timers, NEW delay \in Delays, Start(t, delay)
      PROVE  ArmedOrDue'
  BY <1>1, StartArms
<1>2. ASSUME NEW t \in Timers, Stop(t)
      PROVE  ArmedOrDue'
  BY <1>2, StopArms
<1>3. CASE MsgPush
  BY <1>3, PushArms
<1>4. CASE MsgRemove
  BY <1>4, RemoveArms
<1>5. CASE MsgExpire \/ NextExpired
  <2>1. CASE \E d \in Soonest(heap) : PopAndRead(d)
    BY <2>1 DEF PopAndRead, ArmedOrDue
  <2>2. CASE MsgExpire /\ heap = {} /\ UNCHANGED <<heap, msgVars>>
    BY <2>2 DEF MsgExpire, Takes, ArmedOrDue, Armed, Soonest
  <2>3. CASE NextExpired /\ UpdateSoonest(heap) /\ UNCHANGED heap
    BY <2>3, DueFacts, UpdateArms DEF NextExpired
  <2>4. QED
    BY <1>5, <2>1, <2>2, <2>3 DEF MsgExpire, NextExpired
<1>6. CASE StopClient \/ CallBack
  <2>1. mpc' \notin {"idle", "arm"}
    BY <1>6 DEF StopClient, CallBack
  <2>2. QED
    BY <2>1 DEF ArmedOrDue
<1>7. CASE Arm
  BY <1>7 DEF Arm, ArmedOrDue, Armed, Soonest, Queued
<1>8. CASE PollWakes \/ PollDisarms \/ PollRemoves
  BY <1>8 DEF PollWakes, PollDisarms, PollRemoves, PollOnly, ArmedOrDue
<1>9. CASE PollPosts
  <2>1. queue' = Append(queue, Expire) /\ queue \in Seq(Messages)
    BY <1>9 DEF PollPosts, Inv, TypeOK
  <2>2. Len(queue) + 1 \in 1 .. Len(queue') /\ queue'[Len(queue) + 1] = Expire
    BY <2>1
  <2>3. QED
    BY <2>2 DEF ArmedOrDue, Queued
<1>10. CASE Tick \/ (\E t \in Timers : Delete(t)) \/ UNCHANGED vars
  BY <1>10 DEF Tick, Delete, vars, ArmedOrDue, Armed, Soonest, Queued
<1>11. QED
  BY <1>1, <1>2, <1>3, <1>4, <1>5, <1>6, <1>7, <1>8, <1>9, <1>10
     DEF Next, MsgStep, PollStep

(* For any interleaving of the MsgTask and the poll thread on the fd: at   *)
(* rest, the fd is polled and set to the time of the soonest timer.        *)
THEOREM SoonestTimerArmed == Spec => []SoonestIsArmed
<1>1. Init => ArmedOrDue
  BY DEF Init, ArmedOrDue, Armed, Soonest
<1>2. ArmedOrDue => SoonestIsArmed
  BY DEF ArmedOrDue, Armed, SoonestIsArmed
<1>3. QueueInv => Inv
  BY DEF QueueInv
<1>4. QED
  BY <1>1, <1>2, <1>3, NextArms, QueueInvHolds, PTL DEF Spec
=============================================================================
