------------------------------ MODULE LocTimer ------------------------------
(***************************************************************************)
(* The timer service (gps/utils/LocTimer.cpp).  LocTimer::start creates a  *)
(* LocTimerDelegate and posts it to the service's MsgTask, which keeps the *)
(* running delegates in a heap and the kernel's timerfd set to the soonest *)
(* of them.  The poll thread waits for the fd, disarms it, stops polling   *)
(* it and posts an expire message; the MsgTask pops what is due and calls  *)
(* the clients back.  stop posts the delegate again, to be removed from    *)
(* the heap and deleted.                                                   *)
(*                                                                         *)
(* Three kinds of threads run here: the clients, the MsgTask and the poll  *)
(* thread.  A client holds its LocTimer's lock for all of start or stop;   *)
(* LocTimerDelegate::expire reads mClient without it and then calls stop   *)
(* and the callback, three steps apart.  Each system call on the timerfd   *)
(* or the epoll fd is a step.                                              *)
(*                                                                         *)
(* One container: the timers and the alarms have one each, and share only  *)
(* the threads.  The heap is the set of its delegates with the soonest     *)
(* ones on top (LocHeap).  Time is a counter.  The C wrappers              *)
(* loc_timer_start and loc_timer_stop are left out.                        *)
(***************************************************************************)
EXTENDS Naturals, Sequences

CONSTANTS
  Timers,     \* LocTimer objects
  NoTimer,    \* NULL mClient
  Delays,     \* the delays timers are started with
  MaxTime,    \* bound on the clock
  MaxStarts,  \* bound on the delegates created
  MayDelete   \* whether clients delete their LocTimer objects

ASSUME DelaysAssumption == Delays \subseteq Nat
ASSUME BoundsAssumption == MaxTime \in Nat \ {0} /\ MaxStarts \in Nat
ASSUME NoTimerAssumption == NoTimer \notin Timers
ASSUME MayDeleteAssumption == MayDelete \in BOOLEAN

(* Delegates are numbered as they are created; 0 is NULL.                  *)
Delegates == 1 .. MaxStarts
NoDelegate == 0
(* The time value that disarms a timerfd.                                  *)
Disarmed == 0

VARIABLES
  now,
  \* LocTimer objects
  alive,     \* not deleted yet
  cur,       \* mTimer
  \* LocTimerDelegate objects
  created,   \* how many
  client,    \* mClient
  due,       \* mFutureTime
  deleted,   \* those deleted
  \* the container, its timerfd and epoll registration
  heap, fd, polled,
  queue,     \* the MsgTask's queue
  mpc, firing, caller, limit,  \* the MsgTask's thread, in MsgTimerExpire
  ppc,       \* the poll thread
  \* history
  stopped,   \* the delegate whose start the running callback ends
  outcomes,  \* outcomes[d]: successful stops and callbacks of d's start
  crashed    \* a deleted LocTimer was used

clientVars == <<alive, cur>>
delegateVars == <<created, client, due>>
fdVars == <<fd, polled>>
msgVars == <<mpc, firing, caller, limit>>
vars == <<now, clientVars, delegateVars, deleted, heap, fdVars, queue, msgVars,
          ppc, stopped, outcomes, crashed>>

Init ==
  /\ now = 1
  /\ alive = [t \in Timers |-> TRUE]
  /\ cur = [t \in Timers |-> NoDelegate]
  /\ created = 0
  /\ client = [d \in Delegates |-> NoTimer]
  /\ due = [d \in Delegates |-> 0]
  /\ deleted = {}
  /\ heap = {} /\ fd = Disarmed /\ polled = FALSE
  /\ queue = <<>>
  /\ mpc = "idle" /\ firing = NoDelegate /\ caller = NoTimer /\ limit = 0
  /\ ppc = "wait"
  /\ stopped = NoDelegate
  /\ outcomes = [d \in Delegates |-> 0]
  /\ crashed = FALSE

Push(d) == [kind |-> "push", timer |-> d]
Remove(d) == [kind |-> "remove", timer |-> d]
Expire == [kind |-> "expire", timer |-> NoDelegate]

Tick ==
  /\ now < MaxTime
  /\ now' = now + 1
  /\ UNCHANGED <<clientVars, delegateVars, deleted, heap, fdVars, queue,
                 msgVars, ppc, stopped, outcomes, crashed>>

-----------------------------------------------------------------------------
(* The clients.  start and stop change nothing when the timer runs         *)
(* already, or does not run.                                               *)

Start(t, delay) ==
  /\ alive[t] /\ cur[t] = NoDelegate
  /\ created < MaxStarts /\ now + delay <= MaxTime
  /\ created' = created + 1
  /\ client' = [client EXCEPT ![created'] = t]
  /\ due' = [due EXCEPT ![created'] = now + delay]
  /\ cur' = [cur EXCEPT ![t] = created']
  /\ queue' = Append(queue, Push(created'))
  /\ UNCHANGED <<now, alive, deleted, heap, fdVars, msgVars, ppc, stopped,
                 outcomes, crashed>>

(* Mutants of StopRunning: mTimer is not nulled; mClient is not; mTimer is *)
(* nulled before it is used.                                               *)
StopRunningKeepsTimer(t) ==
  /\ client' = [client EXCEPT ![cur[t]] = NoTimer]
  /\ queue' = Append(queue, Remove(cur[t]))
  /\ UNCHANGED cur

StopRunningKeepsClient(t) ==
  /\ cur' = [cur EXCEPT ![t] = NoDelegate]
  /\ queue' = Append(queue, Remove(cur[t]))
  /\ UNCHANGED client

StopRunningLosesTimer(t) ==
  /\ cur' = [cur EXCEPT ![t] = NoDelegate]
  /\ queue' = Append(queue, Remove(NoDelegate))
  /\ UNCHANGED client

(* LocTimer::stop of a running timer, and destroyLocked.                   *)
StopRunning(t) ==
  /\ cur' = [cur EXCEPT ![t] = NoDelegate]
  /\ client' = [client EXCEPT ![cur[t]] = NoTimer]
  /\ queue' = Append(queue, Remove(cur[t]))

Stop(t) ==
  /\ alive[t] /\ cur[t] # NoDelegate
  /\ StopRunning(t)
  /\ outcomes' = [outcomes EXCEPT ![cur[t]] = @ + 1]
  /\ UNCHANGED <<now, alive, created, due, deleted, heap, fdVars, msgVars, ppc,
                 stopped, crashed>>

(* ~LocTimer, after its stop. *)
Delete(t) ==
  /\ MayDelete
  /\ alive[t] /\ cur[t] = NoDelegate
  /\ alive' = [alive EXCEPT ![t] = FALSE]
  /\ UNCHANGED <<now, cur, delegateVars, deleted, heap, fdVars, queue, msgVars,
                 ppc, stopped, outcomes, crashed>>

-----------------------------------------------------------------------------
(* The MsgTask.                                                            *)

Soonest(h) == {d \in h : \A e \in h : due[d] <= due[e]}

Takes(kind) ==
  /\ mpc = "idle"
  /\ queue # <<>> /\ Head(queue).kind = kind
  /\ queue' = Tail(queue)

(* Mutant of UpdateSoonest: the fd is set and not polled.                  *)
UpdateSoonestUnpolled(h) ==
  IF h = {} THEN mpc' = "idle" /\ UNCHANGED <<polled, limit>>
  ELSE /\ mpc' = "arm"
       /\ \E d \in Soonest(h) : limit' = due[d]
       /\ UNCHANGED polled

(* updateSoonestTime(NULL): if there is a top, poll the fd, and then set   *)
(* it to the top's time.                                                   *)
UpdateSoonest(h) ==
  IF h = {} THEN mpc' = "idle" /\ UNCHANGED <<polled, limit>>
  ELSE /\ polled' = TRUE
       /\ mpc' = "arm"
       /\ \E d \in Soonest(h) : limit' = due[d]

(* MsgTimerPush: the fd is set anew if the new timer is the soonest.       *)
MsgPush ==
  LET d == Head(queue).timer IN
  /\ Takes("push")
  /\ heap' = heap \cup {d}
  /\ IF \A e \in heap : due[d] < due[e]
     THEN UpdateSoonest({d})
     ELSE UNCHANGED <<mpc, polled, limit>>
  /\ UNCHANGED <<now, clientVars, delegateVars, deleted, fd, firing, caller,
                 ppc, stopped, outcomes, crashed>>

(* MsgTimerRemove: the fd is set anew if the timer was on top.  Of timers  *)
(* due at the same time any may be on top.  The last one leaves the fd as  *)
(* it is.  Then the delegate is deleted.                                   *)
MsgRemove ==
  LET d == Head(queue).timer IN
  /\ Takes("remove")
  /\ heap' = heap \ {d}
  /\ \E top \in Soonest(heap) \cup {NoDelegate} :
       /\ top = NoDelegate => heap = {}
       /\ IF top = d THEN UpdateSoonest(heap \ {d})
          ELSE UNCHANGED <<mpc, polled, limit>>
  /\ deleted' = deleted \cup {d}
  /\ UNCHANGED <<now, clientVars, delegateVars, fd, firing, caller, ppc,
                 stopped, outcomes, crashed>>

(* timerfd_settime at the end of updateSoonestTime. *)
Arm ==
  /\ mpc = "arm"
  /\ fd' = limit
  /\ mpc' = "idle" /\ limit' = 0
  /\ UNCHANGED <<now, clientVars, delegateVars, deleted, heap, polled, queue,
                 firing, caller, ppc, stopped, outcomes, crashed>>

(* A delegate is popped, and LocTimerDelegate::expire begins: it takes     *)
(* note of its client, without the lock.                                   *)
PopAndRead(d) ==
  /\ heap' = heap \ {d}
  /\ firing' = d
  /\ caller' = client[d]
  /\ mpc' = IF client[d] = NoTimer THEN "next" ELSE "stop"

(* MsgTimerExpire: the time is taken, and the top is popped, whatever its  *)
(* time.                                                                   *)
MsgExpire ==
  /\ Takes("expire")
  /\ IF heap = {} THEN UNCHANGED <<heap, msgVars>>
     ELSE /\ limit' = now
          /\ \E d \in Soonest(heap) : PopAndRead(d)
  /\ UNCHANGED <<now, clientVars, delegateVars, deleted, fdVars, ppc, stopped,
                 outcomes, crashed>>

(* Mutant of StopClient: the callback comes whether or not stop returned   *)
(* true.                                                                   *)
StopClientAnyway ==
  /\ mpc = "stop"
  /\ IF ~alive[caller]
     THEN crashed' = TRUE /\ UNCHANGED <<cur, client, queue, stopped, mpc>>
     ELSE /\ IF cur[caller] = NoDelegate
             THEN stopped' = firing /\ UNCHANGED <<cur, client, queue>>
             ELSE StopRunning(caller) /\ stopped' = cur[caller]
          /\ mpc' = "call"
          /\ UNCHANGED crashed
  /\ UNCHANGED <<now, alive, created, due, deleted, heap, fdVars, firing, caller,
                 limit, ppc, outcomes>>

(* ... client->stop(), which stops whatever start of the client is running *)
(* now ...                                                                 *)
StopClient ==
  /\ mpc = "stop"
  /\ IF ~alive[caller]
     THEN crashed' = TRUE /\ UNCHANGED <<cur, client, queue, stopped, mpc>>
     ELSE IF cur[caller] = NoDelegate
     THEN mpc' = "next" /\ UNCHANGED <<cur, client, queue, stopped, crashed>>
     ELSE /\ StopRunning(caller)
          /\ stopped' = cur[caller]
          /\ mpc' = "call"
          /\ UNCHANGED crashed
  /\ UNCHANGED <<now, alive, created, due, deleted, heap, fdVars, firing, caller,
                 limit, ppc, outcomes>>

(* ... and client->timeOutCallback().                                      *)
CallBack ==
  /\ mpc = "call"
  /\ IF ~alive[caller]
     THEN crashed' = TRUE /\ UNCHANGED <<outcomes, stopped, mpc>>
     ELSE /\ outcomes' = [outcomes EXCEPT ![stopped] = @ + 1]
          /\ stopped' = NoDelegate
          /\ mpc' = "next"
          /\ UNCHANGED crashed
  /\ UNCHANGED <<now, clientVars, delegateVars, deleted, heap, fdVars, queue,
                 firing, caller, limit, ppc>>

(* Mutant of NextExpired: no updateSoonestTime after the loop.             *)
NextExpiredUnarmed ==
  /\ mpc = "next"
  /\ LET ripe == {d \in Soonest(heap) : due[d] <= limit} IN
     IF ripe # {}
     THEN (\E d \in ripe : PopAndRead(d)) /\ UNCHANGED <<limit, polled>>
     ELSE /\ firing' = NoDelegate /\ caller' = NoTimer /\ mpc' = "idle"
          /\ limit' = 0
          /\ UNCHANGED <<heap, polled>>
  /\ UNCHANGED <<now, clientVars, delegateVars, deleted, fd, queue, ppc,
                 stopped, outcomes, crashed>>

(* The loop goes on with the top if its time has come (popIfOutRanks), and *)
(* otherwise ends.                                                         *)
NextExpired ==
  /\ mpc = "next"
  /\ LET ripe == {d \in Soonest(heap) : due[d] <= limit} IN
     IF ripe # {}
     THEN (\E d \in ripe : PopAndRead(d)) /\ UNCHANGED <<limit, polled>>
     ELSE /\ firing' = NoDelegate /\ caller' = NoTimer
          /\ UpdateSoonest(heap)
          /\ UNCHANGED heap
  /\ UNCHANGED <<now, clientVars, delegateVars, deleted, fd, queue, ppc,
                 stopped, outcomes, crashed>>

MsgStep ==
  \/ MsgPush
  \/ MsgRemove
  \/ MsgExpire
  \/ Arm
  \/ StopClient
  \/ CallBack
  \/ NextExpired

-----------------------------------------------------------------------------
(* The poll thread: epoll_wait returns, and LocTimerContainer::expire runs.*)

PollOnly(from, to) ==
  /\ ppc = from
  /\ ppc' = to
  /\ UNCHANGED <<now, clientVars, delegateVars, deleted, heap, msgVars, stopped,
                 outcomes, crashed>>

PollWakes ==
  /\ polled /\ fd # Disarmed /\ fd <= now
  /\ PollOnly("wait", "disarm")
  /\ UNCHANGED <<fdVars, queue>>

PollDisarms ==
  /\ PollOnly("disarm", "unpoll")
  /\ fd' = Disarmed
  /\ UNCHANGED <<polled, queue>>

PollRemoves ==
  /\ PollOnly("unpoll", "post")
  /\ polled' = FALSE
  /\ UNCHANGED <<fd, queue>>

PollPosts ==
  /\ PollOnly("post", "wait")
  /\ queue' = Append(queue, Expire)
  /\ UNCHANGED fdVars

PollStep ==
  \/ PollWakes
  \/ PollDisarms
  \/ PollRemoves
  \/ PollPosts

(* A process that used a deleted object does nothing defined any more. *)
Next ==
  /\ ~crashed
  /\ \/ Tick
     \/ \E t \in Timers, delay \in Delays : Start(t, delay)
     \/ \E t \in Timers : Stop(t)
     \/ \E t \in Timers : Delete(t)
     \/ MsgStep
     \/ PollStep

Spec == Init /\ [][Next]_vars

(* Time passes, and the service's threads run.  Nobody has to start, stop  *)
(* or delete a timer.                                                      *)
FairSpec ==
  /\ Spec
  /\ WF_vars(~crashed /\ Tick)
  /\ WF_vars(~crashed /\ MsgStep)
  /\ WF_vars(~crashed /\ PollStep)

-----------------------------------------------------------------------------
(* Properties.                                                             *)

Messages == [kind : {"push", "remove"}, timer : Delegates] \cup {Expire}

(* Every variable has its type. *)
TypeOK ==
  /\ now \in 1 .. MaxTime
  /\ alive \in [Timers -> BOOLEAN]
  /\ cur \in [Timers -> 0 .. created]
  /\ created \in 0 .. MaxStarts
  /\ client \in [Delegates -> Timers \cup {NoTimer}]
  /\ due \in [Delegates -> 0 .. MaxTime]
  /\ deleted \in SUBSET (1 .. created)
  /\ heap \in SUBSET (1 .. created)
  /\ fd \in 0 .. MaxTime
  /\ polled \in BOOLEAN
  /\ queue \in Seq(Messages)
  /\ mpc \in {"idle", "arm", "stop", "call", "next"}
  /\ firing \in 0 .. created
  /\ caller \in Timers \cup {NoTimer}
  /\ limit \in 0 .. MaxTime
  /\ ppc \in {"wait", "disarm", "unpoll", "post"}
  /\ stopped \in 0 .. created
  /\ outcomes \in [Delegates -> Nat]
  /\ crashed \in BOOLEAN

Queued(m) == \E i \in 1 .. Len(queue) : queue[i] = m
Times(m) == {i \in 1 .. Len(queue) : queue[i] = m}

(* When neither thread is at work on the container and no expiration is on *)
(* its way, the fd is polled and set to the time of the soonest timer:     *)
(* whatever order the two threads' calls on the fd had, no timer is left   *)
(* in the heap with nothing to wake it.                                    *)
SoonestIsArmed ==
  mpc = "idle" /\ ppc = "wait" /\ ~Queued(Expire) =>
    \A d \in Soonest(heap) : polled /\ fd = due[d]

(* A delegate is deleted once and not used afterwards: none in the heap,   *)
(* in the client or being fired is deleted, and no message is on its way   *)
(* to one; after its remove message nothing refers to it.                  *)
DeletedNotUsed ==
  /\ \A d \in deleted :
       /\ d \notin heap /\ firing # d /\ \A t \in Timers : cur[t] # d
       /\ ~Queued(Push(d)) /\ ~Queued(Remove(d))
  /\ \A d \in Delegates : \A i, j \in Times(Remove(d)) : i = j
  /\ \A d \in Delegates : Queued(Remove(d)) => \A t \in Timers : cur[t] # d

(* A delegate knows its client exactly while the client's start runs.      *)
ClientMirrorsTimer ==
  /\ \A d \in Delegates : client[d] # NoTimer => cur[client[d]] = d
  /\ \A t \in Timers : cur[t] # NoDelegate => client[cur[t]] = t

(* Each start ends once: with one successful stop or with one callback.    *)
(* While it runs, and while its callback is about to be called, it has not *)
(* ended.                                                                  *)
OneOutcome ==
  \A d \in Delegates :
    outcomes[d] = IF \/ d > created \/ stopped = d
                     \/ \E t \in Timers : cur[t] = d
                  THEN 0 ELSE 1

(* Every started timer expires, unless it is stopped first, or a callback  *)
(* uses a deleted timer before.                                            *)
TimersExpire ==
  \A t \in Timers : \A d \in Delegates : cur[t] = d ~> cur[t] # d \/ crashed

(* "pop everything in the heap that outRanks now, i.e. has time older than *)
(* now and then call expire() on that timer" (LocTimer.cpp:368-369): a     *)
(* timer that is popped and called back has reached its time.              *)
NoEarlyCallback ==
  mpc = "call" /\ stopped = firing => due[firing] <= now

(* "Nulling this handle so that expire() won't call the callback on the    *)
(* dead handle any more" (LocTimer.cpp:493-494): no deleted LocTimer is    *)
(* used.                                                                   *)
NoDeadHandle == ~crashed
=============================================================================
