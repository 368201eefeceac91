-------------------------------- MODULE Agps --------------------------------
(***************************************************************************)
(* Assisted-GPS data connections (gps/gnss/Agps.cpp): the modem asks for a *)
(* data connection under a handle of its own (ATL), AgpsManager hands the  *)
(* request to the state machine of the connection's type, and the machine  *)
(* shares one connection of the Android framework between its subscribers. *)
(*                                                                         *)
(* Everything in AgpsManager runs on the adapter's message thread: the QMI *)
(* thread (GnssAdapter::requestATL, releaseATL) and the HIDL threads       *)
(* (AGnss::dataConnOpen, dataConnFailed, dataConnClosed) only post         *)
(* messages.  The order in which their messages reach the FIFO queue, and  *)
(* the calls still on their way to the framework, are the concurrency.     *)
(*                                                                         *)
(* Configuration: agpsCapable, USE_EMERGENCY_PDN_FOR_EMERGENCY_SUPL = 0    *)
(* (emergency SUPL uses the AGNSS machine, and waits for the close), and   *)
(* the HIDL callback as the framework.  It takes requests of type SUPL     *)
(* only: what the INTERNET machine asks is dropped in AGnss.cpp, and all   *)
(* framework events are for the AGNSS machine.  The APN and the bearer     *)
(* are left out, and so is the order of the subscriber list: a machine     *)
(* notifies its subscribers one by one, each with a handle of its own.     *)
(***************************************************************************)
EXTENDS Naturals, Sequences

CONSTANTS
  Handles,     \* connection handles of the modem
  Types,       \* the types of connection it asks for
  MaxRestarts  \* bound on the restarts of the modem

AllTypes == {"SUPL", "SUPL_ES", "WWAN_ANY"}
ASSUME TypesAssumption == Types \subseteq AllTypes
ASSUME MaxRestartsAssumption == MaxRestarts \in Nat

Nifs == {"AGNSS", "INTERNET"}

VARIABLES
  sm,       \* sm[n]: mState and mSubscriberList of the machine n; waits and
            \* inactive hold the handles whose mWaitForCloseComplete and
            \* mIsInactive are set
  queue,    \* the adapter's message queue
  asked,    \* calls on their way to the framework
  conn,     \* the framework's SUPL connection
  modem,    \* modem[h]: what the modem knows of its handle h
  type,     \* type[h]: the type it asked for
  restarts

netVars == <<asked, conn>>
modemVars == <<modem, type, restarts>>
vars == <<sm, queue, netVars, modemVars>>

FrameworkEvents == {"opened", "failed", "closed"}
Messages ==
  [kind : {"requestATL"}, handle : Handles, type : Types]
    \cup [kind : {"releaseATL"}, handle : Handles]
    \cup [kind : FrameworkEvents]

Init ==
  /\ sm = [n \in Nifs |-> [state |-> "RELEASED", subs |-> {}, waits |-> {},
                           inactive |-> {}]]
  /\ queue = <<>>
  /\ asked = <<>> /\ conn = "closed"
  /\ modem = [h \in Handles |-> "unused"]
  /\ type = [h \in Handles |-> "SUPL"]
  /\ restarts = 0

-----------------------------------------------------------------------------
(* The modem's end of a handle: what it knows after a status.  A status    *)
(* that answers nothing it asked leaves it confused.  An open status may   *)
(* cross its close request, and a close request may cross the close status *)
(* of a connection the framework lost (the request is then refused).       *)
Hears(m, status) ==
  CASE status = "open"        /\ m = "opening"            -> "open"
    [] status = "openFailed"  /\ m = "opening"            -> "done"
    [] status \in {"open", "openFailed"} /\ m = "closing" -> "closing"
    [] status = "closed"      /\ m \in {"open", "closing"} -> "done"
    [] status = "closeFailed" /\ m \in {"closing", "done"} -> "done"
    [] OTHER                                              -> "confused"

(* mAtlOpenStatusCb and mAtlCloseStatusCb, for each handle of a set. *)
Notify(hs, status) ==
  modem' = [h \in Handles |->
              IF h \in hs THEN Hears(modem[h], status) ELSE modem[h]]

(* requestOrReleaseDataConn: a call to the framework.  AGnss::statusIpV4Cb *)
(* drops the types it does not know, WWAN_ANY among them.                  *)
CallFramework(n, what) ==
  asked' = IF n = "AGNSS" THEN Append(asked, what) ELSE asked

-----------------------------------------------------------------------------
(* AgpsStateMachine.                                                       *)

Active(s) == s.subs \ s.inactive

(* Mutant of Delete: the flags of a deleted subscriber stay.               *)
DeleteKeepsFlags(s, hs) == [s EXCEPT !.subs = @ \ hs]

Delete(s, hs) ==
  [s EXCEPT !.subs = @ \ hs, !.waits = @ \ hs, !.inactive = @ \ hs]

AddSubscriber(s, h, w) ==
  IF h \in s.subs THEN s
  ELSE [s EXCEPT !.subs = @ \cup {h}, !.waits = IF w THEN @ \cup {h} ELSE @]

Become(n, s, state) == sm' = [sm EXCEPT ![n] = [s EXCEPT !.state = state]]

(* The new subscriber joins the list.  The first one makes the machine ask *)
(* for the connection; with the connection up it is granted at once.       *)
Subscribe(n, h, w) ==
  LET s == sm[n]
      added == AddSubscriber(s, h, w)
  IN
  \/ /\ s.state = "RELEASED"
     /\ Become(n, added, "PENDING")
     /\ CallFramework(n, "REQUEST")
     /\ UNCHANGED modem
  \/ /\ s.state \in {"PENDING", "RELEASING"}
     /\ Become(n, added, s.state)
     /\ UNCHANGED <<asked, modem>>
  \/ /\ s.state = "ACQUIRED"
     /\ Become(n, added, "ACQUIRED")
     /\ Notify({h}, "open")
     /\ UNCHANGED asked

(* Mutants of Unsubscribe: mWaitForCloseComplete is not looked at; the     *)
(* subscriber that was notified stays in the list.                         *)
UnsubscribeAtOnce(n, h) ==
  LET left == Delete(sm[n], {h}) IN
  /\ Become(n, left, IF left.subs = {} THEN "RELEASED" ELSE
                     IF Active(left) = {} THEN "RELEASING" ELSE sm[n].state)
  /\ IF sm[n].state # "RELEASING" /\ Active(left) = {}
     THEN CallFramework(n, "RELEASE") ELSE UNCHANGED asked
  /\ Notify({h}, "closed")

UnsubscribeKeeps(n, h) ==
  /\ IF h \in sm[n].waits
     THEN sm' = [sm EXCEPT ![n].inactive = @ \cup {h}] /\ UNCHANGED modem
     ELSE Notify({h}, "closed") /\ UNCHANGED sm
  /\ UNCHANGED asked

(* A subscriber that waits for the close becomes inactive, any other is    *)
(* notified and leaves the list.  Without an active subscriber the machine *)
(* releases the connection, and does not stay for it if the list is empty. *)
Unsubscribe(n, h) ==
  LET s == sm[n]
      left == IF h \in s.waits THEN [s EXCEPT !.inactive = @ \cup {h}]
              ELSE Delete(s, {h})
      state == IF left.subs = {} THEN "RELEASED"
               ELSE IF Active(left) = {} THEN "RELEASING"
               ELSE s.state
  IN
  IF s.state = "RELEASED"
  THEN Notify({h}, "closed") /\ UNCHANGED <<sm, asked>>
  ELSE /\ Become(n, left, state)
       /\ IF s.state # "RELEASING" /\ Active(left) = {}
          THEN CallFramework(n, "RELEASE")
          ELSE UNCHANGED asked
       /\ Notify({h} \ left.subs, "closed")

Granted(n) ==
  LET s == sm[n] IN
  IF s.state = "PENDING"
  THEN /\ Become(n, s, "ACQUIRED")
       /\ Notify(Active(s), "open")
       /\ UNCHANGED asked
  ELSE UNCHANGED <<sm, asked, modem>>

(* Mutants of ReleaseEnds: those who came meanwhile are dropped; or the    *)
(* machine waits for a connection it has not asked for.                    *)
ReleaseEndsForAll(n) ==
  /\ Notify(sm[n].inactive, "closed")
  /\ Become(n, Delete(sm[n], sm[n].subs), "RELEASED")
  /\ UNCHANGED asked

ReleaseEndsSilently(n) ==
  LET left == Delete(sm[n], sm[n].inactive) IN
  /\ Notify(sm[n].inactive, "closed")
  /\ Become(n, left, IF Active(left) # {} THEN "PENDING" ELSE "RELEASED")
  /\ UNCHANGED asked

(* The end of RELEASING: the inactive subscribers have waited for this,    *)
(* the active ones came meanwhile and want the connection again.           *)
ReleaseEnds(n) ==
  LET s == sm[n]
      left == Delete(s, s.inactive)
  IN
  /\ Notify(s.inactive, "closed")
  /\ IF Active(left) # {}
     THEN Become(n, left, "PENDING") /\ CallFramework(n, "REQUEST")
     ELSE Become(n, left, "RELEASED") /\ UNCHANGED asked

(* All subscribers are notified and leave. *)
NotifyAllAndDelete(n, status) ==
  /\ Become(n, Delete(sm[n], sm[n].subs), "RELEASED")
  /\ Notify(sm[n].subs, status)
  /\ UNCHANGED asked

(* Mutant of Released: a lost connection is not told to the subscribers.   *)
ReleasedUntold(n) ==
  CASE sm[n].state = "ACQUIRED"  -> /\ Become(n, sm[n], "PENDING")
                                    /\ CallFramework(n, "REQUEST")
                                    /\ UNCHANGED modem
    [] sm[n].state = "RELEASING" -> ReleaseEnds(n)
    [] OTHER                     -> UNCHANGED <<sm, asked, modem>>

Released(n) ==
  CASE sm[n].state = "ACQUIRED"  -> NotifyAllAndDelete(n, "closed")
    [] sm[n].state = "RELEASING" -> ReleaseEnds(n)
    [] OTHER                     -> UNCHANGED <<sm, asked, modem>>

(* Mutant of Denied: the subscribers are told and stay in the list.        *)
DeniedKeeps(n) ==
  CASE sm[n].state = "PENDING"   -> /\ Become(n, sm[n], "RELEASED")
                                    /\ Notify(sm[n].subs, "openFailed")
                                    /\ UNCHANGED asked
    [] sm[n].state = "RELEASING" -> ReleaseEnds(n)
    [] OTHER                     -> UNCHANGED <<sm, asked, modem>>

Denied(n) ==
  CASE sm[n].state = "PENDING"   -> NotifyAllAndDelete(n, "openFailed")
    [] sm[n].state = "RELEASING" -> ReleaseEnds(n)
    [] OTHER                     -> UNCHANGED <<sm, asked, modem>>

-----------------------------------------------------------------------------
(* AgpsManager, on the adapter's thread.                                   *)

(* getAgpsStateMachine *)
NifOf(t) == IF t = "WWAN_ANY" THEN "INTERNET" ELSE "AGNSS"

RequestATL(m) ==
  /\ m.kind = "requestATL"
  /\ Subscribe(NifOf(m.type), m.handle, m.type = "SUPL_ES")

(* Mutant of ReleaseATL: a handle without a subscriber is not answered.    *)
ReleaseATLSilently(m) ==
  /\ m.kind = "releaseATL"
  /\ IF m.handle \in sm["AGNSS"].subs THEN Unsubscribe("AGNSS", m.handle)
     ELSE IF m.handle \in sm["INTERNET"].subs
     THEN Unsubscribe("INTERNET", m.handle)
     ELSE UNCHANGED <<sm, asked, modem>>

(* The machines are searched in this order; a handle that has no           *)
(* subscriber any more is told that the close failed.                      *)
ReleaseATL(m) ==
  /\ m.kind = "releaseATL"
  /\ \/ /\ m.handle \in sm["AGNSS"].subs
        /\ Unsubscribe("AGNSS", m.handle)
     \/ /\ m.handle \in sm["INTERNET"].subs \ sm["AGNSS"].subs
        /\ Unsubscribe("INTERNET", m.handle)
     \/ /\ m.handle \notin sm["INTERNET"].subs \cup sm["AGNSS"].subs
        /\ Notify({m.handle}, "closeFailed")
        /\ UNCHANGED <<sm, asked>>

(* reportAtlOpenSuccess, reportAtlOpenFailed, reportAtlClosed *)
ReportAtl(m) ==
  \/ m.kind = "opened" /\ Granted("AGNSS")
  \/ m.kind = "failed" /\ Denied("AGNSS")
  \/ m.kind = "closed" /\ Released("AGNSS")

(* The adapter's thread takes the oldest message and processes it. *)
ProcessMsg ==
  /\ queue # <<>>
  /\ queue' = Tail(queue)
  /\ \/ RequestATL(Head(queue))
     \/ ReleaseATL(Head(queue))
     \/ ReportAtl(Head(queue))
  /\ UNCHANGED <<conn, type, restarts>>

-----------------------------------------------------------------------------
(* The modem (external).  It uses a handle once between two restarts, and  *)
(* may close one before its open request is answered.  reportAtlRequest    *)
(* maps the WWAN type and posts the message.                               *)
ModemOpens(h, t) ==
  /\ modem[h] = "unused"
  /\ modem' = [modem EXCEPT ![h] = "opening"]
  /\ type' = [type EXCEPT ![h] = t]
  /\ queue' = Append(queue, [kind |-> "requestATL", handle |-> h, type |-> t])
  /\ UNCHANGED <<sm, netVars, restarts>>

ModemCloses(h) ==
  /\ modem[h] \in {"opening", "open"}
  /\ modem' = [modem EXCEPT ![h] = "closing"]
  /\ queue' = Append(queue, [kind |-> "releaseATL", handle |-> h])
  /\ UNCHANGED <<sm, netVars, type, restarts>>

(* The modem restarts and has forgotten its handles.  handleEngineUpEvent  *)
(* restores the configuration and the tracking sessions, and leaves the    *)
(* AgpsManager as it is.                                                   *)
ModemRestarts ==
  /\ restarts < MaxRestarts
  /\ restarts' = restarts + 1
  /\ modem' = [h \in Handles |-> "unused"]
  /\ UNCHANGED <<sm, queue, netVars, type>>

(* The Android framework (external): it takes the calls in order, answers  *)
(* a request with open or failed unless a release comes first, answers the *)
(* release of a connection that is not closed, and may lose the connection.*)
Post(event) == queue' = Append(queue, [kind |-> event])

FrameworkTakesCall ==
  /\ asked # <<>>
  /\ asked' = Tail(asked)
  /\ IF Head(asked) = "REQUEST"
     THEN conn' = "opening" /\ UNCHANGED queue
     ELSE /\ conn' = "closed"
          /\ IF conn = "closed" THEN UNCHANGED queue ELSE Post("closed")
  /\ UNCHANGED <<sm, modemVars>>

FrameworkAnswers(event) ==
  /\ conn = "opening"
  /\ conn' = IF event = "opened" THEN "open" ELSE "closed"
  /\ Post(event)
  /\ UNCHANGED <<sm, asked, modemVars>>

FrameworkLosesConnection ==
  /\ conn = "open"
  /\ conn' = "closed"
  /\ Post("closed")
  /\ UNCHANGED <<sm, asked, modemVars>>

FrameworkStep ==
  \/ FrameworkTakesCall
  \/ \E e \in {"opened", "failed"} : FrameworkAnswers(e)

Next ==
  \/ ProcessMsg
  \/ FrameworkStep
  \/ FrameworkLosesConnection
  \/ \E h \in Handles, t \in Types : ModemOpens(h, t)
  \/ \E h \in Handles : ModemCloses(h)
  \/ ModemRestarts

Spec == Init /\ [][Next]_vars

(* MsgTask's loop takes message after message, and the framework handles   *)
(* its calls and ends an attempt to connect one way or the other.  Nothing *)
(* obliges the modem, or the framework to lose a connection.               *)
FairSpec == Spec /\ WF_vars(ProcessMsg) /\ WF_vars(FrameworkStep)

-----------------------------------------------------------------------------
(* Properties.                                                             *)

States == {"RELEASED", "PENDING", "ACQUIRED", "RELEASING"}
Machines ==
  {s \in [state : States, subs : SUBSET Handles, waits : SUBSET Handles,
          inactive : SUBSET Handles] :
     s.inactive \subseteq s.waits /\ s.waits \subseteq s.subs}

(* Every variable has its type; only a subscriber waits for a close, and   *)
(* only one that waits is inactive.                                        *)
TypeOK ==
  /\ sm \in [Nifs -> Machines]
  /\ queue \in Seq(Messages)
  /\ asked \in Seq({"REQUEST", "RELEASE"})
  /\ conn \in {"closed", "opening", "open"}
  /\ modem \in [Handles -> {"unused", "opening", "open", "closing", "done",
                            "confused"}]
  /\ type \in [Handles -> AllTypes]
  /\ restarts \in 0 .. MaxRestarts

(* A machine's state agrees with its list, whatever the order of events:   *)
(* nobody is left in the list of a released machine, the connection is     *)
(* wanted or held for an active subscriber, and a machine that waits for   *)
(* the close does so for somebody who waits for it too.                    *)
StateMatchesSubscribers ==
  \A n \in Nifs :
    /\ sm[n].state = "RELEASED" => sm[n].subs = {}
    /\ sm[n].state \in {"PENDING", "ACQUIRED"} => Active(sm[n]) # {}
    /\ sm[n].state = "RELEASING" => sm[n].inactive # {}

(* A subscriber stands for a handle the modem still uses. *)
SubscriberInUse ==
  \A n \in Nifs : \A h \in sm[n].subs : modem[h] \in {"opening", "open", "closing"}

(* While the modem takes its handle for open, the machine holds the        *)
(* connection for it, so that no grant outlives a close, a loss or a       *)
(* denial, and no subscriber outlives the modem's use of its handle.       *)
OpenHandleIsHeld ==
  restarts = 0 =>
    /\ SubscriberInUse
    /\ \A h \in Handles : modem[h] = "open" =>
         \E n \in Nifs : sm[n].state = "ACQUIRED" /\ h \in Active(sm[n])

(* The modem hears no status it did not ask for: no second answer to an    *)
(* open request, none after the handle's end.                              *)
NoSpuriousStatus ==
  restarts = 0 => \A h \in Handles : modem[h] # "confused"

Queued(kind, h) ==
  \E i \in 1 .. Len(queue) : queue[i].kind = kind /\ queue[i].handle = h

(* An open request is never forgotten: until it is answered its message is *)
(* queued, or its subscriber is active in a machine that still expects the *)
(* connection.                                                             *)
OpeningIsPending ==
  restarts = 0 =>
    \A h \in Handles : modem[h] = "opening" =>
      \/ Queued("requestATL", h)
      \/ \E n \in Nifs : /\ sm[n].state \in {"PENDING", "RELEASING"}
                         /\ h \in Active(sm[n])

(* A subscriber that waits for the close leaves the list only with an      *)
(* event of the framework, however many others come and go.                *)
WaitsForClose ==
  [][\A n \in Nifs : \A h \in sm[n].waits :
       h \notin sm'[n].subs => /\ queue # <<>>
                               /\ Head(queue).kind \in {"failed", "closed"}]_vars

(* Every open request for a SUPL connection is answered, unless the modem  *)
(* closes it first.  Those for the INTERNET machine never are: the HIDL    *)
(* layer does not pass their type on.                                      *)
OpensAnswered ==
  \A h \in Handles :
    modem[h] = "opening" /\ type[h] # "WWAN_ANY" ~> modem[h] # "opening"

(* Every close request of a subscriber that does not wait for the close is *)
(* answered.                                                               *)
PlainClosesAnswered ==
  \A h \in Handles :
    modem[h] = "closing" /\ type[h] # "SUPL_ES" ~> modem[h] # "closing"

(* "Does this subscriber wait for data call close complete, before being   *)
(* notified ATL close ?" (Agps.h:106-107): a close request is not          *)
(* forgotten: until it is answered its message is queued, or its           *)
(* subscriber is inactive in a machine.                                    *)
ClosingIsPending ==
  restarts = 0 =>
    \A h \in Handles : modem[h] = "closing" =>
      \/ Queued("releaseATL", h)
      \/ \E n \in Nifs : h \in sm[n].inactive

(* A subscriber whose handle the modem forgot when it restarted. *)
Stale(h) == modem[h] = "unused" /\ \E n \in Nifs : h \in sm[n].subs

(* "Drop all subscribers, in case of Modem SSR" (Agps.h:190): once the     *)
(* messages of the restart and those before it are handled, a stale        *)
(* subscriber is dropped, or the modem uses its handle again.              *)
RestartDropsSubscribers == \A h \in Handles : Stale(h) ~> ~Stale(h)
=============================================================================
