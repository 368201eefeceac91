----------------------------- MODULE AgpsProofs -----------------------------
(***************************************************************************)
(* Proofs about Agps, for any set of handles of the modem, any number of   *)
(* its restarts and any order of messages: the variables keep their types, *)
(* a machine's state agrees with its subscribers, and a subscriber that    *)
(* waits for the close stays until the framework reports one.  And what    *)
(* the modem is told of its handles until it restarts: an open handle has  *)
(* its connection, an open request is pending or answered, once.           *)
(*                                                                         *)
(* TypeOK and StateMatchesSubscribers are inductive together, and need     *)
(* nothing of the queue: whatever event comes next, each handler leaves    *)
(* the machine in a fitting state (MachineFits).  HandlesFit is inductive  *)
(* on top of that; it says of each handle which messages are queued for    *)
(* it, and in whose list it is, for each thing the modem may know of it.   *)
(***************************************************************************)
EXTENDS Agps, TLAPS

Inv == TypeOK /\ StateMatchesSubscribers

(* A machine s would be right to be in this state.                         *)
Fits(s, state) ==
  /\ state \in States
  /\ state = "RELEASED" => s.subs = {}
  /\ state \in {"PENDING", "ACQUIRED"} => Active(s) # {}
  /\ state = "RELEASING" => s.inactive # {}

(* What a handler changes is of its type, and fits.                        *)
HandledOK ==
  /\ sm' \in [Nifs -> Machines]
  /\ StateMatchesSubscribers'
  /\ asked' \in Seq({"REQUEST", "RELEASE"})
  /\ modem' \in [Handles -> {"unused", "opening", "open", "closing", "done",
                             "confused"}]

(* Deleting subscribers deletes their flags.                               *)
LEMMA DeleteFacts ==
  ASSUME NEW s \in Machines, NEW hs
  PROVE  /\ Delete(s, hs) \in Machines
         /\ Delete(s, hs).subs = s.subs \ hs
         /\ Delete(s, hs).waits = s.waits \ hs
         /\ Delete(s, hs).inactive = s.inactive \ hs
         /\ Delete(s, hs).state = s.state
BY DEF Delete, Machines

(* Adding a subscriber makes it active, unless it was in the list.         *)
LEMMA AddSubscriberFacts ==
  ASSUME NEW s \in Machines, NEW h \in Handles, NEW w \in BOOLEAN
  PROVE  /\ AddSubscriber(s, h, w) \in Machines
         /\ AddSubscriber(s, h, w).subs = s.subs \cup {h}
         /\ AddSubscriber(s, h, w).inactive = s.inactive
         /\ s.waits \subseteq AddSubscriber(s, h, w).waits
         /\ AddSubscriber(s, h, w).state = s.state
BY DEF AddSubscriber, Machines

(* A machine that moves to a state that fits keeps the invariant.          *)
LEMMA BecomeFits ==
  ASSUME Inv, NEW n \in Nifs, NEW s \in Machines, NEW state, Fits(s, state),
         Become(n, s, state)
  PROVE  sm' \in [Nifs -> Machines] /\ StateMatchesSubscribers'
<1> DEFINE t == [s EXCEPT !.state = state]
<1>1. /\ t \in Machines /\ t.state = state /\ t.subs = s.subs
      /\ t.inactive = s.inactive
  BY DEF Machines, Fits
<1>2. sm \in [Nifs -> Machines] /\ sm' = [sm EXCEPT ![n] = t]
  BY DEF Inv, TypeOK, Become
<1> HIDE DEF t
<1>3. sm' \in [Nifs -> Machines]
  BY <1>1, <1>2
<1>4. ASSUME NEW m \in Nifs
      PROVE  /\ sm'[m].state = "RELEASED" => sm'[m].subs = {}
             /\ sm'[m].state \in {"PENDING", "ACQUIRED"} => Active(sm'[m]) # {}
             /\ sm'[m].state = "RELEASING" => sm'[m].inactive # {}
  <2>1. CASE m = n
    BY <1>1, <1>2, <2>1 DEF Fits, Active
  <2>2. CASE m # n
    BY <1>2, <2>2 DEF Inv, StateMatchesSubscribers, Active
  <2>3. QED
    BY <2>1, <2>2
<1>5. QED
  BY <1>3, <1>4 DEF StateMatchesSubscribers, Active

(* A status leaves each handle in a state of the modem.                    *)
LEMMA NotifyType ==
  ASSUME Inv, NEW hs, NEW status, Notify(hs, status)
  PROVE  modem' \in [Handles -> {"unused", "opening", "open", "closing", "done",
                                 "confused"}]
<1>1. ASSUME NEW m
      PROVE  Hears(m, status) \in {"open", "closing", "done", "confused"}
  BY DEF Hears
<1>2. QED
  BY <1>1 DEF Inv, TypeOK, Notify

(* A call keeps the type of the calls.                                     *)
LEMMA CallType ==
  ASSUME Inv, NEW n, NEW what \in {"REQUEST", "RELEASE"},
         CallFramework(n, what)
  PROVE  asked' \in Seq({"REQUEST", "RELEASE"})
BY DEF Inv, TypeOK, CallFramework

(* A handler that changes nothing is right.                                *)
LEMMA NothingHandled ==
  ASSUME Inv, UNCHANGED <<sm, asked, modem>>
  PROVE  HandledOK
BY DEF Inv, TypeOK, HandledOK, StateMatchesSubscribers, Active

(* What the invariant says of one machine.                                 *)
LEMMA MachineFits ==
  ASSUME Inv, NEW n \in Nifs
  PROVE  /\ sm[n] \in Machines
         /\ Fits(sm[n], sm[n].state)
         /\ sm[n].subs \subseteq Handles /\ sm[n].waits \subseteq sm[n].subs
         /\ sm[n].inactive \subseteq sm[n].waits
BY DEF Inv, TypeOK, StateMatchesSubscribers, Fits, Machines

-----------------------------------------------------------------------------
(* A new subscriber.                                                       *)
LEMMA SubscribePreserves ==
  ASSUME Inv, NEW n \in Nifs, NEW h \in Handles, NEW w \in BOOLEAN,
         Subscribe(n, h, w)
  PROVE  HandledOK
<1> DEFINE added == AddSubscriber(sm[n], h, w)
<1>1. sm[n] \in Machines /\ Fits(sm[n], sm[n].state)
  BY MachineFits
<1>2. /\ added \in Machines /\ added.subs = sm[n].subs \cup {h}
      /\ added.inactive = sm[n].inactive /\ sm[n].inactive \subseteq sm[n].subs
  BY <1>1, AddSubscriberFacts, MachineFits
<1> HIDE DEF added
<1>3. CASE sm[n].state = "RELEASED"
  <2>1. /\ Become(n, added, "PENDING") /\ CallFramework(n, "REQUEST")
        /\ UNCHANGED modem
    BY <1>3 DEF Subscribe, added
  <2>2. Fits(added, "PENDING")
    BY <1>1, <1>2, <1>3 DEF Fits, Active, States
  <2>3. QED
    BY <1>2, <2>1, <2>2, BecomeFits, CallType DEF HandledOK, Inv, TypeOK
<1>4. CASE sm[n].state \in {"PENDING", "RELEASING"}
  <2>1. Become(n, added, sm[n].state) /\ UNCHANGED <<asked, modem>>
    BY <1>4 DEF Subscribe, added
  <2>2. Fits(added, sm[n].state)
    BY <1>1, <1>2, <1>4 DEF Fits, Active
  <2>3. QED
    BY <1>2, <2>1, <2>2, BecomeFits DEF HandledOK, Inv, TypeOK
<1>5. CASE sm[n].state = "ACQUIRED"
  <2>1. Become(n, added, "ACQUIRED") /\ Notify({h}, "open") /\ UNCHANGED asked
    BY <1>5 DEF Subscribe, added
  <2>2. Fits(added, "ACQUIRED")
    BY <1>1, <1>2, <1>5 DEF Fits, Active, States
  <2>3. QED
    BY <1>2, <2>1, <2>2, BecomeFits, NotifyType DEF HandledOK, Inv, TypeOK
<1>6. QED
  BY <1>1, <1>3, <1>4, <1>5 DEF Fits, States

(* A subscriber leaves, or waits for the close.                            *)
LEMMA UnsubscribePreserves ==
  ASSUME Inv, NEW n \in Nifs, NEW h \in sm[n].subs, Unsubscribe(n, h)
  PROVE  HandledOK
<1> DEFINE left == IF h \in sm[n].waits
                   THEN [sm[n] EXCEPT !.inactive = @ \cup {h}]
                   ELSE Delete(sm[n], {h})
           state == IF left.subs = {} THEN "RELEASED"
                    ELSE IF Active(left) = {} THEN "RELEASING"
                    ELSE sm[n].state
<1>1. sm[n] \in Machines /\ Fits(sm[n], sm[n].state) /\ sm[n].state # "RELEASED"
  BY MachineFits DEF Fits
<1>2. left \in Machines
  <2>1. CASE h \in sm[n].waits
    BY <1>1, <2>1 DEF Machines
  <2>2. CASE h \notin sm[n].waits
    BY <1>1, <2>2, DeleteFacts
  <2>3. QED
    BY <2>1, <2>2
<1>3. sm[n].state = "RELEASING" => left.inactive # {}
  <2>1. CASE h \in sm[n].waits
    BY <1>1, <2>1 DEF Machines
  <2>2. CASE h \notin sm[n].waits
    BY <1>1, <2>2, DeleteFacts, MachineFits DEF Fits
  <2>3. QED
    BY <2>1, <2>2
<1>4. /\ Become(n, left, state)
      /\ IF sm[n].state # "RELEASING" /\ Active(left) = {}
         THEN CallFramework(n, "RELEASE") ELSE UNCHANGED asked
      /\ Notify({h} \ left.subs, "closed")
  BY <1>1 DEF Unsubscribe
<1> HIDE DEF left
<1>5. Fits(left, state)
  <2>1. CASE left.subs = {}
    BY <2>1 DEF Fits, States
  <2>2. CASE left.subs # {} /\ Active(left) = {}
    BY <2>2 DEF Fits, States, Active
  <2>3. CASE left.subs # {} /\ Active(left) # {}
    BY <1>1, <1>3, <2>3 DEF Fits, States
  <2>4. QED
    BY <2>1, <2>2, <2>3
<1> HIDE DEF state
<1>6. asked' \in Seq({"REQUEST", "RELEASE"})
  BY <1>4, CallType DEF Inv, TypeOK
<1>7. QED
  BY <1>2, <1>4, <1>5, <1>6, BecomeFits, NotifyType DEF HandledOK

(* The connection is up.                                                   *)
LEMMA GrantedPreserves ==
  ASSUME Inv, NEW n \in Nifs, Granted(n)
  PROVE  HandledOK
<1>1. sm[n] \in Machines /\ Fits(sm[n], sm[n].state)
  BY MachineFits
<1>2. CASE sm[n].state = "PENDING"
  <2>1. /\ Become(n, sm[n], "ACQUIRED") /\ UNCHANGED asked
        /\ Notify(Active(sm[n]), "open")
    BY <1>2 DEF Granted
  <2>2. Fits(sm[n], "ACQUIRED")
    BY <1>1, <1>2 DEF Fits, States
  <2>3. QED
    BY <1>1, <2>1, <2>2, BecomeFits, NotifyType DEF HandledOK, Inv, TypeOK
<1>3. CASE sm[n].state # "PENDING"
  BY <1>3, NothingHandled DEF Granted
<1>4. QED
  BY <1>2, <1>3

(* RELEASING ends.                                                         *)
LEMMA ReleaseEndsPreserves ==
  ASSUME Inv, NEW n \in Nifs, ReleaseEnds(n)
  PROVE  HandledOK
<1> DEFINE left == Delete(sm[n], sm[n].inactive)
<1>1. left \in Machines /\ left.inactive = {}
  BY MachineFits, DeleteFacts
<1>2. /\ Notify(sm[n].inactive, "closed")
      /\ IF Active(left) # {}
         THEN Become(n, left, "PENDING") /\ CallFramework(n, "REQUEST")
         ELSE Become(n, left, "RELEASED") /\ UNCHANGED asked
  BY DEF ReleaseEnds
<1> HIDE DEF left
<1>3. CASE Active(left) # {}
  <2>1. Fits(left, "PENDING")
    BY <1>3 DEF Fits, States
  <2>2. QED
    BY <1>1, <1>2, <1>3, <2>1, BecomeFits, CallType, NotifyType DEF HandledOK
<1>4. CASE Active(left) = {}
  <2>1. Fits(left, "RELEASED")
    BY <1>1, <1>4 DEF Fits, States, Active
  <2>2. QED
    BY <1>1, <1>2, <1>4, <2>1, BecomeFits, NotifyType
       DEF HandledOK, Inv, TypeOK
<1>5. QED
  BY <1>3, <1>4

(* Everybody leaves.                                                       *)
LEMMA NotifyAllPreserves ==
  ASSUME Inv, NEW n \in Nifs, NEW status, NotifyAllAndDelete(n, status)
  PROVE  HandledOK
<1> DEFINE left == Delete(sm[n], sm[n].subs)
<1>1. left \in Machines /\ left.subs = {}
  BY MachineFits, DeleteFacts
<1>2. /\ Become(n, left, "RELEASED") /\ Notify(sm[n].subs, status)
      /\ UNCHANGED asked
  BY DEF NotifyAllAndDelete
<1> HIDE DEF left
<1>3. Fits(left, "RELEASED")
  BY <1>1 DEF Fits, States
<1>4. QED
  BY <1>1, <1>2, <1>3, BecomeFits, NotifyType DEF HandledOK, Inv, TypeOK

(* The connection is down.                                                 *)
LEMMA ReleasedPreserves ==
  ASSUME Inv, NEW n \in Nifs, Released(n)
  PROVE  HandledOK
<1>1. \/ NotifyAllAndDelete(n, "closed") \/ ReleaseEnds(n)
      \/ UNCHANGED <<sm, asked, modem>>
  BY DEF Released
<1>2. QED
  BY <1>1, NotifyAllPreserves, ReleaseEndsPreserves, NothingHandled

(* The connection could not be set up, or not be closed.                   *)
LEMMA DeniedPreserves ==
  ASSUME Inv, NEW n \in Nifs, Denied(n)
  PROVE  HandledOK
<1>1. \/ NotifyAllAndDelete(n, "openFailed") \/ ReleaseEnds(n)
      \/ UNCHANGED <<sm, asked, modem>>
  BY DEF Denied
<1>2. QED
  BY <1>1, NotifyAllPreserves, ReleaseEndsPreserves, NothingHandled

-----------------------------------------------------------------------------
(* The adapter's thread processes a message.                               *)
LEMMA ProcessMsgPreserves ==
  ASSUME Inv, ProcessMsg
  PROVE  Inv'
<1> DEFINE m == Head(queue)
<1>1. m \in Messages /\ queue' \in Seq(Messages)
  BY DEF Inv, TypeOK, ProcessMsg
<1>2. "AGNSS" \in Nifs /\ "INTERNET" \in Nifs
  BY DEF Nifs
<1>3. CASE RequestATL(m)
  <2>1. m.handle \in Handles /\ (m.type = "SUPL_ES") \in BOOLEAN
    BY <1>1, <1>3 DEF RequestATL, Messages, FrameworkEvents
  <2>2. NifOf(m.type) \in Nifs
    BY DEF NifOf, Nifs
  <2>3. Subscribe(NifOf(m.type), m.handle, m.type = "SUPL_ES")
    BY <1>3 DEF RequestATL
  <2>4. HandledOK
    BY <2>1, <2>2, <2>3, SubscribePreserves
  <2>5. QED
    BY <1>1, <2>4 DEF HandledOK, ProcessMsg, Inv, TypeOK
<1>4. CASE ReleaseATL(m)
  <2>1. HandledOK
    <3>1. CASE m.handle \in sm["AGNSS"].subs /\ Unsubscribe("AGNSS", m.handle)
      BY <1>2, <3>1, UnsubscribePreserves
    <3>2. CASE /\ m.handle \in sm["INTERNET"].subs
               /\ Unsubscribe("INTERNET", m.handle)
      BY <1>2, <3>2, UnsubscribePreserves
    <3>3. CASE Notify({m.handle}, "closeFailed") /\ UNCHANGED <<sm, asked>>
      BY <3>3, NotifyType
         DEF HandledOK, Inv, TypeOK, StateMatchesSubscribers, Active
    <3>4. QED
      BY <1>4, <3>1, <3>2, <3>3 DEF ReleaseATL
  <2>2. QED
    BY <1>1, <2>1 DEF HandledOK, ProcessMsg, Inv, TypeOK
<1>5. CASE ReportAtl(m)
  <2>1. HandledOK
    BY <1>2, <1>5, GrantedPreserves, DeniedPreserves, ReleasedPreserves
       DEF ReportAtl
  <2>2. QED
    BY <1>1, <2>1 DEF HandledOK, ProcessMsg, Inv, TypeOK
<1>6. QED
  BY <1>3, <1>4, <1>5 DEF ProcessMsg

(* The steps of the modem and of the framework leave the machines alone.   *)
LEMMA EnvironmentPreserves ==
  ASSUME Inv,
         \/ FrameworkStep \/ FrameworkLosesConnection \/ ModemRestarts
         \/ \E h \in Handles, t \in Types : ModemOpens(h, t)
         \/ \E h \in Handles : ModemCloses(h)
         \/ UNCHANGED vars
  PROVE  Inv'
<1> USE TypesAssumption, MaxRestartsAssumption
<1>1. UNCHANGED sm
  BY DEF FrameworkStep, FrameworkTakesCall, FrameworkAnswers, ModemRestarts,
         FrameworkLosesConnection, ModemOpens, ModemCloses, vars
<1>2. StateMatchesSubscribers' /\ sm' \in [Nifs -> Machines]
  BY <1>1 DEF Inv, TypeOK, StateMatchesSubscribers, Active
<1>3. CASE FrameworkTakesCall
  <2>1. asked' \in Seq({"REQUEST", "RELEASE"})
    BY <1>3 DEF Inv, TypeOK, FrameworkTakesCall
  <2>2. queue' \in Seq(Messages)
    <3>1. [kind |-> "closed"] \in Messages /\ queue \in Seq(Messages)
      BY DEF Inv, TypeOK, Messages, FrameworkEvents
    <3>2. queue' = queue \/ queue' = Append(queue, [kind |-> "closed"])
      BY <1>3 DEF FrameworkTakesCall, Post
    <3>3. QED
      BY <3>1, <3>2
  <2>3. QED
    BY <1>2, <1>3, <2>1, <2>2 DEF Inv, TypeOK, FrameworkTakesCall, modemVars
<1>4. CASE \E e \in {"opened", "failed"} : FrameworkAnswers(e)
  <2>1. queue' \in Seq(Messages)
    BY <1>4 DEF Inv, TypeOK, FrameworkAnswers, Post, Messages, FrameworkEvents
  <2>2. QED
    BY <1>2, <1>4, <2>1 DEF Inv, TypeOK, FrameworkAnswers, modemVars
<1>5. CASE FrameworkLosesConnection
  <2>1. queue' \in Seq(Messages)
    BY <1>5 DEF Inv, TypeOK, FrameworkLosesConnection, Post, Messages,
                FrameworkEvents
  <2>2. QED
    BY <1>2, <1>5, <2>1 DEF Inv, TypeOK, FrameworkLosesConnection, modemVars
<1>6. CASE ModemRestarts
  BY <1>2, <1>6 DEF Inv, TypeOK, ModemRestarts, netVars
<1>7. ASSUME NEW h \in Handles, NEW t \in Types, ModemOpens(h, t)
      PROVE  Inv'
  <2>1. [kind |-> "requestATL", handle |-> h, type |-> t] \in Messages
    BY DEF Messages
  <2>2. queue' \in Seq(Messages)
    BY <1>7, <2>1 DEF Inv, TypeOK, ModemOpens
  <2>3. QED
    BY <1>2, <1>7, <2>2 DEF Inv, TypeOK, ModemOpens, netVars
<1>8. ASSUME NEW h \in Handles, ModemCloses(h)
      PROVE  Inv'
  <2>1. [kind |-> "releaseATL", handle |-> h] \in Messages
    BY DEF Messages
  <2>2. queue' \in Seq(Messages)
    BY <1>8, <2>1 DEF Inv, TypeOK, ModemCloses
  <2>3. QED
    BY <1>2, <1>8, <2>2 DEF Inv, TypeOK, ModemCloses, netVars
<1>9. CASE UNCHANGED vars
  BY <1>2, <1>9 DEF Inv, TypeOK, vars, netVars, modemVars
<1>10. QED
  BY <1>3, <1>4, <1>5, <1>6, <1>7, <1>8, <1>9 DEF FrameworkStep

(* The invariant holds in every reachable state.                           *)
THEOREM InvHolds == Spec => []Inv
<1>1. Init => Inv
  <2> SUFFICES ASSUME Init
               PROVE  Inv
    OBVIOUS
  <2>1. sm \in [Nifs -> Machines]
    BY DEF Init, Machines, States
  <2>2. StateMatchesSubscribers
    BY DEF Init, StateMatchesSubscribers
  <2>3. QED
    BY <2>1, <2>2, MaxRestartsAssumption DEF Init, Inv, TypeOK, AllTypes
<1>2. Inv /\ [Next]_vars => Inv'
  BY ProcessMsgPreserves, EnvironmentPreserves DEF Next
<1>3. QED
  BY <1>1, <1>2, PTL DEF Spec

(* For any handles: every variable of the AGPS manager, its queue and its  *)
(* environment keeps its type, and only subscribers are flagged.           *)
THEOREM TypeCorrect == Spec => []TypeOK
<1>1. Inv => TypeOK
  BY DEF Inv
<1>2. QED
  BY <1>1, InvHolds, PTL

(* For any handles and any order of events: a released machine has nobody  *)
(* in its list, and a connection is wanted or held for somebody.           *)
THEOREM StatesMatch == Spec => []StateMatchesSubscribers
<1>1. Inv => StateMatchesSubscribers
  BY DEF Inv
<1>2. QED
  BY <1>1, InvHolds, PTL

-----------------------------------------------------------------------------
(* Waiting for the close.                                                  *)

(* A step that may let go of a waiting subscriber is one of the framework. *)
WaitersStay ==
  \A n \in Nifs : \A h \in sm[n].waits :
    h \notin sm'[n].subs => /\ queue # <<>>
                            /\ Head(queue).kind \in {"failed", "closed"}

(* Machines other than the one that moves keep their lists.                *)
LEMMA BecomeKeeps ==
  ASSUME Inv, NEW n \in Nifs, NEW s \in Machines, NEW state,
         Become(n, s, state), sm[n].waits \subseteq s.subs
  PROVE  WaitersStay
<1>1. ASSUME NEW m \in Nifs
      PROVE  sm[m].waits \subseteq sm'[m].subs
  <2>1. sm' = [sm EXCEPT ![n] = [s EXCEPT !.state = state]]
        /\ sm \in [Nifs -> Machines]
    BY DEF Become, Inv, TypeOK
  <2>2. [s EXCEPT !.state = state].subs = s.subs
    BY DEF Machines
  <2>3. sm[m].waits \subseteq sm[m].subs
    BY MachineFits
  <2>4. QED
    BY <2>1, <2>2, <2>3
<1>2. QED
  BY <1>1 DEF WaitersStay

(* A new subscriber drives nobody out.                                     *)
LEMMA SubscribeKeeps ==
  ASSUME Inv, NEW n \in Nifs, NEW h \in Handles, NEW w \in BOOLEAN,
         Subscribe(n, h, w)
  PROVE  WaitersStay
<1>1. sm[n] \in Machines /\ sm[n].waits \subseteq sm[n].subs
  BY MachineFits
<1>2. PICK state : Become(n, AddSubscriber(sm[n], h, w), state)
  BY DEF Subscribe
<1>3. QED
  BY <1>1, <1>2, AddSubscriberFacts, BecomeKeeps

(* A subscriber that leaves does not wait.                                 *)
LEMMA UnsubscribeKeepsWaiters ==
  ASSUME Inv, NEW n \in Nifs, NEW h \in sm[n].subs, Unsubscribe(n, h)
  PROVE  WaitersStay
<1> DEFINE left == IF h \in sm[n].waits
                   THEN [sm[n] EXCEPT !.inactive = @ \cup {h}]
                   ELSE Delete(sm[n], {h})
<1>1. sm[n] \in Machines /\ sm[n].state # "RELEASED"
  BY MachineFits DEF Fits
<1>2. left \in Machines /\ sm[n].waits \subseteq left.subs
  <2>1. CASE h \in sm[n].waits
    BY <1>1, <2>1 DEF Machines
  <2>2. CASE h \notin sm[n].waits
    BY <1>1, <2>2, DeleteFacts, MachineFits
  <2>3. QED
    BY <2>1, <2>2
<1>3. PICK state : Become(n, left, state)
  BY <1>1 DEF Unsubscribe
<1>4. QED
  BY <1>2, <1>3, BecomeKeeps

(* For any handles: while subscribers come and go, one that waits for the  *)
(* close stays in the list until the framework reports the end of the      *)
(* connection.                                                             *)
THEOREM WaitersWait == Spec => WaitsForClose
<1>1. Inv /\ Inv' /\ [Next]_vars => [WaitersStay]_vars
  <2> SUFFICES ASSUME Inv, Next
               PROVE  WaitersStay
    BY DEF vars
  <2>1. CASE ProcessMsg
    <3> DEFINE m == Head(queue)
    <3>1. m \in Messages /\ queue # <<>>
      BY <2>1 DEF Inv, TypeOK, ProcessMsg
    <3>2. "AGNSS" \in Nifs /\ "INTERNET" \in Nifs
      BY DEF Nifs
    <3>3. CASE RequestATL(m)
      <4>1. m.handle \in Handles /\ (m.type = "SUPL_ES") \in BOOLEAN
        BY <3>1, <3>3 DEF RequestATL, Messages, FrameworkEvents
      <4>2. NifOf(m.type) \in Nifs
        BY DEF NifOf, Nifs
      <4>3. QED
        BY <3>3, <4>1, <4>2, SubscribeKeeps DEF RequestATL
    <3>4. CASE ReleaseATL(m)
      <4>1. CASE UNCHANGED sm
        BY <4>1, MachineFits DEF WaitersStay
      <4>2. CASE m.handle \in sm["AGNSS"].subs /\ Unsubscribe("AGNSS", m.handle)
        BY <3>2, <4>2, UnsubscribeKeepsWaiters
      <4>3. CASE /\ m.handle \in sm["INTERNET"].subs
                 /\ Unsubscribe("INTERNET", m.handle)
        BY <3>2, <4>3, UnsubscribeKeepsWaiters
      <4>4. QED
        BY <3>4, <4>1, <4>2, <4>3 DEF ReleaseATL
    <3>5. CASE ReportAtl(m)
      <4>1. CASE m.kind = "opened" /\ Granted("AGNSS")
        <5>1. CASE UNCHANGED sm
          BY <5>1, MachineFits DEF WaitersStay
        <5>2. CASE Become("AGNSS", sm["AGNSS"], "ACQUIRED")
          BY <3>2, <5>2, MachineFits, BecomeKeeps
        <5>3. QED
          BY <4>1, <5>1, <5>2 DEF Granted
      <4>2. CASE m.kind \in {"failed", "closed"}
        BY <3>1, <4>2 DEF WaitersStay
      <4>3. QED
        BY <3>5, <4>1, <4>2 DEF ReportAtl
    <3>6. QED
      BY <2>1, <3>3, <3>4, <3>5 DEF ProcessMsg
  <2>2. CASE ~ProcessMsg
    <3>1. UNCHANGED sm
      BY <2>2 DEF Next, FrameworkStep, FrameworkTakesCall, FrameworkAnswers,
             ModemRestarts, FrameworkLosesConnection, ModemOpens, ModemCloses
    <3>2. QED
      BY <3>1, MachineFits DEF WaitersStay
  <2>3. QED
    BY <2>1, <2>2
<1>2. QED
  BY <1>1, InvHolds, PTL DEF Spec, WaitsForClose, WaitersStay

-----------------------------------------------------------------------------
(* Handles: what the modem knows, what is queued, and the machine's list.  *)

(* A message of h of the one kind is queued once at most, and its open     *)
(* request before its close request.                                       *)
QueueInOrder ==
  \A i, j \in 1 .. Len(queue) :
    /\ queue[i].kind \in {"requestATL", "releaseATL"}
    /\ queue[j].kind \in {"requestATL", "releaseATL"}
    /\ queue[i].handle = queue[j].handle
    => /\ queue[i].kind = queue[j].kind => i = j
       /\ queue[i].kind = "requestATL" /\ queue[j].kind = "releaseATL" => i < j

(* What is queued for a handle fits what the modem knows of it, ...        *)
RequestFits(h) ==
  Queued("requestATL", h) =>
    /\ modem[h] \in {"opening", "closing"}
    /\ modem[h] = "closing" => Queued("releaseATL", h)
    /\ \A n \in Nifs : h \notin sm[n].subs

ReleaseFits(h) ==
  Queued("releaseATL", h) =>
    modem[h] \in {"closing", "done"} /\ \A n \in Nifs : h \notin sm[n].inactive

(* ... and so does its place in the machine n.                             *)
SubscriberFits(n, h) ==
  /\ h \in sm[n].inactive => modem[h] = "closing"
  /\ h \in Active(sm[n]) =>
       \/ modem[h] = "opening" /\ sm[n].state # "ACQUIRED"
       \/ modem[h] = "open" /\ sm[n].state = "ACQUIRED"
       \/ modem[h] = "closing" /\ Queued("releaseATL", h)

IsActive(h) == \E n \in Nifs : h \in Active(sm[n])

(* What the modem knows of a handle is accounted for.                      *)
HandleFits(h) ==
  /\ modem[h] # "confused"
  /\ RequestFits(h) /\ ReleaseFits(h)
  /\ \A n \in Nifs : SubscriberFits(n, h)
  /\ modem[h] = "opening" => Queued("requestATL", h) \/ IsActive(h)
  /\ modem[h] = "open" => IsActive(h)
  /\ \A n, k \in Nifs : h \in sm[n].subs /\ h \in sm[k].subs => n = k

HandlesFit == restarts = 0 => QueueInOrder /\ \A h \in Handles : HandleFits(h)

Requests == {"requestATL", "releaseATL"}

LEMMA HearsFacts ==
  /\ Hears("opening", "open") = "open" /\ Hears("opening", "openFailed") = "done"
  /\ Hears("closing", "open") = "closing" /\ Hears("closing", "openFailed") = "closing"
  /\ Hears("open", "closed") = "done" /\ Hears("closing", "closed") = "done"
  /\ Hears("closing", "closeFailed") = "done" /\ Hears("done", "closeFailed") = "done"
BY DEF Hears

LEMMA NotifyResult ==
  ASSUME NEW hs, NEW status, Notify(hs, status), NEW h \in Handles
  PROVE  /\ h \in hs => modem'[h] = Hears(modem[h], status)
         /\ h \notin hs => modem'[h] = modem[h]
BY DEF Notify

LEMMA BecomeResult ==
  ASSUME Inv, NEW n \in Nifs, NEW s \in Machines, NEW state, Become(n, s, state)
  PROVE  /\ sm'[n].state = state /\ sm'[n].subs = s.subs
         /\ sm'[n].inactive = s.inactive
         /\ \A k \in Nifs : k # n => sm'[k] = sm[k]
<1>1. sm \in [Nifs -> Machines] /\ sm' = [sm EXCEPT ![n] = [s EXCEPT !.state = state]]
  BY DEF Inv, TypeOK, Become
<1>2. /\ [s EXCEPT !.state = state].state = state
      /\ [s EXCEPT !.state = state].subs = s.subs
      /\ [s EXCEPT !.state = state].inactive = s.inactive
  BY DEF Machines
<1> QED
  BY <1>1, <1>2

(* The oldest message is taken: it was queued once, and a close request is *)
(* not taken before the open request.                                      *)
LEMMA TailKeepsOrder ==
  ASSUME Inv, QueueInOrder, queue # <<>>, queue' = Tail(queue)
  PROVE  /\ QueueInOrder'
         /\ \A kind \in Requests, h \in Handles :
              /\ Queued(kind, h)' => Queued(kind, h)
              /\ Queued(kind, h) => \/ Queued(kind, h)'
                                    \/ Head(queue).kind = kind /\ Head(queue).handle = h
              /\ Head(queue).kind = kind /\ Head(queue).handle = h =>
                   Queued(kind, h) /\ ~Queued(kind, h)'
         /\ Head(queue).kind = "releaseATL" => ~Queued("requestATL", Head(queue).handle)
<1>1. queue \in Seq(Messages)
  BY DEF Inv, TypeOK
<1>2. /\ Len(queue) \in Nat /\ Len(queue) > 0 /\ Len(queue') = Len(queue) - 1
      /\ Head(queue) = queue[1]
      /\ \A i \in 1 .. Len(queue') : queue'[i] = queue[i + 1] /\ i + 1 \in 1 .. Len(queue)
      /\ \A i \in 1 .. Len(queue) : i # 1 => /\ i - 1 \in 1 .. Len(queue')
                                             /\ queue'[i - 1] = queue[i]
      /\ 1 \in 1 .. Len(queue)
  BY <1>1
<1>3. QueueInOrder'
  <2> SUFFICES ASSUME NEW i \in 1 .. Len(queue'), NEW j \in 1 .. Len(queue'),
                      queue'[i].kind \in Requests, queue'[j].kind \in Requests,
                      queue'[i].handle = queue'[j].handle
               PROVE  /\ queue'[i].kind = queue'[j].kind => i = j
                      /\ queue'[i].kind = "requestATL" /\ queue'[j].kind = "releaseATL"
                           => i < j
    BY DEF QueueInOrder, Requests
  <2>1. /\ i + 1 \in 1 .. Len(queue) /\ j + 1 \in 1 .. Len(queue)
        /\ queue'[i] = queue[i + 1] /\ queue'[j] = queue[j + 1]
    BY <1>2
  <2>2. /\ queue[i + 1].kind = queue[j + 1].kind => i + 1 = j + 1
        /\ queue[i + 1].kind = "requestATL" /\ queue[j + 1].kind = "releaseATL"
             => i + 1 < j + 1
    BY <2>1 DEF QueueInOrder, Requests
  <2> QED
    BY <2>1, <2>2
<1>4. ASSUME NEW kind \in Requests, NEW h \in Handles
      PROVE  /\ Queued(kind, h)' => Queued(kind, h)
             /\ Queued(kind, h) => \/ Queued(kind, h)'
                                   \/ Head(queue).kind = kind /\ Head(queue).handle = h
  BY <1>2 DEF Queued
<1>5. ASSUME NEW kind \in Requests, NEW h \in Handles,
             Head(queue).kind = kind, Head(queue).handle = h
      PROVE  Queued(kind, h) /\ ~Queued(kind, h)'
  <2>1. Queued(kind, h)
    BY <1>2, <1>5 DEF Queued
  <2>2. ASSUME NEW i \in 1 .. Len(queue'), queue'[i].kind = kind, queue'[i].handle = h
        PROVE  FALSE
    <3>1. i + 1 \in 1 .. Len(queue) /\ queue[i + 1] = queue'[i] /\ i + 1 # 1
      BY <1>2
    <3> QED
      BY <1>2, <1>5, <2>2, <3>1 DEF QueueInOrder, Requests
  <2> QED
    BY <2>1, <2>2 DEF Queued
<1>6. ASSUME Head(queue).kind = "releaseATL", Queued("requestATL", Head(queue).handle)
      PROVE  FALSE
  <2>1. PICK i \in 1 .. Len(queue) : /\ queue[i].kind = "requestATL"
                                     /\ queue[i].handle = queue[1].handle
    BY <1>2, <1>6 DEF Queued
  <2>2. i < 1
    BY <1>2, <1>6, <2>1 DEF QueueInOrder
  <2> QED
    BY <2>2
<1> QED
  BY <1>3, <1>4, <1>5, <1>6

(* A new message of a handle is queued as the first of its kind, and not   *)
(* an open request behind a close request.                                 *)
LEMMA AppendKeepsOrder ==
  ASSUME Inv, QueueInOrder, NEW m \in Messages, queue' = Append(queue, m),
         m.kind \in Requests => ~Queued(m.kind, m.handle),
         m.kind = "requestATL" => ~Queued("releaseATL", m.handle)
  PROVE  /\ QueueInOrder'
         /\ \A kind \in Requests, h \in Handles :
              Queued(kind, h)' <=> Queued(kind, h) \/ (m.kind = kind /\ m.handle = h)
<1>1. queue \in Seq(Messages)
  BY DEF Inv, TypeOK
<1>2. /\ Len(queue) \in Nat /\ Len(queue') = Len(queue) + 1
      /\ \A i \in 1 .. Len(queue) : queue'[i] = queue[i] /\ i \in 1 .. Len(queue')
      /\ queue'[Len(queue')] = m /\ Len(queue') \in 1 .. Len(queue')
      /\ \A i \in 1 .. Len(queue') : i = Len(queue') \/ i \in 1 .. Len(queue)
  BY <1>1
<1>3. ASSUME NEW i \in 1 .. Len(queue), queue[i].kind = m.kind, m.kind \in Requests,
             queue[i].handle = m.handle
      PROVE  FALSE
  BY <1>3 DEF Queued
<1>4. ASSUME NEW i \in 1 .. Len(queue), queue[i].kind = "releaseATL",
             m.kind = "requestATL", queue[i].handle = m.handle
      PROVE  FALSE
  BY <1>4 DEF Queued
<1>5. QueueInOrder'
  <2> SUFFICES ASSUME NEW i \in 1 .. Len(queue'), NEW j \in 1 .. Len(queue'),
                      queue'[i].kind \in Requests, queue'[j].kind \in Requests,
                      queue'[i].handle = queue'[j].handle
               PROVE  /\ queue'[i].kind = queue'[j].kind => i = j
                      /\ queue'[i].kind = "requestATL" /\ queue'[j].kind = "releaseATL"
                           => i < j
    BY DEF QueueInOrder, Requests
  <2>1. CASE i \in 1 .. Len(queue) /\ j \in 1 .. Len(queue)
    BY <1>2, <2>1 DEF QueueInOrder, Requests
  <2>2. CASE i = Len(queue') /\ j \in 1 .. Len(queue)
    BY <1>2, <1>3, <1>4, <2>2
  <2>3. CASE i \in 1 .. Len(queue) /\ j = Len(queue')
    BY <1>2, <1>3, <2>3
  <2>4. CASE i = Len(queue') /\ j = Len(queue')
    BY <2>4 DEF Requests
  <2> QED
    BY <1>2, <2>1, <2>2, <2>3, <2>4
<1>6. ASSUME NEW kind \in Requests, NEW h \in Handles
      PROVE  Queued(kind, h)' <=> Queued(kind, h) \/ (m.kind = kind /\ m.handle = h)
  BY <1>2 DEF Queued
<1> QED
  BY <1>5, <1>6

-----------------------------------------------------------------------------
(* What a handler does to the handles.                                     *)

QueuedAsBefore(h) ==
  \A kind \in Requests : Queued(kind, h)' <=> Queued(kind, h)

(* A handle whose place and messages stay is fine, unless its machine gets *)
(* or loses the connection.                                                *)
LEMMA UntouchedFits ==
  ASSUME NEW h \in Handles, HandleFits(h), QueuedAsBefore(h), modem'[h] = modem[h],
         \A k \in Nifs : /\ h \in sm'[k].subs <=> h \in sm[k].subs
                         /\ h \in sm'[k].inactive <=> h \in sm[k].inactive
                         /\ h \in Active(sm[k]) =>
                              (sm'[k].state = "ACQUIRED" <=> sm[k].state = "ACQUIRED")
  PROVE  HandleFits(h)'
BY DEF HandleFits, RequestFits, ReleaseFits, SubscriberFits, IsActive, Active,
       QueuedAsBefore, Requests

LEMMA SubscribeFits ==
  ASSUME Inv, \A h \in Handles : HandleFits(h),
         NEW n \in Nifs, NEW g \in Handles, NEW w \in BOOLEAN, Subscribe(n, g, w),
         Queued("requestATL", g), ~Queued("requestATL", g)',
         Queued("releaseATL", g)' <=> Queued("releaseATL", g),
         \A h \in Handles \ {g} : QueuedAsBefore(h)
  PROVE  \A h \in Handles : HandleFits(h)'
<1> DEFINE added == AddSubscriber(sm[n], g, w)
<1>1. sm[n] \in Machines /\ Fits(sm[n], sm[n].state)
  BY MachineFits
<1>2. /\ added \in Machines /\ added.subs = sm[n].subs \cup {g}
      /\ added.inactive = sm[n].inactive
  BY <1>1, AddSubscriberFacts
<1>3. PICK state :
        /\ Become(n, added, state)
        /\ state = "ACQUIRED" <=> sm[n].state = "ACQUIRED"
        /\ IF state = "ACQUIRED" THEN Notify({g}, "open") ELSE UNCHANGED modem
  BY <1>1 DEF Subscribe, Fits, States
<1>4. /\ sm'[n].state = state /\ sm'[n].subs = sm[n].subs \cup {g}
      /\ sm'[n].inactive = sm[n].inactive
      /\ \A k \in Nifs : k # n => sm'[k] = sm[k]
  BY <1>2, <1>3, BecomeResult
<1>5. ASSUME NEW h \in Handles, h # g
      PROVE  HandleFits(h)'
  <2>1. modem'[h] = modem[h]
    BY <1>3, <1>5, NotifyResult
  <2> QED
    BY <1>3, <1>4, <1>5, <2>1, UntouchedFits
<1>6. HandleFits(g)'
  <2>1. /\ modem[g] \in {"opening", "closing"}
        /\ modem[g] = "closing" => Queued("releaseATL", g)
        /\ \A k \in Nifs : g \notin sm[k].subs /\ g \notin sm[k].inactive
        /\ Queued("releaseATL", g) => modem[g] = "closing"
    BY MachineFits DEF HandleFits, RequestFits, ReleaseFits
  <2>2. /\ state = "ACQUIRED" => modem'[g] = IF modem[g] = "opening" THEN "open" ELSE "closing"
        /\ state # "ACQUIRED" => modem'[g] = modem[g]
    BY <1>3, <2>1, NotifyResult, HearsFacts
  <2>3. /\ g \in Active(sm'[n]) /\ \A k \in Nifs : g \notin sm'[k].inactive
        /\ \A k \in Nifs : g \in sm'[k].subs => k = n
    BY <1>4, <2>1 DEF Active
  <2>4. CASE modem[g] = "opening"
    BY <1>4, <2>1, <2>2, <2>3, <2>4
       DEF HandleFits, RequestFits, ReleaseFits, SubscriberFits, IsActive, Active
  <2>5. CASE modem[g] = "closing"
    BY <1>4, <2>1, <2>2, <2>3, <2>5
       DEF HandleFits, RequestFits, ReleaseFits, SubscriberFits, IsActive, Active
  <2> QED
    BY <2>1, <2>4, <2>5
<1> QED
  BY <1>5, <1>6

LEMMA UnsubscribeFits ==
  ASSUME Inv, \A h \in Handles : HandleFits(h),
         NEW n \in Nifs, NEW g \in sm[n].subs, Unsubscribe(n, g),
         Queued("releaseATL", g), ~Queued("releaseATL", g)',
         ~Queued("requestATL", g)',
         \A h \in Handles \ {g} : QueuedAsBefore(h)
  PROVE  \A h \in Handles : HandleFits(h)'
<1> DEFINE left == IF g \in sm[n].waits
                   THEN [sm[n] EXCEPT !.inactive = @ \cup {g}]
                   ELSE Delete(sm[n], {g})
           state == IF left.subs = {} THEN "RELEASED"
                    ELSE IF Active(left) = {} THEN "RELEASING"
                    ELSE sm[n].state
<1>1. /\ sm[n] \in Machines /\ Fits(sm[n], sm[n].state) /\ sm[n].state # "RELEASED"
      /\ g \in Handles
  BY MachineFits DEF Fits
<1>2. Become(n, left, state) /\ Notify({g} \ left.subs, "closed")
  BY <1>1 DEF Unsubscribe
<1>3. /\ left \in Machines
      /\ left.subs = IF g \in sm[n].waits THEN sm[n].subs ELSE sm[n].subs \ {g}
      /\ left.inactive \subseteq sm[n].inactive \cup {g}
      /\ sm[n].inactive \ {g} \subseteq left.inactive
      /\ g \in sm[n].waits => g \in left.inactive
  <2>1. CASE g \in sm[n].waits
    BY <1>1, <2>1 DEF Machines
  <2>2. CASE g \notin sm[n].waits
    BY <1>1, <2>2, DeleteFacts
  <2> QED
    BY <2>1, <2>2
<1> HIDE DEF left
<1>4. /\ sm'[n].state = state /\ sm'[n].subs = left.subs
      /\ sm'[n].inactive = left.inactive
      /\ \A k \in Nifs : k # n => sm'[k] = sm[k]
  BY <1>2, <1>3, BecomeResult
<1>5. modem[g] = "closing" /\ \A k \in Nifs : k # n => g \notin sm[k].subs
  BY <1>1, MachineFits
     DEF HandleFits, ReleaseFits, SubscriberFits, Active
<1>6. ASSUME NEW h \in Handles, h # g
      PROVE  HandleFits(h)'
  <2>1. modem'[h] = modem[h]
    BY <1>2, <1>6, NotifyResult
  <2>2. h \in Active(sm[n]) => sm'[n].state = sm[n].state
    BY <1>3, <1>4, <1>6 DEF Active
  <2> QED
    BY <1>3, <1>4, <1>6, <2>1, <2>2, UntouchedFits
<1>7. HandleFits(g)'
  <2>1. CASE g \in sm[n].waits
    <3>1. modem'[g] = "closing" /\ g \in sm'[n].inactive
      BY <1>1, <1>2, <1>3, <1>4, <1>5, <2>1, NotifyResult
    <3>2. \A k \in Nifs : k # n => g \notin sm'[k].subs /\ g \notin sm'[k].inactive
      BY <1>4, <1>5, MachineFits
    <3> QED
      BY <3>1, <3>2
         DEF HandleFits, RequestFits, ReleaseFits, SubscriberFits, IsActive, Active
  <2>2. CASE g \notin sm[n].waits
    <3>1. modem'[g] = "done"
      BY <1>1, <1>2, <1>3, <1>5, <2>2, NotifyResult, HearsFacts
    <3>2. \A k \in Nifs : g \notin sm'[k].subs
      BY <1>3, <1>4, <1>5, <2>2
    <3>3. \A k \in Nifs : g \notin sm'[k].inactive
      BY <1>3, <1>4, <1>5, <2>2, MachineFits DEF Machines
    <3> QED
      BY <3>1, <3>2, <3>3
         DEF HandleFits, RequestFits, ReleaseFits, SubscriberFits, IsActive, Active
  <2> QED
    BY <2>1, <2>2
<1> QED
  BY <1>6, <1>7

(* A close request for a handle without a subscriber.                      *)
LEMMA CloseFailedFits ==
  ASSUME Inv, \A h \in Handles : HandleFits(h), NEW g \in Handles,
         \A k \in Nifs : g \notin sm[k].subs,
         Notify({g}, "closeFailed"), UNCHANGED sm,
         Queued("releaseATL", g), ~Queued("releaseATL", g)',
         ~Queued("requestATL", g)',
         \A h \in Handles \ {g} : QueuedAsBefore(h)
  PROVE  \A h \in Handles : HandleFits(h)'
<1>1. ASSUME NEW h \in Handles, h # g
      PROVE  HandleFits(h)'
  BY <1>1, NotifyResult, UntouchedFits
<1>2. HandleFits(g)'
  <2>1. modem[g] \in {"closing", "done"}
    BY DEF HandleFits, ReleaseFits
  <2>2. modem'[g] = "done"
    BY <2>1, NotifyResult, HearsFacts
  <2>3. \A k \in Nifs : g \notin sm'[k].subs /\ g \notin sm'[k].inactive
    BY MachineFits
  <2> QED
    BY <2>2, <2>3
       DEF HandleFits, RequestFits, ReleaseFits, SubscriberFits, IsActive, Active
<1> QED
  BY <1>1, <1>2

LEMMA GrantedFits ==
  ASSUME Inv, \A h \in Handles : HandleFits(h), NEW n \in Nifs, Granted(n),
         \A h \in Handles : QueuedAsBefore(h)
  PROVE  \A h \in Handles : HandleFits(h)'
<1> TAKE h \in Handles
<1>1. CASE sm[n].state # "PENDING"
  BY <1>1, UntouchedFits DEF Granted, Active
<1>2. CASE sm[n].state = "PENDING"
  <2>1. Become(n, sm[n], "ACQUIRED") /\ Notify(Active(sm[n]), "open")
    BY <1>2 DEF Granted
  <2>2. /\ sm'[n].state = "ACQUIRED" /\ sm'[n].subs = sm[n].subs
        /\ sm'[n].inactive = sm[n].inactive
        /\ \A k \in Nifs : k # n => sm'[k] = sm[k]
    BY <2>1, BecomeResult, MachineFits
  <2>3. CASE h \notin Active(sm[n])
    <3>1. modem'[h] = modem[h]
      BY <2>1, <2>3, NotifyResult
    <3> QED
      BY <2>2, <2>3, <3>1, UntouchedFits
  <2>4. CASE h \in Active(sm[n])
    <3>1. \/ modem[h] = "opening"
          \/ modem[h] = "closing" /\ Queued("releaseATL", h)
      BY <1>2, <2>4 DEF HandleFits, SubscriberFits
    <3>2. modem'[h] = IF modem[h] = "opening" THEN "open" ELSE "closing"
      BY <2>1, <2>4, <3>1, NotifyResult, HearsFacts
    <3>3. ~Queued("requestATL", h)
      BY <2>4 DEF HandleFits, RequestFits, Active
    <3>4. \A k \in Nifs : k # n => h \notin sm[k].subs /\ h \notin sm[k].inactive
      BY <2>4, MachineFits DEF HandleFits, Active
    <3> QED
      BY <2>2, <2>4, <3>1, <3>2, <3>3, <3>4
         DEF HandleFits, RequestFits, ReleaseFits, SubscriberFits, IsActive, Active,
             QueuedAsBefore, Requests
  <2> QED
    BY <2>3, <2>4
<1> QED
  BY <1>1, <1>2

(* Those that waited for the close are told it.                            *)
LEMMA ReleaseEndsFits ==
  ASSUME Inv, \A h \in Handles : HandleFits(h), NEW n \in Nifs,
         sm[n].state = "RELEASING", ReleaseEnds(n),
         \A h \in Handles : QueuedAsBefore(h)
  PROVE  \A h \in Handles : HandleFits(h)'
<1> DEFINE left == Delete(sm[n], sm[n].inactive)
<1> TAKE h \in Handles
<1>1. left \in Machines /\ left.subs = Active(sm[n]) /\ left.inactive = {}
  BY MachineFits, DeleteFacts DEF Active
<1>2. PICK state : /\ Become(n, left, state) /\ Notify(sm[n].inactive, "closed")
                   /\ state # "ACQUIRED"
  BY DEF ReleaseEnds
<1> HIDE DEF left
<1>3. /\ sm'[n].state = state /\ sm'[n].subs = Active(sm[n])
      /\ sm'[n].inactive = {}
      /\ \A k \in Nifs : k # n => sm'[k] = sm[k]
  BY <1>1, <1>2, BecomeResult
<1>4. CASE h \notin sm[n].inactive
  <2>1. modem'[h] = modem[h]
    BY <1>2, <1>4, NotifyResult
  <2> QED
    BY <1>2, <1>3, <1>4, <2>1, UntouchedFits DEF Active
<1>5. CASE h \in sm[n].inactive
  <2>1. modem'[h] = "done"
    BY <1>2, <1>5, NotifyResult, HearsFacts DEF HandleFits, SubscriberFits
  <2>2. ~Queued("requestATL", h) /\ \A k \in Nifs : h \notin sm'[k].subs
    BY <1>3, <1>5, MachineFits DEF HandleFits, RequestFits, Active
  <2>3. \A k \in Nifs : h \notin sm'[k].inactive
    BY <1>3, <1>5, MachineFits DEF HandleFits
  <2> QED
    BY <2>1, <2>2, <2>3
       DEF HandleFits, RequestFits, ReleaseFits, SubscriberFits, IsActive, Active,
           QueuedAsBefore, Requests
<1> QED
  BY <1>4, <1>5

(* Everybody is told that the connection is lost, or could not be opened.  *)
LEMMA NotifyAllFits ==
  ASSUME Inv, \A h \in Handles : HandleFits(h), NEW n \in Nifs, NEW status,
         \/ sm[n].state = "ACQUIRED" /\ status = "closed"
         \/ sm[n].state = "PENDING" /\ status = "openFailed",
         NotifyAllAndDelete(n, status),
         \A h \in Handles : QueuedAsBefore(h)
  PROVE  \A h \in Handles : HandleFits(h)'
<1> DEFINE left == Delete(sm[n], sm[n].subs)
<1> TAKE h \in Handles
<1>1. left \in Machines /\ left.subs = {} /\ left.inactive = {}
  BY MachineFits, DeleteFacts
<1>2. Become(n, left, "RELEASED") /\ Notify(sm[n].subs, status)
  BY DEF NotifyAllAndDelete
<1> HIDE DEF left
<1>3. /\ sm'[n].state = "RELEASED" /\ sm'[n].subs = {} /\ sm'[n].inactive = {}
      /\ \A k \in Nifs : k # n => sm'[k] = sm[k]
  BY <1>1, <1>2, BecomeResult
<1>4. CASE h \notin sm[n].subs
  <2>1. modem'[h] = modem[h] /\ h \notin sm[n].inactive
    BY <1>2, <1>4, NotifyResult, MachineFits
  <2> QED
    BY <1>3, <1>4, <2>1, UntouchedFits DEF Active
<1>5. CASE h \in sm[n].subs
  <2>1. /\ modem[h] \in {"opening", "open", "closing"}
        /\ modem[h] = "open" => sm[n].state = "ACQUIRED"
        /\ modem[h] = "opening" => sm[n].state # "ACQUIRED"
    BY <1>5 DEF HandleFits, SubscriberFits, Active
  <2>2. modem'[h] = "done" \/ (modem'[h] = "closing" /\ modem[h] = "closing")
    BY <1>2, <1>5, <2>1, NotifyResult, HearsFacts
  <2>3. ~Queued("requestATL", h) /\ \A k \in Nifs : h \notin sm'[k].subs
    BY <1>3, <1>5 DEF HandleFits, RequestFits
  <2>4. \A k \in Nifs : h \notin sm'[k].inactive
    BY <1>3, <1>5, MachineFits DEF HandleFits
  <2> QED
    BY <2>2, <2>3, <2>4
       DEF HandleFits, RequestFits, ReleaseFits, SubscriberFits, IsActive, Active,
           QueuedAsBefore, Requests
<1> QED
  BY <1>4, <1>5

-----------------------------------------------------------------------------
(* A message is processed.                                                 *)
LEMMA ReportAtlFits ==
  ASSUME Inv, \A h \in Handles : HandleFits(h), NEW m, ReportAtl(m),
         \A h \in Handles : QueuedAsBefore(h)
  PROVE  \A h \in Handles : HandleFits(h)'
<1>1. "AGNSS" \in Nifs
  BY DEF Nifs
<1>2. CASE Granted("AGNSS")
  BY <1>1, <1>2, GrantedFits
<1>3. CASE ReleaseEnds("AGNSS") /\ sm["AGNSS"].state = "RELEASING"
  BY <1>1, <1>3, ReleaseEndsFits
<1>4. CASE sm["AGNSS"].state = "ACQUIRED" /\ NotifyAllAndDelete("AGNSS", "closed")
  BY <1>1, <1>4, NotifyAllFits
<1>5. CASE sm["AGNSS"].state = "PENDING" /\ NotifyAllAndDelete("AGNSS", "openFailed")
  BY <1>1, <1>5, NotifyAllFits
<1>6. CASE UNCHANGED <<sm, modem>>
  BY <1>6, UntouchedFits
<1> QED
  BY <1>2, <1>3, <1>4, <1>5, <1>6 DEF ReportAtl, Denied, Released

LEMMA ProcessMsgFits ==
  ASSUME Inv, QueueInOrder, \A h \in Handles : HandleFits(h), ProcessMsg
  PROVE  QueueInOrder' /\ \A h \in Handles : HandleFits(h)'
<1>1. Head(queue) \in Messages /\ queue # <<>> /\ queue' = Tail(queue)
  BY DEF Inv, TypeOK, ProcessMsg
<1>2. QueueInOrder'
  BY <1>1, TailKeepsOrder
<1> SUFFICES ASSUME NEW m \in Messages, m = Head(queue)
             PROVE  \A h \in Handles : HandleFits(h)'
  BY <1>1, <1>2
<1>3. \A kind \in Requests, h \in Handles :
        /\ Queued(kind, h)' => Queued(kind, h)
        /\ Queued(kind, h) => \/ Queued(kind, h)'
                              \/ m.kind = kind /\ m.handle = h
        /\ m.kind = kind /\ m.handle = h => Queued(kind, h) /\ ~Queued(kind, h)'
  BY <1>1, TailKeepsOrder
<1>4. m.kind = "releaseATL" => ~Queued("requestATL", m.handle)
  BY <1>1, TailKeepsOrder
<1>5. CASE RequestATL(m)
  <2>1. m.handle \in Handles /\ (m.type = "SUPL_ES") \in BOOLEAN /\ m.kind = "requestATL"
    BY <1>5 DEF RequestATL, Messages, FrameworkEvents
  <2> SUFFICES ASSUME NEW g \in Handles, g = m.handle
               PROVE  \A h \in Handles : HandleFits(h)'
    BY <2>1
  <2>2. NifOf(m.type) \in Nifs /\ Subscribe(NifOf(m.type), g, m.type = "SUPL_ES")
    BY <1>5 DEF RequestATL, NifOf, Nifs
  <2>3. /\ Queued("requestATL", g) /\ ~Queued("requestATL", g)'
        /\ Queued("releaseATL", g)' <=> Queued("releaseATL", g)
        /\ \A h \in Handles \ {g} : QueuedAsBefore(h)
    BY <1>3, <2>1 DEF Requests, QueuedAsBefore
  <2> QED
    BY <2>1, <2>2, <2>3, SubscribeFits
<1>6. CASE ReleaseATL(m)
  <2>1. m.handle \in Handles /\ m.kind = "releaseATL"
    BY <1>6 DEF ReleaseATL, Messages, FrameworkEvents
  <2> SUFFICES ASSUME NEW g \in Handles, g = m.handle
               PROVE  \A h \in Handles : HandleFits(h)'
    BY <2>1
  <2>2. /\ Queued("releaseATL", g) /\ ~Queued("releaseATL", g)'
        /\ ~Queued("requestATL", g)'
        /\ \A h \in Handles \ {g} : QueuedAsBefore(h)
    BY <1>3, <1>4, <2>1 DEF Requests, QueuedAsBefore
  <2>3. CASE g \in sm["AGNSS"].subs /\ Unsubscribe("AGNSS", g)
    BY <2>2, <2>3, UnsubscribeFits DEF Nifs
  <2>4. CASE g \in sm["INTERNET"].subs /\ Unsubscribe("INTERNET", g)
    BY <2>2, <2>4, UnsubscribeFits DEF Nifs
  <2>5. CASE /\ g \notin sm["INTERNET"].subs \cup sm["AGNSS"].subs
             /\ Notify({g}, "closeFailed") /\ UNCHANGED sm
    BY <2>2, <2>5, CloseFailedFits DEF Nifs
  <2> QED
    BY <1>6, <2>3, <2>4, <2>5 DEF ReleaseATL
<1>7. CASE ReportAtl(m)
  <2>1. \A h \in Handles : QueuedAsBefore(h)
    BY <1>3, <1>7 DEF ReportAtl, Requests, QueuedAsBefore
  <2> QED
    BY <1>7, <2>1, ReportAtlFits
<1> QED
  BY <1>5, <1>6, <1>7 DEF ProcessMsg

-----------------------------------------------------------------------------
(* The steps of the framework and of the modem.                            *)

(* An event of the framework, or none, is queued behind the messages of    *)
(* the handles.                                                            *)
LEMMA EventFits ==
  ASSUME Inv, QueueInOrder, \A h \in Handles : HandleFits(h),
         UNCHANGED <<sm, modem>>,
         UNCHANGED queue \/ \E e \in FrameworkEvents : Post(e)
  PROVE  QueueInOrder' /\ \A h \in Handles : HandleFits(h)'
<1>1. CASE UNCHANGED queue
  <2>1. QueueInOrder' /\ \A h \in Handles : QueuedAsBefore(h)
    BY <1>1 DEF QueueInOrder, QueuedAsBefore, Queued
  <2> QED
    BY <2>1, UntouchedFits
<1>2. CASE \E e \in FrameworkEvents : Post(e)
  <2>1. PICK e \in FrameworkEvents : queue' = Append(queue, [kind |-> e])
    BY <1>2 DEF Post
  <2> SUFFICES ASSUME NEW m, m = [kind |-> e]
               PROVE  QueueInOrder' /\ \A h \in Handles : HandleFits(h)'
    OBVIOUS
  <2>2. m \in Messages /\ m.kind \notin Requests
    BY DEF Messages, FrameworkEvents, Requests
  <2>3. /\ QueueInOrder'
        /\ \A kind \in Requests, h \in Handles :
             Queued(kind, h)' <=> Queued(kind, h) \/ (m.kind = kind /\ m.handle = h)
    BY <2>1, <2>2, AppendKeepsOrder DEF Requests
  <2>4. \A h \in Handles : QueuedAsBefore(h)
    BY <2>2, <2>3 DEF QueuedAsBefore
  <2> QED
    BY <2>3, <2>4, UntouchedFits
<1> QED
  BY <1>1, <1>2

LEMMA ModemOpensFits ==
  ASSUME Inv, QueueInOrder, \A h \in Handles : HandleFits(h),
         NEW g \in Handles, NEW t \in Types, ModemOpens(g, t)
  PROVE  QueueInOrder' /\ \A h \in Handles : HandleFits(h)'
<1> SUFFICES ASSUME NEW m, m = [kind |-> "requestATL", handle |-> g, type |-> t]
             PROVE  QueueInOrder' /\ \A h \in Handles : HandleFits(h)'
  OBVIOUS
<1>1. /\ m \in Messages /\ m.kind = "requestATL" /\ m.handle = g
      /\ queue' = Append(queue, m) /\ UNCHANGED sm
  BY TypesAssumption DEF Messages, ModemOpens
<1>2. /\ modem[g] = "unused" /\ modem'[g] = "opening"
      /\ \A h \in Handles : h # g => modem'[h] = modem[h]
  BY DEF ModemOpens, Inv, TypeOK
<1>3. /\ ~Queued("requestATL", g) /\ ~Queued("releaseATL", g)
      /\ \A k \in Nifs : g \notin sm[k].subs /\ g \notin sm[k].inactive
  BY <1>2 DEF HandleFits, RequestFits, ReleaseFits, SubscriberFits, Active
<1>4. /\ QueueInOrder'
      /\ \A kind \in Requests, h \in Handles :
           Queued(kind, h)' <=> Queued(kind, h) \/ (m.kind = kind /\ m.handle = h)
  BY <1>1, <1>3, AppendKeepsOrder DEF Requests
<1>5. ASSUME NEW h \in Handles, h # g
      PROVE  HandleFits(h)'
  <2>1. QueuedAsBefore(h)
    BY <1>1, <1>4, <1>5 DEF QueuedAsBefore
  <2> QED
    BY <1>1, <1>2, <1>5, <2>1, UntouchedFits
<1>6. HandleFits(g)'
  <2>1. Queued("requestATL", g)' /\ ~Queued("releaseATL", g)'
    BY <1>1, <1>3, <1>4 DEF Requests
  <2> QED
    BY <1>1, <1>2, <1>3, <2>1
       DEF HandleFits, RequestFits, ReleaseFits, SubscriberFits, IsActive, Active
<1> QED
  BY <1>4, <1>5, <1>6

LEMMA ModemClosesFits ==
  ASSUME Inv, QueueInOrder, \A h \in Handles : HandleFits(h),
         NEW g \in Handles, ModemCloses(g)
  PROVE  QueueInOrder' /\ \A h \in Handles : HandleFits(h)'
<1> SUFFICES ASSUME NEW m, m = [kind |-> "releaseATL", handle |-> g]
             PROVE  QueueInOrder' /\ \A h \in Handles : HandleFits(h)'
  OBVIOUS
<1>1. /\ m \in Messages /\ m.kind = "releaseATL" /\ m.handle = g
      /\ queue' = Append(queue, m) /\ UNCHANGED sm
  BY DEF Messages, ModemCloses
<1>2. /\ modem[g] \in {"opening", "open"} /\ modem'[g] = "closing"
      /\ \A h \in Handles : h # g => modem'[h] = modem[h]
  BY DEF ModemCloses, Inv, TypeOK
<1>3. ~Queued("releaseATL", g) /\ \A k \in Nifs : g \notin sm[k].inactive
  BY <1>2 DEF HandleFits, ReleaseFits, SubscriberFits
<1>4. /\ QueueInOrder'
      /\ \A kind \in Requests, h \in Handles :
           Queued(kind, h)' <=> Queued(kind, h) \/ (m.kind = kind /\ m.handle = h)
  BY <1>1, <1>3, AppendKeepsOrder DEF Requests
<1>5. ASSUME NEW h \in Handles, h # g
      PROVE  HandleFits(h)'
  <2>1. QueuedAsBefore(h)
    BY <1>1, <1>4, <1>5 DEF QueuedAsBefore
  <2> QED
    BY <1>1, <1>2, <1>5, <2>1, UntouchedFits
<1>6. HandleFits(g)'
  <2>1. Queued("releaseATL", g)' /\ (Queued("requestATL", g)' <=> Queued("requestATL", g))
    BY <1>1, <1>4 DEF Requests
  <2> QED
    BY <1>1, <1>2, <1>3, <2>1
       DEF HandleFits, RequestFits, ReleaseFits, SubscriberFits, IsActive, Active
<1> QED
  BY <1>4, <1>5, <1>6

(* Until the modem restarts, its view of every handle, the messages queued *)
(* for it and the machines' lists agree.                                   *)
THEOREM HandlesAreKnown == Spec => []HandlesFit
<1>1. Init => HandlesFit
  BY DEF Init, HandlesFit, HandleFits, QueueInOrder, RequestFits, ReleaseFits,
         SubscriberFits, IsActive, Active, Queued
<1>2. Inv /\ HandlesFit /\ [Next]_vars => HandlesFit'
  <2> SUFFICES ASSUME Inv, HandlesFit, [Next]_vars, restarts' = 0
               PROVE  QueueInOrder' /\ \A h \in Handles : HandleFits(h)'
    BY DEF HandlesFit
  <2>1. restarts = 0 /\ ~ModemRestarts
    <3>1. restarts \in Nat
      BY MaxRestartsAssumption DEF Inv, TypeOK
    <3>2. ~ModemRestarts
      BY <3>1 DEF ModemRestarts
    <3>3. UNCHANGED restarts
      BY <3>2 DEF Next, vars, modemVars, ProcessMsg, FrameworkStep,
             FrameworkTakesCall, FrameworkAnswers, FrameworkLosesConnection,
             ModemOpens, ModemCloses
    <3> QED
      BY <3>2, <3>3
  <2>2. QueueInOrder /\ \A h \in Handles : HandleFits(h)
    BY <2>1 DEF HandlesFit
  <2>3. CASE ProcessMsg
    BY <2>2, <2>3, ProcessMsgFits
  <2>4. CASE FrameworkStep \/ FrameworkLosesConnection \/ UNCHANGED vars
    <3>1. /\ UNCHANGED <<sm, modem>>
          /\ UNCHANGED queue \/ \E e \in FrameworkEvents : Post(e)
      BY <2>4 DEF FrameworkStep, FrameworkTakesCall, FrameworkAnswers,
                  FrameworkLosesConnection, FrameworkEvents, vars, modemVars
    <3> QED
      BY <2>2, <3>1, EventFits
  <2>5. ASSUME NEW g \in Handles, NEW t \in Types, ModemOpens(g, t)
        PROVE  QueueInOrder' /\ \A h \in Handles : HandleFits(h)'
    BY <2>2, <2>5, ModemOpensFits
  <2>6. ASSUME NEW g \in Handles, ModemCloses(g)
        PROVE  QueueInOrder' /\ \A h \in Handles : HandleFits(h)'
    BY <2>2, <2>6, ModemClosesFits
  <2> QED
    BY <2>1, <2>3, <2>4, <2>5, <2>6 DEF Next
<1> QED
  BY <1>1, <1>2, InvHolds, PTL DEF Spec

(* While the modem takes a handle for open its machine holds the           *)
(* connection for it, and no subscriber outlives the modem's use of its    *)
(* handle, however close requests, grants and losses cross.                *)
THEOREM OpenHandlesAreHeld == Spec => []OpenHandleIsHeld
<1>1. Inv /\ HandlesFit => OpenHandleIsHeld
  <2> SUFFICES ASSUME Inv, \A h \in Handles : HandleFits(h)
               PROVE  /\ SubscriberInUse
                      /\ \A h \in Handles : modem[h] = "open" =>
                           \E n \in Nifs : sm[n].state = "ACQUIRED" /\ h \in Active(sm[n])
    BY DEF HandlesFit, OpenHandleIsHeld
  <2>1. SubscriberInUse
    BY MachineFits DEF SubscriberInUse, HandleFits, SubscriberFits, Active, Machines
  <2>2. ASSUME NEW h \in Handles, modem[h] = "open"
        PROVE  \E n \in Nifs : sm[n].state = "ACQUIRED" /\ h \in Active(sm[n])
    BY <2>2 DEF HandleFits, SubscriberFits, IsActive
  <2> QED
    BY <2>1, <2>2
<1> QED
  BY <1>1, InvHolds, HandlesAreKnown, PTL

(* No handle hears a status it did not ask for: AgpsManager answers an     *)
(* open request once and says nothing after the handle's end.              *)
THEOREM StatusesAreAsked == Spec => []NoSpuriousStatus
<1>1. HandlesFit => NoSpuriousStatus
  BY DEF HandlesFit, HandleFits, NoSpuriousStatus
<1> QED
  BY <1>1, HandlesAreKnown, PTL

(* An open request that is not answered yet is queued, or its subscriber   *)
(* is in the list of a machine that still expects the connection.          *)
THEOREM OpensArePending == Spec => []OpeningIsPending
<1>1. Inv /\ HandlesFit => OpeningIsPending
  <2> SUFFICES ASSUME Inv, NEW h \in Handles, HandleFits(h), modem[h] = "opening",
                      ~Queued("requestATL", h)
               PROVE  \E n \in Nifs : /\ sm[n].state \in {"PENDING", "RELEASING"}
                                      /\ h \in Active(sm[n])
    BY DEF HandlesFit, OpeningIsPending
  <2>1. PICK n \in Nifs : h \in Active(sm[n])
    BY DEF HandleFits, IsActive
  <2>2. sm[n].state \in States /\ sm[n].state # "ACQUIRED" /\ sm[n].state # "RELEASED"
    BY <2>1, MachineFits DEF HandleFits, SubscriberFits, Fits, Machines, Active
  <2> QED
    BY <2>1, <2>2 DEF States
<1> QED
  BY <1>1, InvHolds, HandlesAreKnown, PTL
=============================================================================
