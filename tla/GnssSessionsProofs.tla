------------------------- MODULE GnssSessionsProofs -------------------------
(***************************************************************************)
(* Proofs about GnssSessions, for any clients, intervals and callbacks,    *)
(* any number of messages queued and any number of restarts of the modem:  *)
(* the variables keep their types; while the modem refuses nothing, its    *)
(* session has the smallest interval of all sessions, it reports the       *)
(* events the clients want, and no client leaves a session behind.         *)
(*                                                                         *)
(* The inductive invariant adds to the types what the queue holds: a start *)
(* has an id of its own, and the message that opens a new connection is    *)
(* followed by the one that restarts the session.  Between the two, and    *)
(* while the connection is dead, the engine's session need not fit.        *)
(***************************************************************************)
EXTENDS GnssSessions, WellFoundedInduction, TLAPS

USE IntervalsAssumption, CallbacksAssumption, BoundsAssumption, NoClientAssumption

(* A start request is for a session that never was, of its own client.     *)
StartsAreFresh ==
  \A i \in 1..Len(posted) :
    posted[i].kind = "start" =>
      /\ posted[i].id \notin DOMAIN sessions
      /\ posted[i].id < nextId
      /\ owner[posted[i].id] = posted[i].client
      /\ \A j \in 1..Len(posted) :
           posted[j].kind = "start" /\ posted[j].id = posted[i].id => i = j

SessionsAreOld == \A id \in DOMAIN sessions : id < nextId

RestartQueued == \E i \in 1..Len(posted) : posted[i].kind = "restart"

(* The connection is opened before the session is restarted.               *)
RestartFollows ==
  \A i \in 1..Len(posted) :
    posted[i].kind = "ssr" =>
      errStep > 0 \/ \E j \in 1..Len(posted) : i < j /\ posted[j].kind = "restart"

(* What the adapter and LocApiV02 agree on while the modem refuses nothing.*)
NothingRefused ==
  faults = 0 =>
    /\ handle # "none" /\ (restarts = 0 => handle = "live")
    /\ resenders = 0
    /\ evtMask = EventMask(clientData)

MasksFit ==
  faults = 0 /\ handle = "live" =>
    /\ modemMask = qmiMask
    /\ inSession => qmiMask = evtMask
    /\ ~inSession /\ ~engineOn => qmiMask = evtMask \ SessionBits

IdleEngine ==
  faults = 0 /\ handle = "live" /\ DOMAIN sessions = {} => fix = {} /\ ~inSession

Wanted == IntervalsOf(DOMAIN sessions)

ServesSmallest ==
  faults = 0 /\ handle = "live" /\ errStep = 0 /\ ~RestartQueued =>
    /\ fix = Least(Wanted)
    /\ DOMAIN sessions # {} => inSession

(* The iterator of stopClientSessions leaves no session behind it.         *)
PassedAreStopped ==
  faults = 0 /\ restarts = 0 /\ removing # NoClient =>
    \A id \in DOMAIN sessions : owner[id] = removing => cursor < id

QueueInv == StartsAreFresh /\ SessionsAreOld /\ RestartFollows
EngineInv == NothingRefused /\ MasksFit /\ IdleEngine /\ ServesSmallest
ClientInv == PassedAreStopped /\ NoOrphanSession

IInv == SessionTypeOK /\ QueueInv /\ EngineInv /\ ClientInv

-----------------------------------------------------------------------------
(* Least.                                                                  *)

(* A nonempty set of naturals has a least element.                         *)
LEMMA NatMin ==
  ASSUME NEW A, A \subseteq Nat, A # {}
  PROVE  \E x \in A : \A y \in A : x <= y
<1> DEFINE R == {ss \in Nat \X Nat : ss[1] < ss[2]}
<1>1. IsWellFoundedOn(R, Nat)
  <2>1. OpToRel(<, Nat) = R
    BY DEF OpToRel
  <2> QED BY <2>1, NatLessThanWellFounded
<1>2. \E x \in A : \A y \in A : ~ (<<y, x>> \in R)
  <2> HIDE DEF R
  <2> QED BY <1>1, WFMin
<1>3. PICK x \in A : \A y \in A : ~ (<<y, x>> \in R)
  BY <1>2
<1>4. \A y \in A : x <= y
  <2> TAKE y \in A
  <2>1. x \in Nat /\ y \in Nat
    OBVIOUS
  <2>2. ~(<<y, x>> \in Nat \X Nat /\ y < x)
    BY <1>3
  <2> QED BY <2>1, <2>2
<1> QED BY <1>4

LEMMA LeastIsSingle ==
  ASSUME NEW A, A \subseteq Nat, A # {}
  PROVE  \E x \in A : Least(A) = {x} /\ \A y \in A : x <= y
<1>1. PICK x \in A : \A y \in A : x <= y
  BY NatMin
<1>2. \A z \in A : (\A y \in A : z <= y) => z = x
  BY <1>1
<1> QED BY <1>1, <1>2 DEF Least

(* An element below the least of the others is the least,                  *)
LEMMA LeastBelow ==
  ASSUME NEW A, A \subseteq Nat, NEW n \in Nat, Below(n, Least(A))
  PROVE  Least(A \cup {n}) = {n}
<1>1. \A y \in A : n < y
  <2>1. CASE A = {}
    BY <2>1
  <2>2. CASE A # {}
    <3>1. PICK x \in A : Least(A) = {x} /\ \A y \in A : x <= y
      BY <2>2, LeastIsSingle
    <3>2. n < x
      BY <3>1 DEF Below
    <3> QED BY <3>1, <3>2
  <2> QED BY <2>1, <2>2
<1>2. \A z \in A \cup {n} : (\A y \in A \cup {n} : z <= y) <=> z = n
  BY <1>1
<1> QED BY <1>2 DEF Least

(* and otherwise adds nothing.                                             *)
LEMMA LeastNotBelow ==
  ASSUME NEW A, A \subseteq Nat, NEW n \in Nat, ~Below(n, Least(A))
  PROVE  A # {} /\ Least(A \cup {n}) = Least(A)
<1>1. A # {}
  BY DEF Below, Least
<1>2. PICK x \in A : Least(A) = {x} /\ \A y \in A : x <= y
  BY <1>1, LeastIsSingle
<1>3. x <= n
  BY <1>2 DEF Below
<1>4. \A z \in A \cup {n} : (\A y \in A \cup {n} : z <= y) <=> z = x
  BY <1>2, <1>3
<1> QED BY <1>1, <1>2, <1>4 DEF Least

LEMMA LeastOfNone == Least({}) = {}
BY DEF Least

-----------------------------------------------------------------------------
(* The queue.                                                              *)

LEMMA TakeFacts ==
  ASSUME posted \in Seq(Messages), posted # <<>>, Take
  PROVE  /\ Msg \in Messages /\ Msg = posted[1]
         /\ posted' \in Seq(Messages)
         /\ \A i \in 1..Len(posted') :
              i + 1 \in 1..Len(posted) /\ posted'[i] = posted[i + 1]
         /\ \A i \in 1..Len(posted) :
              i = 1 \/ (i - 1 \in 1..Len(posted') /\ posted'[i - 1] = posted[i])
<1>1. Len(posted) \in Nat /\ Len(posted) > 0
  OBVIOUS
<1> QED BY <1>1 DEF Take, Msg

LEMMA PostFacts ==
  ASSUME posted \in Seq(Messages), NEW m \in Messages, Post(m)
  PROVE  /\ posted' \in Seq(Messages)
         /\ Len(posted') = Len(posted) + 1 /\ Len(posted) \in Nat
         /\ posted'[Len(posted')] = m
         /\ \A i \in 1..Len(posted) : posted'[i] = posted[i]
BY DEF Post

LEMMA MessageFacts ==
  /\ \A kind \in {"ssr", "config", "restart"} : Message(kind) \in Messages
  /\ \A on \in BOOLEAN : [Message("engine") EXCEPT !.on = on] \in Messages
  /\ \A c \in Clients, cbs \in SUBSET Callbacks :
       [Message("add") EXCEPT !.client = c, !.cbs = cbs] \in Messages
  /\ \A c \in Clients, id \in Ids, n \in Intervals :
       /\ [Message("start") EXCEPT !.client = c, !.id = id, !.n = n] \in Messages
       /\ [Message("update") EXCEPT !.client = c, !.id = id, !.n = n] \in Messages
  /\ \A c \in Clients, id \in Ids :
       [Message("stop") EXCEPT !.client = c, !.id = id] \in Messages
  /\ \A c \in Clients : [Message("remove") EXCEPT !.client = c] \in Messages
BY DEF Message, Messages, Kinds, ClientKinds, SessionKinds

-----------------------------------------------------------------------------
(* Types.                                                                  *)

MaskTypes ==
  /\ evtMask \subseteq Callbacks /\ qmiMask \subseteq Callbacks
  /\ modemMask \subseteq Bits /\ resenders \in Nat

EngineTypes == inSession \in BOOLEAN /\ fix \subseteq Intervals

SessionsType ==
  sessions \in [DOMAIN sessions -> Intervals] /\ DOMAIN sessions \subseteq Ids

LEMMA RegisterTypes ==
  ASSUME MaskTypes, NEW mask \in SUBSET Callbacks, NEW ses, NEW fault,
         RegisterEventMask(mask, ses, fault)
  PROVE  MaskTypes'
BY DEF MaskTypes, RegisterEventMask, SetModemMask, Caches, AdjustMaskIfNoSession, Bits

LEMMA StartFixTypes ==
  ASSUME MaskTypes, EngineTypes, NEW n \in Intervals, NEW fault, StartFix(n, fault)
  PROVE  MaskTypes' /\ EngineTypes'
BY RegisterTypes DEF StartFix, EngineTypes, MaskTypes

LEMMA StopFixTypes ==
  ASSUME MaskTypes, EngineTypes, NEW fault, StopFix(fault)
  PROVE  MaskTypes' /\ EngineTypes'
BY RegisterTypes DEF StopFix, EngineTypes, MaskTypes, maskVars

LEMMA EngineAsItIsTypes ==
  ASSUME MaskTypes, EngineTypes, NEW fault, EngineAsItIs(fault)
  PROVE  MaskTypes' /\ EngineTypes'
BY DEF EngineAsItIs, EngineTypes, MaskTypes, maskVars, engineVars

LEMMA OpenTypes ==
  ASSUME MaskTypes, handle \in {"none", "live", "dead"},
         NEW mask \in SUBSET Callbacks, NEW fault, Open(mask, fault)
  PROVE  MaskTypes' /\ handle' \in {"none", "live", "dead"}
BY RegisterTypes DEF Open, OpenWith, MaskTypes, maskVars, AdjustMaskIfNoSession, Bits

LEMMA SessionsChange ==
  ASSUME SessionsType, NEW id \in Ids
  PROVE  /\ \A n \in Intervals : Save(id, n) =>
              SessionsType' /\ DOMAIN sessions' = DOMAIN sessions \cup {id}
         /\ Erase(id) => SessionsType' /\ DOMAIN sessions' = DOMAIN sessions \ {id}
BY DEF SessionsType, Save, Erase

LEMMA OthersTypes ==
  ASSUME SessionsType, NEW id
  PROVE  Others(id) \subseteq Intervals
BY DEF SessionsType, Others, Least, IntervalsOf

LEMMA StopMultiplexTypes ==
  ASSUME MaskTypes, EngineTypes, SessionsType, NEW id, NEW fault,
         StopTrackingMultiplex(id, fault)
  PROVE  MaskTypes' /\ EngineTypes'
BY OthersTypes, StopFixTypes, StartFixTypes, EngineAsItIsTypes
DEF StopTrackingMultiplex

(* The steps that take a message, by what they change.                     *)
MiscTypes ==
  /\ client \in [Clients -> {"new", "live", "destroyed"}]
  /\ nextId \in Nat \ {0} /\ owner \in [Ids -> Clients \cup {NoClient}]
  /\ answer \in [Ids -> {"none", "started", "error"}]
  /\ handle \in {"none", "live", "dead"} /\ engineOn \in BOOLEAN
  /\ {restarts, faults} \subseteq Nat /\ errStep \in 0..3

RemovalTypes ==
  /\ DOMAIN clientData \subseteq Clients
  /\ \A c \in DOMAIN clientData : clientData[c] \subseteq Callbacks
  /\ removing \in Clients \cup {NoClient} /\ cursor \in Nat

LEMMA TypeParts ==
  SessionTypeOK <=> /\ posted \in Seq(Messages) /\ MaskTypes /\ EngineTypes
                    /\ SessionsType /\ MiscTypes /\ RemovalTypes
BY DEF SessionTypeOK, MaskTypes, EngineTypes, SessionsType, MiscTypes, RemovalTypes

LEMMA TypePartsNext ==
  SessionTypeOK' <=> /\ posted' \in Seq(Messages) /\ MaskTypes' /\ EngineTypes'
                     /\ SessionsType' /\ MiscTypes' /\ RemovalTypes'
BY DEF SessionTypeOK, MaskTypes, EngineTypes, SessionsType, MiscTypes, RemovalTypes

LEMMA SuffersTypes ==
  ASSUME MiscTypes, NEW fault, Suffers(fault)
  PROVE  faults' \in Nat /\ faults <= faults' /\ (faults' = 0 => fault = "none")
BY DEF MiscTypes, Suffers

LEMMA EventMaskType ==
  ASSUME NEW cd, \A c \in DOMAIN cd : cd[c] \subseteq Callbacks
  PROVE  EventMask(cd) \in SUBSET Callbacks
BY DEF EventMask

LEMMA MsgFacts ==
  ASSUME posted \in Seq(Messages), NEW kind \in Kinds, Taking(kind)
  PROVE  /\ posted # <<>> /\ Msg \in Messages /\ Msg.kind = kind
         /\ Msg.id \in Ids \cup {0} /\ Msg.cbs \subseteq Callbacks /\ Msg.on \in BOOLEAN
         /\ kind \in ClientKinds => Msg.client \in Clients
         /\ kind \in SessionKinds => Msg.id \in Ids
         /\ kind \in {"start", "update"} => Msg.n \in Intervals
<1>1. Msg \in Messages /\ posted # <<>> /\ Msg.kind = kind
  BY DEF Taking, Msg
<1> QED BY <1>1 DEF Messages

LEMMA StopSessionTypes ==
  ASSUME MaskTypes, EngineTypes, SessionsType, NEW id \in Ids, NEW fault,
         StopTrackingMultiplex(id, fault), Erase(id) \/ UNCHANGED sessions
  PROVE  MaskTypes' /\ EngineTypes' /\ SessionsType'
BY StopMultiplexTypes, SessionsChange DEF SessionsType

(* A message that is taken leaves everything of its type.                  *)
LEMMA TakeTypes ==
  ASSUME SessionTypeOK, AdapterTakes
  PROVE  SessionTypeOK'
<1> USE TypeParts, TypePartsNext
<1>1. CASE HandleRemoveClient
  BY <1>1, MsgFacts, TakeFacts
  DEF HandleRemoveClient, AdapterStep, clientVars, modemVars, maskVars, engineVars,
      apiVars, MaskTypes, EngineTypes, SessionsType, MiscTypes, RemovalTypes,
      ClientKinds, Kinds
<1>2. ASSUME NEW fault \in Faults,
             \/ HandleAddClient(fault)
             \/ HandleStart(fault)
             \/ HandleUpdate(fault)
             \/ HandleStop(fault)
             \/ HandleSsr(fault)
             \/ HandleSetConfig(fault)
             \/ HandleRestart(fault)
             \/ HandleEngineState(fault)
      PROVE  SessionTypeOK'
  <2> USE <1>2
  <2>1. /\ posted # <<>> /\ posted' \in Seq(Messages)
        /\ UNCHANGED <<client, nextId, owner, errStep, restarts>>
        /\ faults' \in Nat
    BY TakeFacts, SuffersTypes, Zenon
    DEF Taking, AdapterStep, clientVars, modemVars, HandleAddClient, HandleStart,
        HandleUpdate, HandleStop, HandleSsr, HandleSetConfig, HandleRestart,
        HandleEngineState
  <2>2. CASE HandleAddClient(fault)
    <3> DEFINE cd == [c \in DOMAIN clientData \cup {Msg.client} |->
                        IF c = Msg.client THEN Msg.cbs ELSE clientData[c]]
    <3>1. /\ clientData' = cd /\ Open(EventMask(cd), fault)
          /\ UNCHANGED <<sessions, removing, cursor, answer, inSession, fix, engineOn>>
      BY <2>2 DEF HandleAddClient, engineVars
    <3>2. /\ DOMAIN cd \subseteq Clients
          /\ \A c \in DOMAIN cd : cd[c] \subseteq Callbacks
      BY <2>2, MsgFacts DEF HandleAddClient, RemovalTypes, ClientKinds, Kinds
    <3>3. MaskTypes' /\ handle' \in {"none", "live", "dead"}
      <4> HIDE DEF cd
      <4> QED BY <3>1, <3>2, EventMaskType, OpenTypes DEF MiscTypes
    <3> HIDE DEF cd
    <3> QED BY <2>1, <3>1, <3>2, <3>3
            DEF EngineTypes, SessionsType, MiscTypes, RemovalTypes
  <2>3. CASE HandleStart(fault)
    <3>1. /\ MaskTypes' /\ EngineTypes'
      BY <2>3, MsgFacts, StartFixTypes, EngineAsItIsTypes
      DEF HandleStart, Kinds, ClientKinds, SessionKinds
    <3>2. SessionsType'
      BY <2>3, MsgFacts, SessionsChange
      DEF HandleStart, Kinds, ClientKinds, SessionKinds, SessionsType
    <3>3. answer' \in [Ids -> {"none", "started", "error"}]
      BY <2>3, MsgFacts
      DEF HandleStart, Answer, Kinds, ClientKinds, SessionKinds, MiscTypes
    <3> QED BY <2>1, <2>3, <3>1, <3>2, <3>3
            DEF HandleStart, apiVars, MiscTypes, RemovalTypes
  <2>4. CASE HandleUpdate(fault)
    <3> DEFINE r == IF Msg.id \in DOMAIN sessions
                    THEN UpdateRestartsWith(Msg.id, Msg.n) ELSE {}
    <3>1. r \subseteq Intervals
      BY <2>4, MsgFacts, OthersTypes
      DEF HandleUpdate, UpdateRestartsWith, Kinds, ClientKinds, SessionKinds
    <3>2. /\ MaskTypes' /\ EngineTypes'
      BY <2>4, <3>1, StartFixTypes, EngineAsItIsTypes DEF HandleUpdate
    <3>3. SessionsType'
      BY <2>4, MsgFacts, SessionsChange
      DEF HandleUpdate, Kinds, ClientKinds, SessionKinds, SessionsType
    <3> QED BY <2>1, <2>4, <3>2, <3>3
            DEF HandleUpdate, apiVars, MiscTypes, RemovalTypes
  <2>5. CASE HandleStop(fault)
    <3>1. MaskTypes' /\ EngineTypes' /\ SessionsType'
      BY <2>5, MsgFacts, StopSessionTypes, EngineAsItIsTypes
      DEF HandleStop, Kinds, ClientKinds, SessionKinds, SessionsType
    <3> QED BY <2>1, <2>5, <3>1 DEF HandleStop, apiVars, MiscTypes, RemovalTypes
  <2>6. CASE HandleSsr(fault)
    BY <2>1, <2>6, EventMaskType
    DEF HandleSsr, OpenWith, AdjustMaskIfNoSession, adapterVars, MaskTypes, Bits,
        EngineTypes, SessionsType, MiscTypes, RemovalTypes
  <2>7. CASE HandleSetConfig(fault)
    BY <2>1, <2>7
    DEF HandleSetConfig, Caches, maskVars, adapterVars, engineVars, apiVars,
        MaskTypes, Bits, EngineTypes, SessionsType, MiscTypes, RemovalTypes
  <2>8. CASE HandleRestart(fault)
    <3>1. Least(IntervalsOf(DOMAIN sessions)) \subseteq Intervals
      BY DEF Least, IntervalsOf, SessionsType
    <3>2. MaskTypes' /\ EngineTypes'
      BY <2>8, <3>1, StartFixTypes, EngineAsItIsTypes DEF HandleRestart
    <3> QED BY <2>1, <2>8, <3>2
            DEF HandleRestart, adapterVars, apiVars, SessionsType, MiscTypes, RemovalTypes
  <2>9. CASE HandleEngineState(fault)
    <3>1. Msg.on \in BOOLEAN
      BY <2>9, MsgFacts DEF HandleEngineState, Kinds
    <3>2. MaskTypes'
      BY <2>9 DEF HandleEngineState, SetModemMask, AdjustMaskIfNoSession, maskVars,
                  MaskTypes, Bits
    <3> QED BY <2>1, <2>9, <3>1, <3>2
            DEF HandleEngineState, adapterVars, engineVars, EngineTypes,
                SessionsType, MiscTypes, RemovalTypes
  <2> QED BY <2>2, <2>3, <2>4, <2>5, <2>6, <2>7, <2>8, <2>9
<1>3. ASSUME NEW fault \in Faults, StopNextSession(fault)
      PROVE  SessionTypeOK'
  <2>1. PICK id \in Least(Unvisited) :
          /\ StopTrackingMultiplex(id, fault) /\ Suffers(fault)
          /\ cursor' = id
          /\ Erase(id) \/ UNCHANGED sessions
    BY <1>3 DEF StopNextSession
  <2>2. id \in Ids
    BY DEF Least, Unvisited, SessionsType
  <2>3. MaskTypes' /\ EngineTypes' /\ SessionsType' /\ cursor' \in Nat /\ faults' \in Nat
    BY <2>1, <2>2, StopSessionTypes, SuffersTypes DEF Ids
  <2> QED BY <1>3, <2>3
          DEF StopNextSession, clientVars, apiVars, modemVars, MiscTypes, RemovalTypes
<1>4. ASSUME NEW fault \in Faults, EraseClient(fault)
      PROVE  SessionTypeOK'
  <2> DEFINE cd == [c \in DOMAIN clientData \ {removing} |-> clientData[c]]
  <2>1. /\ clientData' = cd /\ Open(EventMask(cd), fault) /\ Suffers(fault)
        /\ removing' = NoClient /\ cursor' = 0
        /\ UNCHANGED <<client, nextId, owner, posted, sessions, answer, inSession,
                       fix, engineOn, errStep, restarts>>
    BY <1>4 DEF EraseClient, clientVars, engineVars, modemVars
  <2>2. /\ DOMAIN cd \subseteq Clients
        /\ \A c \in DOMAIN cd : cd[c] \subseteq Callbacks
    BY DEF RemovalTypes
  <2> HIDE DEF cd
  <2>3. MaskTypes' /\ handle' \in {"none", "live", "dead"} /\ faults' \in Nat
    BY <2>1, <2>2, EventMaskType, OpenTypes, SuffersTypes DEF MiscTypes
  <2> QED BY <2>1, <2>2, <2>3 DEF EngineTypes, SessionsType, MiscTypes, RemovalTypes
<1> QED BY <1>1, <1>2, <1>3, <1>4 DEF AdapterTakes

(* The QMI thread posts one of three messages. *)
LEMMA RecoveryMessage ==
  ASSUME PostAfterError, errStep \in 1..3
  PROVE  \E kind \in {"ssr", "config", "restart"} :
           /\ Message(kind) \in Messages /\ Post(Message(kind))
           /\ Message(kind).kind = kind
           /\ kind = "ssr" => errStep = 3
           /\ errStep = 1 => kind = "restart"
<1> DEFINE kind == CASE errStep = 3 -> "ssr" [] errStep = 2 -> "config"
                     [] errStep = 1 -> "restart"
<1>0. /\ \A k : Message(k).kind = k
      /\ \A k \in {"ssr", "config", "restart"} : Message(k) \in Messages
      /\ Post(Message(kind))
  BY MessageFacts, Zenon DEF PostAfterError, Message
<1>1. CASE errStep = 3
  <2>1. kind = "ssr"
    BY <1>1
  <2> QED BY <1>0, <1>1, <2>1
<1>2. CASE errStep = 2
  <2>1. kind = "config"
    BY <1>2
  <2> QED BY <1>0, <1>2, <2>1
<1>3. CASE errStep = 1
  <2>1. kind = "restart"
    BY <1>3
  <2> QED BY <1>0, <1>3, <2>1
<1> QED BY <1>1, <1>2, <1>3

LEMMA PostTypes ==
  ASSUME SessionTypeOK,
         \/ ClientCalls \/ SessionCalls \/ PostAfterError
         \/ \E on \in BOOLEAN : EngineReports(on)
  PROVE  SessionTypeOK'
<1> USE TypeParts, TypePartsNext
<1>1. \A m \in Messages : Post(m) => posted' \in Seq(Messages)
  BY PostFacts
<1>2. ASSUME ClientCalls PROVE SessionTypeOK'
  <2>1. PICK c \in Clients :
          \/ \E cbs \in CallbackSets : SetCallbacks(c, cbs)
          \/ \E n \in Intervals : StartTracking(c, n)
          \/ Destroy(c)
    BY <1>2 DEF ClientCalls
  <2>2. \A cbs \in CallbackSets : SetCallbacks(c, cbs) => posted' \in Seq(Messages)
    BY <1>1, MessageFacts DEF SetCallbacks
  <2>3. \A n \in Intervals : StartTracking(c, n) => posted' \in Seq(Messages)
    BY <1>1, MessageFacts DEF StartTracking
  <2>4. Destroy(c) => posted' \in Seq(Messages)
    BY <1>1, MessageFacts DEF Destroy
  <2>5. ClientStep
    BY <2>1 DEF SetCallbacks, StartTracking, Destroy
  <2>6. /\ client' \in [Clients -> {"new", "live", "destroyed"}]
        /\ nextId' \in Nat \ {0} /\ owner' \in [Ids -> Clients \cup {NoClient}]
    <3>1. CASE \E cbs \in CallbackSets : SetCallbacks(c, cbs)
      BY <3>1 DEF SetCallbacks, MiscTypes
    <3>2. CASE \E n \in Intervals : StartTracking(c, n)
      BY <3>2 DEF StartTracking, MiscTypes
    <3>3. CASE Destroy(c)
      BY <3>3 DEF Destroy, MiscTypes
    <3> QED BY <2>1, <3>1, <3>2, <3>3
  <2> QED
    BY <2>1, <2>2, <2>3, <2>4, <2>5, <2>6
    DEF ClientStep, adapterVars, maskVars, engineVars, apiVars, modemVars, MaskTypes,
        EngineTypes, SessionsType, MiscTypes, RemovalTypes
<1>3. ASSUME SessionCalls PROVE SessionTypeOK'
  <2>1. PICK id \in Ids : \/ \E n \in Intervals : UpdateTracking(id, n)
                         \/ StopTracking(id)
    BY <1>3 DEF SessionCalls
  <2>2. posted' \in Seq(Messages)
    BY <1>1, <2>1, MessageFacts DEF UpdateTracking, StopTracking
  <2> QED
    BY <2>1, <2>2
    DEF UpdateTracking, StopTracking, ClientStep, clientVars, adapterVars, maskVars,
        engineVars, apiVars, modemVars, MaskTypes, EngineTypes, SessionsType,
        MiscTypes, RemovalTypes
<1>4. ASSUME PostAfterError PROVE SessionTypeOK'
  <2>1. errStep \in 1..3 /\ errStep' = errStep - 1
    BY <1>4 DEF PostAfterError, MiscTypes
  <2>2. posted' \in Seq(Messages)
    BY <1>1, <1>4, <2>1, RecoveryMessage
  <2> QED
    BY <1>4, <2>1, <2>2
    DEF PostAfterError, clientVars, adapterVars, maskVars, engineVars, apiVars,
        MaskTypes, EngineTypes, SessionsType, MiscTypes, RemovalTypes
<1>5. ASSUME NEW on \in BOOLEAN, EngineReports(on) PROVE SessionTypeOK'
  <2>1. posted' \in Seq(Messages)
    BY <1>1, <1>5, MessageFacts DEF EngineReports
  <2> QED
    BY <1>5, <2>1
    DEF EngineReports, clientVars, adapterVars, maskVars, engineVars, apiVars, modemVars,
        MaskTypes, EngineTypes, SessionsType, MiscTypes, RemovalTypes
<1> QED BY <1>2, <1>3, <1>4, <1>5

LEMMA TypeInductive ==
  ASSUME SessionTypeOK, [SessionNext]_sessionVars
  PROVE  SessionTypeOK'
<1>1. CASE ModemRestarts
  BY <1>1
  DEF ModemRestarts, SessionTypeOK, clientVars, adapterVars
<1>2. CASE UNCHANGED sessionVars
  BY <1>2
  DEF sessionVars, SessionTypeOK, clientVars, adapterVars, maskVars, engineVars,
      apiVars, modemVars
<1> QED BY <1>1, <1>2, TakeTypes, PostTypes DEF SessionNext

LEMMA TypeInit == SessionInit => SessionTypeOK
<1> SUFFICES ASSUME SessionInit PROVE SessionTypeOK
  OBVIOUS
<1>1. /\ DOMAIN clientData = {} /\ DOMAIN sessions = {}
      /\ sessions \in [{} -> Intervals] /\ posted \in Seq(Messages)
  BY DEF SessionInit
<1>2. /\ client \in [Clients -> {"new", "live", "destroyed"}]
      /\ owner \in [Ids -> Clients \cup {NoClient}]
      /\ answer \in [Ids -> {"none", "started", "error"}]
  BY DEF SessionInit
<1>3. /\ nextId \in Nat \ {0} /\ cursor \in Nat /\ errStep \in 0..3
      /\ resenders \in Nat /\ restarts \in Nat /\ faults \in Nat
  BY DEF SessionInit
<1>4. inSession \in BOOLEAN /\ engineOn \in BOOLEAN
  BY Zenon DEF SessionInit
<1> QED BY <1>1, <1>2, <1>3, <1>4 DEF SessionInit, SessionTypeOK

(* The variables keep their types: the messages that are queued say what   *)
(* their handlers use, and a session has an interval of its own.           *)
THEOREM SessionTypeCorrect == SessionSpec => []SessionTypeOK
<1>1. SessionInit => SessionTypeOK
  BY TypeInit
<1>2. SessionTypeOK /\ [SessionNext]_sessionVars => SessionTypeOK'
  BY TypeInductive
<1> QED BY <1>1, <1>2, PTL DEF SessionSpec

-----------------------------------------------------------------------------
(* The queue: new starts are fresh, and an open is followed by a restart.  *)

(* A message is taken; the sessions that are new were in its start.        *)
LEMMA TakeKeepsQueue ==
  ASSUME SessionTypeOK, QueueInv, posted # <<>>, Take,
         UNCHANGED <<nextId, owner, errStep>>,
         \A id \in DOMAIN sessions' :
           id \in DOMAIN sessions \/ (Msg.kind = "start" /\ id = Msg.id)
  PROVE  QueueInv'
<1>t. /\ posted \in Seq(Messages) /\ Len(posted) \in Nat /\ Len(posted') \in Nat
      /\ posted' \in Seq(Messages)
      /\ 1 \in 1..Len(posted) /\ Msg = posted[1]
      /\ \A i \in 1..Len(posted') :
           i + 1 \in 1..Len(posted) /\ posted'[i] = posted[i + 1]
      /\ \A i \in 1..Len(posted) :
           i = 1 \/ (i - 1 \in 1..Len(posted') /\ posted'[i - 1] = posted[i])
  BY TakeFacts DEF SessionTypeOK
<1> USE <1>t
<1>1. SessionsAreOld'
  <2>1. Msg.kind = "start" => Msg.id < nextId
    BY DEF QueueInv, StartsAreFresh
  <2> QED BY <2>1 DEF SessionsAreOld, QueueInv
<1>2. StartsAreFresh'
  <2> SUFFICES ASSUME NEW i \in 1..Len(posted'), posted'[i].kind = "start"
               PROVE  /\ posted'[i].id \notin DOMAIN sessions'
                      /\ posted'[i].id < nextId
                      /\ owner[posted'[i].id] = posted'[i].client
                      /\ \A j \in 1..Len(posted') :
                           posted'[j].kind = "start" /\ posted'[j].id = posted'[i].id
                             => i = j
    BY DEF StartsAreFresh
  <2>1. i + 1 \in 1..Len(posted) /\ posted'[i] = posted[i + 1] /\ i + 1 # 1
    OBVIOUS
  <2>2. \A j \in 1..Len(posted) :
          posted[j].kind = "start" /\ posted[j].id = posted'[i].id => i + 1 = j
    BY <2>1 DEF QueueInv, StartsAreFresh
  <2>3. \A j \in 1..Len(posted') :
          posted'[j].kind = "start" /\ posted'[j].id = posted'[i].id => i = j
    <3> SUFFICES ASSUME NEW j \in 1..Len(posted'), posted'[j].kind = "start",
                        posted'[j].id = posted'[i].id
                 PROVE  i = j
      OBVIOUS
    <3>0. j + 1 \in 1..Len(posted) /\ posted'[j] = posted[j + 1]
      OBVIOUS
    <3>1. i + 1 = j + 1
      BY <2>2, <3>0
    <3> QED BY <3>1
  <2>4. ~(Msg.kind = "start" /\ Msg.id = posted'[i].id)
    <3>1. 1 \in 1..Len(posted) /\ i + 1 # 1
      BY <2>1
    <3> QED BY <2>2, <3>1
  <2> QED BY <2>1, <2>3, <2>4 DEF QueueInv, StartsAreFresh
<1>3. RestartFollows'
  <2> SUFFICES ASSUME NEW i \in 1..Len(posted'), posted'[i].kind = "ssr", ~(errStep > 0)
               PROVE  \E j \in 1..Len(posted') : i < j /\ posted'[j].kind = "restart"
    BY DEF RestartFollows
  <2>1. PICK j \in 1..Len(posted) : i + 1 < j /\ posted[j].kind = "restart"
    BY DEF RestartFollows, QueueInv
  <2>2. j - 1 \in 1..Len(posted') /\ posted'[j - 1] = posted[j] /\ i < j - 1
    BY <2>1
  <2> QED BY <2>1, <2>2
<1> QED BY <1>1, <1>2, <1>3 DEF QueueInv

(* A message is posted: a start with the next id, or one that is neither a *)
(* start nor an open.                                                      *)
LEMMA PostKeepsQueue ==
  ASSUME SessionTypeOK, QueueInv, NEW m \in Messages, Post(m),
         UNCHANGED sessions,
         m.kind = "start" =>
           /\ m.id = nextId /\ nextId \in Ids /\ nextId' = nextId + 1
           /\ owner' = [owner EXCEPT ![nextId] = m.client],
         m.kind # "start" => UNCHANGED <<nextId, owner>>,
         m.kind = "ssr" => errStep' > 0,
         errStep' > 0 \/ UNCHANGED errStep \/ m.kind = "restart"
  PROVE  QueueInv'
<1>t. /\ posted \in Seq(Messages) /\ Len(posted) \in Nat
      /\ posted' \in Seq(Messages) /\ Len(posted') = Len(posted) + 1
      /\ posted'[Len(posted')] = m
      /\ \A i \in 1..Len(posted) : posted'[i] = posted[i]
      /\ \A i \in 1..Len(posted') : i = Len(posted') \/ i \in 1..Len(posted)
      /\ \A i \in 1..Len(posted) : i \in 1..Len(posted')
      /\ nextId \in Nat /\ nextId <= nextId'
  BY PostFacts DEF SessionTypeOK
<1> USE <1>t
<1>o. owner \in [Ids -> Clients \cup {NoClient}] /\ DOMAIN sessions \subseteq Ids
  BY DEF SessionTypeOK
<1>1. SessionsAreOld'
  BY <1>o DEF SessionsAreOld, QueueInv, Ids
<1>2. StartsAreFresh'
  <2> SUFFICES ASSUME NEW i \in 1..Len(posted'), posted'[i].kind = "start"
               PROVE  /\ posted'[i].id \notin DOMAIN sessions
                      /\ posted'[i].id < nextId'
                      /\ owner'[posted'[i].id] = posted'[i].client
                      /\ \A j \in 1..Len(posted') :
                           posted'[j].kind = "start" /\ posted'[j].id = posted'[i].id
                             => i = j
    BY DEF StartsAreFresh
  <2>1. CASE i \in 1..Len(posted)
    <3>1. /\ posted[i].id \notin DOMAIN sessions /\ posted[i].id < nextId
          /\ owner[posted[i].id] = posted[i].client /\ posted[i] \in Messages
      BY <2>1 DEF QueueInv, StartsAreFresh
    <3>0. posted[i].id \in Ids /\ posted[i].id \in Nat
      BY <2>1, <3>1 DEF Messages, SessionKinds, Ids
    <3>2. posted[i].id < nextId' /\ owner'[posted[i].id] = posted[i].client
      BY <1>o, <3>0, <3>1
    <3>3. \A j \in 1..Len(posted') :
            posted'[j].kind = "start" /\ posted'[j].id = posted'[i].id => i = j
      <4> TAKE j \in 1..Len(posted')
      <4>1. CASE j \in 1..Len(posted)
        BY <2>1, <4>1 DEF QueueInv, StartsAreFresh
      <4>2. CASE j = Len(posted')
        BY <2>1, <3>0, <3>1, <4>2
      <4> QED BY <4>1, <4>2
    <3> QED BY <2>1, <3>1, <3>2, <3>3
  <2>2. CASE i = Len(posted')
    <3>1. m.id = nextId /\ m.kind = "start"
      BY <2>2
    <3>2. nextId \notin DOMAIN sessions
      BY DEF QueueInv, SessionsAreOld
    <3>3. \A j \in 1..Len(posted) : posted[j].kind = "start" => posted[j].id # nextId
      BY DEF QueueInv, StartsAreFresh
    <3>4. m.id < nextId' /\ owner'[m.id] = m.client
      BY <1>o, <3>1
    <3>5. \A j \in 1..Len(posted') :
            posted'[j].kind = "start" /\ posted'[j].id = m.id => j = Len(posted')
      BY <3>1, <3>3
    <3> QED BY <2>2, <3>1, <3>2, <3>4, <3>5
  <2> QED BY <2>1, <2>2
<1>3. RestartFollows'
  <2> SUFFICES ASSUME NEW i \in 1..Len(posted'), posted'[i].kind = "ssr", ~(errStep' > 0)
               PROVE  \E j \in 1..Len(posted') : i < j /\ posted'[j].kind = "restart"
    BY DEF RestartFollows
  <2>1. i \in 1..Len(posted) /\ posted[i].kind = "ssr"
    OBVIOUS
  <2>2. CASE errStep > 0
    BY <2>1, <2>2
  <2>3. CASE ~(errStep > 0)
    <3>1. PICK j \in 1..Len(posted) : i < j /\ posted[j].kind = "restart"
      BY <2>1, <2>3 DEF RestartFollows, QueueInv
    <3> QED BY <2>1, <3>1
  <2> QED BY <2>2, <2>3
<1> QED BY <1>1, <1>2, <1>3 DEF QueueInv

-----------------------------------------------------------------------------
(* The intervals of the sessions, as sessions come and go.                 *)

Rest(id) == IntervalsOf(DOMAIN sessions \ {id})

LEMMA WantedFacts ==
  ASSUME SessionsType
  PROVE  /\ Wanted \subseteq Nat
         /\ DOMAIN sessions = {} <=> Wanted = {}
         /\ \A id : Rest(id) \subseteq Nat
         /\ \A id \in DOMAIN sessions :
              Wanted = Rest(id) \cup {sessions[id]} /\ sessions[id] \in Nat
         /\ \A id : id \notin DOMAIN sessions => Wanted = Rest(id)
         /\ \A id : DOMAIN sessions = {id} => Rest(id) = {}
BY DEF SessionsType, Wanted, Rest, IntervalsOf

LEMMA WantedNext ==
  ASSUME SessionsType
  PROVE  /\ \A id, n : Save(id, n) =>
              Wanted' = Rest(id) \cup {n} /\ DOMAIN sessions' # {}
         /\ \A id : Erase(id) =>
              Wanted' = Rest(id) /\ (DOMAIN sessions' # {} => ~Only(id))
         /\ UNCHANGED sessions => Wanted' = Wanted
BY DEF SessionsType, Wanted, Rest, IntervalsOf, Save, Erase, Only

-----------------------------------------------------------------------------
(* The engine, while the modem refuses nothing.                            *)

(* Starting and stopping the engine's session fits the events to it.       *)
LEMMA EngineKeepsMasks ==
  ASSUME NothingRefused, MasksFit, faults = 0, UNCHANGED <<handle, engineOn, clientData, restarts>>,
         \/ \E n : StartFix(n, "none")
         \/ StopFix("none")
         \/ EngineAsItIs("none")
  PROVE  NothingRefused' /\ MasksFit'
<1> USE DEF RegisterEventMask, SetModemMask, Caches, Arms, BusyFaults, Live,
            AdjustMaskIfNoSession, maskVars, engineVars, NothingRefused, MasksFit
<1>0. EventMask(clientData)' = EventMask(clientData)
  OBVIOUS
<1>1. CASE \E n : StartFix(n, "none")
  BY <1>0, <1>1 DEF StartFix
<1>2. CASE StopFix("none")
  BY <1>0, <1>2 DEF StopFix
<1>3. CASE EngineAsItIs("none")
  BY <1>0, <1>3 DEF EngineAsItIs
<1> QED BY <1>1, <1>2, <1>3

LEMMA OpenKeepsMasks ==
  ASSUME NothingRefused, MasksFit, faults = 0, NEW cd, Open(EventMask(cd), "none"),
         clientData' = cd, UNCHANGED <<engineOn, inSession, restarts>>
  PROVE  NothingRefused' /\ MasksFit' /\ UNCHANGED handle
<1>0. EventMask(clientData)' = EventMask(cd)
  OBVIOUS
<1> DEFINE mask == EventMask(cd)
<1>1. handle # "none" /\ resenders = 0 /\ evtMask = EventMask(clientData)
  BY DEF NothingRefused
<1>2. CASE mask # evtMask
  <2>1. RegisterEventMask(mask, inSession, "none") /\ UNCHANGED handle
    BY <1>1, <1>2 DEF Open
  <2>2. resenders' = 0 /\ evtMask' = mask
    BY <1>1, <2>1 DEF RegisterEventMask, SetModemMask, Caches, BusyFaults
  <2>3. MasksFit'
    BY <1>1, <2>1
    DEF RegisterEventMask, SetModemMask, Arms, BusyFaults, Live,
        AdjustMaskIfNoSession, MasksFit
  <2> QED BY <1>0, <2>1, <2>2, <2>3 DEF NothingRefused
<1>3. CASE mask = evtMask
  <2>1. UNCHANGED <<handle, evtMask, qmiMask, modemMask, resenders>>
    BY <1>1, <1>3 DEF Open, maskVars
  <2> QED BY <1>0, <1>1, <1>3, <2>1 DEF NothingRefused, MasksFit
<1> QED BY <1>2, <1>3

(* The engine follows a session that starts or changes its interval,       *)
LEMMA SaveServes ==
  ASSUME SessionsType, NEW id, NEW n \in Nat, Save(id, n),
         fix = Least(Wanted), DOMAIN sessions # {} => inSession,
         id \notin DOMAIN sessions =>
           \/ StartsEngine(n) /\ fix' = {n} /\ inSession'
           \/ ~StartsEngine(n) /\ UNCHANGED <<fix, inSession>>,
         id \in DOMAIN sessions =>
           \/ \E m \in UpdateRestartsWith(id, n) : fix' = {m} /\ inSession'
           \/ UpdateRestartsWith(id, n) = {} /\ UNCHANGED <<fix, inSession>>
  PROVE  fix' = Least(Wanted)' /\ inSession'
<1>0. Wanted' = Rest(id) \cup {n} /\ Rest(id) \subseteq Nat /\ Wanted \subseteq Nat
  BY WantedFacts, WantedNext
<1>1. CASE id \notin DOMAIN sessions
  <2>1. Wanted = Rest(id) /\ (StartsEngine(n) <=> Below(n, Least(Rest(id))))
    BY <1>1, WantedFacts DEF StartsEngine, Wanted
  <2>2. CASE StartsEngine(n)
    BY <1>0, <1>1, <2>1, <2>2, LeastBelow
  <2>3. CASE ~StartsEngine(n)
    BY <1>0, <1>1, <2>1, <2>3, LeastNotBelow, WantedFacts
  <2> QED BY <2>2, <2>3
<1>2. CASE id \in DOMAIN sessions
  <2>1. /\ Wanted = Rest(id) \cup {sessions[id]} /\ sessions[id] \in Nat
        /\ Others(id) = Least(Rest(id)) /\ inSession
    BY <1>2, WantedFacts DEF Others, Rest
  <2>2. CASE Only(id) \/ Below(n, Others(id))
    <3>1. UpdateRestartsWith(id, n) = {n}
      BY <2>2 DEF UpdateRestartsWith
    <3>2. Below(n, Least(Rest(id)))
      BY <2>1, <2>2, WantedFacts, LeastOfNone DEF Below, Only
    <3> QED BY <1>0, <1>2, <3>1, <3>2, LeastBelow
  <2>3. CASE ~Only(id) /\ ~Below(n, Others(id)) /\ Below(sessions[id], Others(id))
    <3>1. UpdateRestartsWith(id, n) = Least(Rest(id))
      BY <2>1, <2>3 DEF UpdateRestartsWith
    <3>2. Rest(id) # {} /\ Least(Rest(id) \cup {n}) = Least(Rest(id))
      BY <1>0, <2>1, <2>3, LeastNotBelow
    <3>3. PICK x : Least(Rest(id)) = {x}
      BY <1>0, <3>2, LeastIsSingle
    <3> QED BY <1>0, <1>2, <3>1, <3>2, <3>3
  <2>4. CASE ~Only(id) /\ ~Below(n, Others(id)) /\ ~Below(sessions[id], Others(id))
    <3>1. UpdateRestartsWith(id, n) = {}
      BY <2>4 DEF UpdateRestartsWith
    <3>2. Least(Rest(id) \cup {n}) = Least(Wanted)
      BY <1>0, <2>1, <2>4, LeastNotBelow
    <3> QED BY <1>0, <1>2, <2>1, <3>1, <3>2
  <2> QED BY <2>2, <2>3, <2>4
<1> QED BY <1>1, <1>2

(* and one that stops.                                                     *)
LEMMA StopServes ==
  ASSUME SessionsType, handle = "live", NEW id \in DOMAIN sessions,
         StopTrackingMultiplex(id, "none"), Erase(id)
  PROVE  /\ DOMAIN sessions' = {} => fix' = {} /\ ~inSession'
         /\ fix = Least(Wanted) /\ inSession =>
              /\ fix' = Least(Wanted)'
              /\ DOMAIN sessions' # {} => inSession'
<1>0. /\ Wanted' = Rest(id) /\ Rest(id) \subseteq Nat
      /\ DOMAIN sessions' = {} <=> Only(id)
      /\ Wanted = Rest(id) \cup {sessions[id]} /\ sessions[id] \in Nat
      /\ Others(id) = Least(Rest(id))
  BY WantedFacts, WantedNext DEF Erase, Only, Others, Rest
<1>1. CASE Only(id)
  BY <1>0, <1>1, WantedFacts, LeastOfNone
  DEF StopTrackingMultiplex, StopFix, Only
<1>2. CASE ~Only(id) /\ Below(sessions[id], Others(id))
  <2>1. PICK n \in Least(Rest(id)) : StartFix(n, "none")
    BY <1>0, <1>2 DEF StopTrackingMultiplex
  <2>2. Rest(id) # {}
    BY <2>1 DEF Least
  <2>3. PICK x : Least(Rest(id)) = {x}
    BY <1>0, <2>2, LeastIsSingle
  <2> QED BY <1>0, <1>2, <2>1, <2>3 DEF StartFix
<1>3. CASE ~Only(id) /\ ~Below(sessions[id], Others(id))
  <2>1. Least(Wanted) = Least(Rest(id))
    BY <1>0, <1>3, LeastNotBelow
  <2> QED BY <1>0, <1>3, <2>1
          DEF StopTrackingMultiplex, EngineAsItIs, engineVars
<1> QED BY <1>1, <1>2, <1>3

-----------------------------------------------------------------------------
(* The steps.                                                              *)

(* A message other than a restart leaves the restarts in the queue.        *)
LEMMA RestartStays ==
  ASSUME posted \in Seq(Messages), posted # <<>>, Take, Msg.kind # "restart"
  PROVE  RestartQueued => RestartQueued'
<1> SUFFICES ASSUME RestartQueued PROVE RestartQueued'
  OBVIOUS
<1>1. PICK i \in 1..Len(posted) : posted[i].kind = "restart"
  BY DEF RestartQueued
<1>2. i - 1 \in 1..Len(posted') /\ posted'[i - 1] = posted[i]
  BY <1>1, TakeFacts
<1> QED BY <1>1, <1>2 DEF RestartQueued

(* After the message that opens the connection there is a restart.         *)
LEMMA OpenBeforeRestart ==
  ASSUME SessionTypeOK, RestartFollows, posted # <<>>, Take, Msg.kind = "ssr", errStep = 0
  PROVE  RestartQueued'
<1>1. /\ 1 \in 1..Len(posted) /\ Msg = posted[1] /\ posted \in Seq(Messages)
  BY TakeFacts DEF SessionTypeOK
<1>2. PICK j \in 1..Len(posted) : 1 < j /\ posted[j].kind = "restart"
  BY <1>1 DEF RestartFollows
<1>3. j - 1 \in 1..Len(posted') /\ posted'[j - 1] = posted[j]
  BY <1>1, <1>2, TakeFacts
<1> QED BY <1>2, <1>3 DEF RestartQueued

(* Without a fault now there was none before, and this step is none.       *)
LEMMA NoFault ==
  ASSUME SessionTypeOK, NEW fault, Suffers(fault), faults' = 0
  PROVE  faults = 0 /\ fault = "none"
BY DEF SessionTypeOK, Suffers

(* No faults, no invariant. *)
LEMMA FaultsEnd ==
  ASSUME faults' # 0
  PROVE  EngineInv' /\ ClientInv'
BY DEF EngineInv, NothingRefused, MasksFit, IdleEngine, ServesSmallest, ClientInv,
       PassedAreStopped, NoOrphanSession

LEMMA TakeKeepsEngine ==
  ASSUME IInv, AdapterTakes, faults' = 0
  PROVE  EngineInv' /\ ClientInv'
<1> USE TypeParts
<1>0. /\ SessionTypeOK /\ NothingRefused /\ MasksFit /\ IdleEngine /\ ServesSmallest
      /\ PassedAreStopped /\ NoOrphanSession /\ StartsAreFresh /\ RestartFollows
      /\ SessionsType /\ posted \in Seq(Messages)
  BY DEF IInv, EngineInv, ClientInv, QueueInv
<1>1. CASE HandleRemoveClient
  <2>1. UNCHANGED <<clientData, sessions, owner, restarts, faults, handle, evtMask,
                    qmiMask, modemMask, resenders, inSession, fix, engineOn, errStep>>
    BY <1>1 DEF HandleRemoveClient, AdapterStep, clientVars, modemVars, maskVars,
                engineVars, apiVars
  <2>2. RestartQueued => RestartQueued'
    BY <1>0, <1>1, RestartStays DEF HandleRemoveClient, Taking, AdapterStep, Msg
  <2>3. PassedAreStopped'
    BY <1>1, <1>0 DEF HandleRemoveClient, PassedAreStopped, SessionsType, Ids
  <2>4. NothingRefused' /\ MasksFit'
    BY <1>0, <2>1 DEF NothingRefused, MasksFit, EventMask
  <2>5. IdleEngine' /\ ServesSmallest' /\ NoOrphanSession'
    BY <1>0, <2>1, <2>2
    DEF IdleEngine, ServesSmallest, NoOrphanSession, Wanted, IntervalsOf
  <2> QED BY <2>3, <2>4, <2>5 DEF EngineInv, ClientInv
<1>2. ASSUME NEW fault \in Faults, HandleAddClient(fault)
      PROVE  EngineInv' /\ ClientInv'
  <2> DEFINE cd == [c \in DOMAIN clientData \cup {Msg.client} |->
                      IF c = Msg.client THEN Msg.cbs ELSE clientData[c]]
  <2>1. /\ Open(EventMask(cd), fault) /\ clientData' = cd /\ Suffers(fault)
        /\ UNCHANGED <<engineOn, inSession, fix, restarts, sessions, owner, removing, errStep>>
        /\ posted # <<>> /\ Take /\ Msg.kind = "add" /\ removing = NoClient
    BY <1>2 DEF HandleAddClient, AdapterStep, clientVars, modemVars, engineVars,
                Taking, Msg
  <2>2. DOMAIN clientData \subseteq DOMAIN cd
    OBVIOUS
  <2> HIDE DEF cd
  <2>3. faults = 0 /\ fault = "none"
    BY <1>0, <2>1, NoFault
  <2>4. NothingRefused' /\ MasksFit' /\ UNCHANGED handle
    BY <1>0, <2>1, <2>3, OpenKeepsMasks
  <2>5. RestartQueued => RestartQueued'
    BY <1>0, <2>1, RestartStays
  <2>6. IdleEngine' /\ ServesSmallest'
    BY <1>0, <2>1, <2>3, <2>4, <2>5
    DEF IdleEngine, ServesSmallest, Wanted, IntervalsOf
  <2>7. PassedAreStopped' /\ NoOrphanSession'
    BY <1>0, <2>1, <2>2, <2>3 DEF PassedAreStopped, NoOrphanSession
  <2> QED BY <2>4, <2>6, <2>7 DEF EngineInv, ClientInv
<1>3. ASSUME NEW fault \in Faults, HandleStart(fault)
      PROVE  EngineInv' /\ ClientInv'
  <2> DEFINE valid == HasTrackingCallback(Msg.client)
             starts == valid /\ StartsEngine(Msg.n)
             succeeds == valid /\ (starts => StartFixSucceeds(fault))
  <2>1. /\ Suffers(fault) /\ posted # <<>> /\ Take /\ Msg.kind = "start"
        /\ removing = NoClient
        /\ UNCHANGED <<handle, engineOn, clientData, restarts, owner, removing, errStep>>
        /\ \/ starts /\ StartFix(Msg.n, fault)
           \/ ~starts /\ EngineAsItIs(fault)
        /\ \/ succeeds /\ Save(Msg.id, Msg.n)
           \/ ~succeeds /\ UNCHANGED sessions
    BY <1>3 DEF HandleStart, AdapterStep, clientVars, modemVars, apiVars, Taking, Msg
  <2>2. faults = 0 /\ fault = "none"
    BY <1>0, <2>1, NoFault
  <2>3. NothingRefused' /\ MasksFit'
    BY <1>0, <2>1, <2>2, EngineKeepsMasks
  <2>4. RestartQueued => RestartQueued'
    BY <1>0, <2>1, RestartStays
  <2>5. /\ Msg.id \notin DOMAIN sessions /\ owner[Msg.id] = Msg.client
        /\ Msg.id \in Ids /\ Msg.n \in Intervals /\ Msg.n \in Nat
    <3>1. 1 \in 1..Len(posted) /\ Msg = posted[1]
      BY <1>0, <2>1, TakeFacts
    <3>2. Msg.id \in Ids /\ Msg.n \in Intervals
      BY <1>0, <1>3, MsgFacts DEF HandleStart, Kinds, ClientKinds, SessionKinds
    <3> QED BY <1>0, <2>1, <3>1, <3>2 DEF StartsAreFresh
  <2>6. ASSUME handle = "live"
        PROVE  IdleEngine' /\ ServesSmallest'
    <3>1. succeeds <=> valid
      BY <2>2, <2>6 DEF StartFixSucceeds
    <3>2. CASE valid
      <4>1. Save(Msg.id, Msg.n) /\ DOMAIN sessions' # {}
        BY <1>0, <2>1, <3>1, <3>2, WantedNext
      <4>2. \/ StartsEngine(Msg.n) /\ fix' = {Msg.n} /\ inSession'
            \/ ~StartsEngine(Msg.n) /\ UNCHANGED <<fix, inSession>>
        BY <2>1, <2>2, <2>6, <3>2 DEF StartFix, EngineAsItIs, engineVars
      <4>3. IdleEngine'
        BY <4>1 DEF IdleEngine
      <4>4. ServesSmallest'
        <5> SUFFICES ASSUME errStep = 0, ~RestartQueued'
                     PROVE  fix' = Least(Wanted)' /\ inSession'
          BY <2>1 DEF ServesSmallest
        <5>1. fix = Least(Wanted) /\ (DOMAIN sessions # {} => inSession)
          BY <1>0, <2>2, <2>4, <2>6 DEF ServesSmallest
        <5> HIDE DEF valid, starts, succeeds
        <5> QED BY <1>0, <2>5, <4>1, <4>2, <5>1, SaveServes
      <4> QED BY <4>3, <4>4
    <3>3. CASE ~valid
      <4>1. UNCHANGED <<sessions, fix, inSession>>
        BY <2>1, <3>3 DEF EngineAsItIs, engineVars
      <4> QED BY <1>0, <2>1, <2>2, <2>4, <4>1
              DEF IdleEngine, ServesSmallest, Wanted, IntervalsOf
    <3> QED BY <3>2, <3>3
  <2>7. handle # "live" => IdleEngine' /\ ServesSmallest'
    BY <2>1 DEF IdleEngine, ServesSmallest
  <2>8. NoOrphanSession'
    BY <1>0, <2>1, <2>2, <2>5, WantedNext, SessionsChange
    DEF NoOrphanSession, HasTrackingCallback
  <2>9. PassedAreStopped'
    BY <2>1 DEF PassedAreStopped
  <2> QED BY <2>3, <2>6, <2>7, <2>8, <2>9 DEF EngineInv, ClientInv
<1>4. ASSUME NEW fault \in Faults, HandleUpdate(fault)
      PROVE  EngineInv' /\ ClientInv'
  <2> DEFINE known == Msg.id \in DOMAIN sessions
             restarted == IF known THEN UpdateRestartsWith(Msg.id, Msg.n) ELSE {}
             succeeds == known /\ (restarted # {} => StartFixSucceeds(fault))
  <2>1. /\ Suffers(fault) /\ posted # <<>> /\ Take /\ Msg.kind = "update"
        /\ removing = NoClient
        /\ UNCHANGED <<handle, engineOn, clientData, restarts, owner, removing, errStep>>
        /\ \/ \E n \in restarted : StartFix(n, fault)
           \/ restarted = {} /\ EngineAsItIs(fault)
        /\ \/ succeeds /\ Save(Msg.id, Msg.n)
           \/ ~succeeds /\ UNCHANGED sessions
    BY <1>4 DEF HandleUpdate, AdapterStep, clientVars, modemVars, apiVars, Taking, Msg
  <2>2. faults = 0 /\ fault = "none"
    BY <1>0, <2>1, NoFault
  <2>3. NothingRefused' /\ MasksFit'
    BY <1>0, <2>1, <2>2, EngineKeepsMasks
  <2>4. RestartQueued => RestartQueued'
    BY <1>0, <2>1, RestartStays
  <2>5. Msg.id \in Ids /\ Msg.n \in Intervals /\ Msg.n \in Nat
    BY <1>0, <1>4, MsgFacts DEF HandleUpdate, Kinds, ClientKinds, SessionKinds
  <2>6. ASSUME handle = "live"
        PROVE  IdleEngine' /\ ServesSmallest'
    <3>1. succeeds <=> known
      BY <2>2, <2>6 DEF StartFixSucceeds
    <3>2. CASE known
      <4>1. Save(Msg.id, Msg.n) /\ DOMAIN sessions' # {}
        BY <1>0, <2>1, <3>1, <3>2, WantedNext
      <4>2. \/ \E m \in UpdateRestartsWith(Msg.id, Msg.n) : fix' = {m} /\ inSession'
            \/ /\ UpdateRestartsWith(Msg.id, Msg.n) = {}
               /\ UNCHANGED <<fix, inSession>>
        BY <2>1, <2>2, <2>6, <3>2 DEF StartFix, EngineAsItIs, engineVars
      <4>3. IdleEngine'
        BY <4>1 DEF IdleEngine
      <4>4. ServesSmallest'
        <5> SUFFICES ASSUME errStep = 0, ~RestartQueued'
                     PROVE  fix' = Least(Wanted)' /\ inSession'
          BY <2>1 DEF ServesSmallest
        <5>1. fix = Least(Wanted) /\ (DOMAIN sessions # {} => inSession)
          BY <1>0, <2>2, <2>4, <2>6 DEF ServesSmallest
        <5>2. Msg.id \in DOMAIN sessions
          BY <3>2
        <5> HIDE DEF known, restarted, succeeds
        <5> QED BY <1>0, <2>5, <4>1, <4>2, <5>1, <5>2, SaveServes
      <4> QED BY <4>3, <4>4
    <3>3. CASE ~known
      <4>1. UNCHANGED <<sessions, fix, inSession>>
        BY <2>1, <3>3 DEF EngineAsItIs, engineVars
      <4> QED BY <1>0, <2>1, <2>2, <2>4, <4>1
              DEF IdleEngine, ServesSmallest, Wanted, IntervalsOf
    <3> QED BY <3>2, <3>3
  <2>7. handle # "live" => IdleEngine' /\ ServesSmallest'
    BY <2>1 DEF IdleEngine, ServesSmallest
  <2>8. NoOrphanSession'
    <3>1. DOMAIN sessions' = DOMAIN sessions
      BY <1>0, <2>1, <2>5, SessionsChange
    <3> QED BY <1>0, <2>1, <2>2, <3>1 DEF NoOrphanSession
  <2>9. PassedAreStopped'
    BY <2>1 DEF PassedAreStopped
  <2> QED BY <2>3, <2>6, <2>7, <2>8, <2>9 DEF EngineInv, ClientInv
<1>5. ASSUME NEW fault \in Faults, HandleStop(fault)
      PROVE  EngineInv' /\ ClientInv'
  <2>1. /\ Suffers(fault) /\ posted # <<>> /\ Take /\ Msg.kind = "stop"
        /\ removing = NoClient
        /\ UNCHANGED <<handle, engineOn, clientData, restarts, owner, removing, errStep>>
        /\ \/ /\ Msg.id \in DOMAIN sessions
              /\ StopTrackingMultiplex(Msg.id, fault)
              /\ \/ StopSucceeds(Msg.id, fault) /\ Erase(Msg.id)
                 \/ ~StopSucceeds(Msg.id, fault) /\ UNCHANGED sessions
           \/ EngineAsItIs(fault) /\ UNCHANGED sessions
    BY <1>5 DEF HandleStop, AdapterStep, clientVars, modemVars, apiVars, Taking, Msg
  <2>2. faults = 0 /\ fault = "none"
    BY <1>0, <2>1, NoFault
  <2>3. NothingRefused' /\ MasksFit'
    BY <1>0, <2>1, <2>2, EngineKeepsMasks DEF StopTrackingMultiplex
  <2>4. RestartQueued => RestartQueued'
    BY <1>0, <2>1, RestartStays
  <2>5. ASSUME handle = "live"
        PROVE  IdleEngine' /\ ServesSmallest'
    <3>1. CASE Msg.id \in DOMAIN sessions /\ StopTrackingMultiplex(Msg.id, "none")
               /\ Erase(Msg.id)
      <4>1. Msg.id \in DOMAIN sessions => DOMAIN sessions # {}
        OBVIOUS
      <4> QED BY <1>0, <2>1, <2>2, <2>4, <2>5, <3>1, <4>1, StopServes
              DEF IdleEngine, ServesSmallest
    <3>2. CASE EngineAsItIs("none") /\ UNCHANGED sessions
      BY <1>0, <2>1, <2>2, <2>4, <3>2
      DEF EngineAsItIs, engineVars, IdleEngine, ServesSmallest, Wanted, IntervalsOf
    <3> QED BY <2>1, <2>2, <2>5, <3>1, <3>2
            DEF StopSucceeds, StopFixSucceeds, StartFixSucceeds
  <2>6. handle # "live" => IdleEngine' /\ ServesSmallest'
    BY <2>1 DEF IdleEngine, ServesSmallest
  <2>7. NoOrphanSession'
    <3>1. DOMAIN sessions' \subseteq DOMAIN sessions
      BY <2>1 DEF Erase
    <3> QED BY <1>0, <2>1, <2>2, <3>1 DEF NoOrphanSession
  <2>8. PassedAreStopped'
    BY <2>1 DEF PassedAreStopped
  <2> QED BY <2>3, <2>5, <2>6, <2>7, <2>8 DEF EngineInv, ClientInv
<1>6. ASSUME NEW fault \in Faults, StopNextSession(fault)
      PROVE  EngineInv' /\ ClientInv'
  <2>1. PICK id \in Least(Unvisited) :
          /\ StopTrackingMultiplex(id, fault) /\ Suffers(fault)
          /\ cursor' = id
          /\ \/ StopSucceeds(id, fault) /\ Erase(id)
             \/ ~StopSucceeds(id, fault) /\ UNCHANGED sessions
    BY <1>6 DEF StopNextSession
  <2>2. UNCHANGED <<handle, engineOn, clientData, restarts, owner, removing, errStep, posted>>
    BY <1>6 DEF StopNextSession, clientVars, apiVars, modemVars
  <2>3. faults = 0 /\ fault = "none"
    BY <1>0, <2>1, NoFault
  <2>4. NothingRefused' /\ MasksFit'
    BY <1>0, <2>1, <2>2, <2>3, EngineKeepsMasks DEF StopTrackingMultiplex
  <2>5. id \in DOMAIN sessions /\ \A i \in Unvisited : id <= i
    BY <2>1 DEF Least, Unvisited
  <2>6. handle = "live" => Erase(id)
    BY <2>1, <2>3 DEF StopSucceeds, StopFixSucceeds, StartFixSucceeds
  <2>7. IdleEngine' /\ ServesSmallest'
    <3>1. DOMAIN sessions # {} /\ (RestartQueued' <=> RestartQueued)
      BY <2>2, <2>5 DEF RestartQueued
    <3> QED BY <1>0, <2>1, <2>2, <2>3, <2>5, <2>6, <3>1, StopServes
            DEF IdleEngine, ServesSmallest
  <2>8. NoOrphanSession'
    <3>1. DOMAIN sessions' \subseteq DOMAIN sessions
      BY <2>1 DEF Erase
    <3> QED BY <1>0, <2>2, <2>3, <3>1 DEF NoOrphanSession
  <2>9. PassedAreStopped'
    <3> SUFFICES ASSUME restarts = 0, NEW i \in DOMAIN sessions', owner[i] = removing,
                        removing # NoClient
                 PROVE  id < i
      BY <2>1, <2>2 DEF PassedAreStopped
    <3>1. Erase(id)
      BY <1>0, <2>3, <2>6 DEF NothingRefused
    <3>2. i \in DOMAIN sessions /\ i # id
      BY <3>1 DEF Erase
    <3>3. i \in Unvisited
      BY <1>0, <2>3, <3>2 DEF PassedAreStopped, Unvisited
    <3> QED BY <1>0, <2>5, <3>2, <3>3 DEF SessionsType, Ids
  <2> QED BY <2>4, <2>7, <2>8, <2>9 DEF EngineInv, ClientInv
<1>7. ASSUME NEW fault \in Faults, EraseClient(fault)
      PROVE  EngineInv' /\ ClientInv'
  <2> DEFINE cd == [c \in DOMAIN clientData \ {removing} |-> clientData[c]]
  <2>1. /\ Open(EventMask(cd), fault) /\ clientData' = cd /\ Suffers(fault)
        /\ UNCHANGED <<engineOn, inSession, fix, restarts, sessions, owner, errStep, posted>>
        /\ removing # NoClient /\ Unvisited = {} /\ removing' = NoClient
    BY <1>7 DEF EraseClient, clientVars, modemVars, engineVars
  <2>2. DOMAIN cd = DOMAIN clientData \ {removing}
    OBVIOUS
  <2> HIDE DEF cd
  <2>3. faults = 0 /\ fault = "none"
    BY <1>0, <2>1, NoFault
  <2>4. NothingRefused' /\ MasksFit' /\ UNCHANGED handle
    BY <1>0, <2>1, <2>3, OpenKeepsMasks
  <2>5. RestartQueued <=> RestartQueued'
    BY <2>1 DEF RestartQueued
  <2>6. IdleEngine' /\ ServesSmallest'
    BY <1>0, <2>1, <2>3, <2>4, <2>5
    DEF IdleEngine, ServesSmallest, Wanted, IntervalsOf
  <2>7. restarts = 0 => \A id \in DOMAIN sessions : owner[id] # removing
    BY <1>0, <2>1, <2>3 DEF PassedAreStopped, Unvisited
  <2>8. PassedAreStopped' /\ NoOrphanSession'
    BY <1>0, <2>1, <2>2, <2>3, <2>7 DEF PassedAreStopped, NoOrphanSession
  <2> QED BY <2>4, <2>6, <2>8 DEF EngineInv, ClientInv
<1>8. ASSUME NEW fault \in Faults, HandleSsr(fault)
      PROVE  EngineInv' /\ ClientInv'
  <2>1. /\ Suffers(fault) /\ posted # <<>> /\ Take /\ Msg.kind = "ssr"
        /\ removing = NoClient /\ inSession' = FALSE /\ fix' = {}
        /\ OpenWith(EventMask(clientData), FALSE, fault)
        /\ UNCHANGED <<engineOn, clientData, restarts, owner, removing, errStep, sessions>>
    BY <1>8 DEF HandleSsr, AdapterStep, clientVars, modemVars, adapterVars, Taking, Msg
  <2>2. faults = 0 /\ fault = "none"
    BY <1>0, <2>1, NoFault
  <2>3. errStep = 0 => RestartQueued'
    BY <1>0, <2>1, OpenBeforeRestart
  <2>4. NothingRefused' /\ MasksFit'
    <3>1. EventMask(clientData)' = EventMask(clientData)
      BY <2>1 DEF EventMask
    <3> QED BY <1>0, <2>1, <2>2, <3>1
            DEF OpenWith, AdjustMaskIfNoSession, NothingRefused, MasksFit
  <2>5. IdleEngine' /\ ServesSmallest'
    BY <2>1, <2>3 DEF IdleEngine, ServesSmallest
  <2>6. PassedAreStopped' /\ NoOrphanSession'
    BY <1>0, <2>1, <2>2 DEF PassedAreStopped, NoOrphanSession
  <2> QED BY <2>4, <2>5, <2>6 DEF EngineInv, ClientInv
<1>9. ASSUME NEW fault \in Faults, HandleSetConfig(fault)
      PROVE  EngineInv' /\ ClientInv'
  <2>1. /\ Suffers(fault) /\ posted # <<>> /\ Take /\ Msg.kind = "config"
        /\ removing = NoClient
        /\ fault = "none" => UNCHANGED <<evtMask, qmiMask, modemMask, resenders>>
        /\ UNCHANGED <<engineOn, clientData, restarts, owner, removing, errStep, sessions,
                       handle, inSession, fix>>
    BY <1>9 DEF HandleSetConfig, AdapterStep, clientVars, modemVars, adapterVars,
                maskVars, engineVars, apiVars, Taking, Msg
  <2>2. faults = 0 /\ fault = "none"
    BY <1>0, <2>1, NoFault
  <2>3. RestartQueued => RestartQueued'
    BY <1>0, <2>1, RestartStays
  <2>4. NothingRefused' /\ MasksFit'
    BY <1>0, <2>1, <2>2 DEF NothingRefused, MasksFit, EventMask
  <2>5. IdleEngine' /\ ServesSmallest'
    BY <1>0, <2>1, <2>2, <2>3 DEF IdleEngine, ServesSmallest, Wanted, IntervalsOf
  <2>6. PassedAreStopped' /\ NoOrphanSession'
    BY <1>0, <2>1, <2>2 DEF PassedAreStopped, NoOrphanSession
  <2> QED BY <2>4, <2>5, <2>6 DEF EngineInv, ClientInv
<1>10. ASSUME NEW fault \in Faults, HandleRestart(fault)
       PROVE  EngineInv' /\ ClientInv'
  <2>1. /\ Suffers(fault) /\ removing = NoClient
        /\ \/ \E n \in Least(Wanted) : StartFix(n, fault)
           \/ DOMAIN sessions = {} /\ EngineAsItIs(fault)
        /\ UNCHANGED <<engineOn, clientData, restarts, owner, removing, errStep, sessions,
                       handle>>
    BY <1>10 DEF HandleRestart, AdapterStep, clientVars, modemVars, adapterVars,
                 apiVars, Taking, Wanted
  <2>2. faults = 0 /\ fault = "none"
    BY <1>0, <2>1, NoFault
  <2>3. NothingRefused' /\ MasksFit'
    BY <1>0, <2>1, <2>2, EngineKeepsMasks
  <2>4. Wanted' = Wanted /\ Wanted \subseteq Nat /\ (DOMAIN sessions = {} <=> Wanted = {})
    BY <1>0, <2>1, WantedFacts, WantedNext
  <2>5. CASE \E n \in Least(Wanted) : StartFix(n, "none")
    <3>1. PICK n \in Least(Wanted) : StartFix(n, "none")
      BY <2>5
    <3>2. Wanted # {} /\ Least(Wanted) = {n}
      <4>1. Wanted # {}
        BY <3>1 DEF Least
      <4>2. PICK x : Least(Wanted) = {x}
        BY <2>4, <4>1, LeastIsSingle
      <4> QED BY <3>1, <4>1, <4>2
    <3>3. inSession' /\ (handle = "live" => fix' = {n})
      BY <3>1 DEF StartFix
    <3> QED BY <2>1, <2>3, <2>4, <3>2, <3>3, <1>0, <2>2
            DEF EngineInv, IdleEngine, ServesSmallest, ClientInv, PassedAreStopped,
                NoOrphanSession
  <2>6. CASE DOMAIN sessions = {} /\ EngineAsItIs("none")
    <3>1. UNCHANGED <<fix, inSession>>
      BY <2>6 DEF EngineAsItIs, engineVars
    <3> QED BY <2>1, <2>3, <2>4, <2>6, <3>1, <1>0, <2>2, LeastOfNone
            DEF EngineInv, IdleEngine, ServesSmallest, ClientInv, PassedAreStopped,
                NoOrphanSession
  <2> QED BY <2>1, <2>2, <2>5, <2>6
<1>11. ASSUME NEW fault \in Faults, HandleEngineState(fault)
       PROVE  EngineInv' /\ ClientInv'
  <2>1. /\ Suffers(fault) /\ posted # <<>> /\ Take /\ Msg.kind = "engine"
        /\ removing = NoClient /\ engineOn' = Msg.on
        /\ \/ Msg.on /\ UNCHANGED <<evtMask, qmiMask, modemMask, resenders>>
           \/ ~Msg.on /\ SetModemMask(evtMask, inSession, fault) /\ resenders' = 0
        /\ UNCHANGED <<clientData, restarts, owner, removing, errStep, sessions,
                       handle, inSession, fix>>
    BY <1>11 DEF HandleEngineState, AdapterStep, clientVars, modemVars, adapterVars,
                 maskVars, engineVars, Taking, Msg
  <2>2. faults = 0 /\ fault = "none"
    BY <1>0, <2>1, NoFault
  <2>3. RestartQueued => RestartQueued'
    BY <1>0, <2>1, RestartStays
  <2>4. NothingRefused' /\ MasksFit'
    <3>1. EventMask(clientData)' = EventMask(clientData)
      BY <2>1 DEF EventMask
    <3> QED BY <1>0, <2>1, <2>2, <3>1
            DEF SetModemMask, Arms, BusyFaults, Live, AdjustMaskIfNoSession,
                NothingRefused, MasksFit
  <2>5. IdleEngine' /\ ServesSmallest'
    BY <1>0, <2>1, <2>2, <2>3 DEF IdleEngine, ServesSmallest, Wanted, IntervalsOf
  <2>6. PassedAreStopped' /\ NoOrphanSession'
    BY <1>0, <2>1, <2>2 DEF PassedAreStopped, NoOrphanSession
  <2> QED BY <2>4, <2>5, <2>6 DEF EngineInv, ClientInv
<1> QED BY <1>1, <1>2, <1>3, <1>4, <1>5, <1>6, <1>7, <1>8, <1>9, <1>10, <1>11
        DEF AdapterTakes

(* A step of a client or of the modem posts a message and leaves the       *)
(* adapter and the engine alone.                                           *)
LEMMA PostKeepsInv ==
  ASSUME IInv, NEW m \in Messages, Post(m),
         UNCHANGED <<clientData, sessions, removing, cursor, handle, evtMask, qmiMask,
                     modemMask, resenders, inSession, engineOn, fix, restarts, faults>>,
         m.kind = "start" =>
           /\ m.id = nextId /\ nextId \in Ids /\ nextId' = nextId + 1
           /\ owner' = [owner EXCEPT ![nextId] = m.client],
         m.kind # "start" => UNCHANGED <<nextId, owner>>,
         m.kind = "ssr" => errStep' > 0,
         errStep' > 0 \/ UNCHANGED errStep \/ m.kind = "restart",
         errStep' \in Nat
  PROVE  QueueInv' /\ EngineInv' /\ ClientInv'
<1>0. /\ SessionTypeOK /\ NothingRefused /\ MasksFit /\ IdleEngine /\ ServesSmallest
      /\ PassedAreStopped /\ NoOrphanSession /\ SessionsAreOld /\ QueueInv
      /\ SessionsType /\ posted \in Seq(Messages)
  BY TypeParts DEF IInv, EngineInv, ClientInv, QueueInv
<1>1. QueueInv'
  BY <1>0, PostKeepsQueue
<1>2. RestartQueued => RestartQueued'
  <2>1. \A i \in 1..Len(posted) : i \in 1..Len(posted') /\ posted'[i] = posted[i]
    BY <1>0, PostFacts
  <2> QED BY <2>1 DEF RestartQueued
<1>3. m.kind = "restart" => RestartQueued'
  <2>1. Len(posted') \in 1..Len(posted') /\ posted'[Len(posted')] = m
    BY <1>0, PostFacts
  <2> QED BY <2>1 DEF RestartQueued
<1>4. NothingRefused' /\ MasksFit' /\ IdleEngine'
  BY <1>0 DEF NothingRefused, MasksFit, IdleEngine, EventMask
<1>5. ServesSmallest'
  <2>1. errStep' = 0 /\ ~RestartQueued' => errStep = 0 /\ ~RestartQueued
    BY <1>2, <1>3
  <2> QED BY <1>0, <2>1 DEF ServesSmallest, Wanted, IntervalsOf
<1>6. \A id \in DOMAIN sessions : owner'[id] = owner[id]
  <2>1. nextId \notin DOMAIN sessions /\ DOMAIN sessions \subseteq Ids
    BY <1>0 DEF SessionsAreOld, SessionsType, SessionTypeOK
  <2>2. owner \in [Ids -> Clients \cup {NoClient}]
    BY <1>0 DEF SessionTypeOK
  <2> QED BY <2>1, <2>2
<1>7. PassedAreStopped' /\ NoOrphanSession'
  BY <1>0, <1>6 DEF PassedAreStopped, NoOrphanSession
<1> QED BY <1>1, <1>4, <1>5, <1>7 DEF EngineInv, ClientInv

LEMMA IInvInductive ==
  ASSUME IInv, [SessionNext]_sessionVars
  PROVE  IInv'
<1>0. /\ SessionTypeOK /\ NothingRefused /\ MasksFit /\ IdleEngine /\ ServesSmallest
      /\ PassedAreStopped /\ NoOrphanSession /\ QueueInv /\ posted \in Seq(Messages)
      /\ nextId \in Nat /\ errStep \in 0..3
  BY TypeParts DEF IInv, EngineInv, ClientInv, MiscTypes
<1>t. SessionTypeOK'
  BY <1>0, TypeInductive
<1>s. \A k : Message(k).kind = k
  BY DEF Message
<1>1. CASE ClientCalls
  <2>0. ASSUME ClientStep
        PROVE  UNCHANGED <<clientData, sessions, removing, cursor, handle, evtMask, qmiMask,
                           modemMask, resenders, inSession, engineOn, fix, restarts,
                           faults, errStep>>
    BY <2>0 DEF ClientStep, adapterVars, maskVars, engineVars, apiVars, modemVars
  <2>1. PICK c \in Clients :
          \/ \E cbs \in CallbackSets : SetCallbacks(c, cbs)
          \/ \E n \in Intervals : StartTracking(c, n)
          \/ Destroy(c)
    BY <1>1 DEF ClientCalls
  <2>2. CASE \E cbs \in CallbackSets : SetCallbacks(c, cbs)
    <3>1. PICK cbs \in CallbackSets : SetCallbacks(c, cbs)
      BY <2>2
    <3> DEFINE m == [Message("add") EXCEPT !.client = c, !.cbs = cbs]
    <3>2. m \in Messages /\ m.kind = "add"
      BY MessageFacts DEF Message
    <3>3. Post(m) /\ ClientStep /\ UNCHANGED <<nextId, owner>>
      BY <3>1 DEF SetCallbacks
    <3> HIDE DEF m
    <3> QED BY <1>0, <1>t, <2>0, <3>2, <3>3, PostKeepsInv DEF IInv
  <2>3. CASE \E n \in Intervals : StartTracking(c, n)
    <3>1. PICK n \in Intervals : StartTracking(c, n)
      BY <2>3
    <3> DEFINE m == [Message("start") EXCEPT !.client = c, !.id = nextId, !.n = n]
    <3>2. nextId \in Ids
      BY <3>1 DEF StartTracking
    <3>3. m \in Messages /\ m.kind = "start" /\ m.id = nextId /\ m.client = c
      BY <3>2, MessageFacts DEF Message
    <3>4. /\ Post(m) /\ ClientStep /\ nextId' = nextId + 1
          /\ owner' = [owner EXCEPT ![nextId] = c]
      BY <3>1 DEF StartTracking
    <3> HIDE DEF m
    <3>5. owner' = [owner EXCEPT ![nextId] = m.client]
      BY <3>3, <3>4
    <3>6. errStep' \in Nat /\ UNCHANGED errStep
      BY <1>0, <2>0, <3>4
    <3>7. QueueInv' /\ EngineInv' /\ ClientInv'
      BY <2>0, <3>2, <3>3, <3>4, <3>5, <3>6, PostKeepsInv
    <3> QED BY <1>t, <3>7 DEF IInv
  <2>4. CASE Destroy(c)
    <3> DEFINE m == [Message("remove") EXCEPT !.client = c]
    <3>2. m \in Messages /\ m.kind = "remove"
      BY MessageFacts DEF Message
    <3>3. Post(m) /\ ClientStep /\ UNCHANGED <<nextId, owner>>
      BY <2>4 DEF Destroy
    <3> HIDE DEF m
    <3> QED BY <1>0, <1>t, <2>0, <3>2, <3>3, PostKeepsInv DEF IInv
  <2> QED BY <2>1, <2>2, <2>3, <2>4
<1>2. CASE SessionCalls
  <2>1. PICK id \in Ids : \/ \E n \in Intervals : UpdateTracking(id, n)
                         \/ StopTracking(id)
    BY <1>2 DEF SessionCalls
  <2>2. ClientStep /\ UNCHANGED clientVars
    BY <2>1 DEF UpdateTracking, StopTracking
  <2>3. \E m \in Messages : m.kind \in {"update", "stop"} /\ Post(m)
    <3>1. CASE \E n \in Intervals : UpdateTracking(id, n)
      <4>1. PICK n \in Intervals, c \in Clients :
              Post([Message("update") EXCEPT !.client = c, !.id = id, !.n = n])
        BY <3>1 DEF UpdateTracking
      <4> DEFINE m == [Message("update") EXCEPT !.client = c, !.id = id, !.n = n]
      <4>2. m \in Messages /\ m.kind = "update" /\ Post(m)
        BY <2>1, <4>1, MessageFacts DEF Message
      <4> QED BY <4>2
    <3>2. CASE StopTracking(id)
      <4>1. PICK c \in Clients :
              Post([Message("stop") EXCEPT !.client = c, !.id = id])
        BY <3>2 DEF StopTracking
      <4> DEFINE m == [Message("stop") EXCEPT !.client = c, !.id = id]
      <4>2. m \in Messages /\ m.kind = "stop" /\ Post(m)
        BY <2>1, <4>1, MessageFacts DEF Message
      <4> QED BY <4>2
    <3> QED BY <2>1, <3>1, <3>2
  <2>4. PICK m \in Messages : m.kind \in {"update", "stop"} /\ Post(m)
    BY <2>3
  <2>5. UNCHANGED <<clientData, sessions, removing, cursor, handle, evtMask, qmiMask,
                    modemMask, resenders, inSession, engineOn, fix, restarts, faults,
                    errStep, nextId, owner>>
    BY <2>2 DEF ClientStep, clientVars, adapterVars, maskVars, engineVars, apiVars,
                modemVars
  <2> QED BY <1>0, <1>t, <2>4, <2>5, PostKeepsInv DEF IInv
<1>3. CASE PostAfterError
  <2>1. errStep \in 1..3 /\ errStep' = errStep - 1
    BY <1>0, <1>3 DEF PostAfterError
  <2>2. PICK kind \in {"ssr", "config", "restart"} :
          /\ Message(kind) \in Messages /\ Post(Message(kind))
          /\ Message(kind).kind = kind
          /\ kind = "ssr" => errStep = 3
          /\ errStep = 1 => kind = "restart"
    BY <1>3, <2>1, RecoveryMessage
  <2> DEFINE m == Message(kind)
  <2>3. /\ m \in Messages /\ Post(m) /\ m.kind # "start"
        /\ m.kind = "ssr" => errStep' > 0
        /\ errStep' > 0 \/ m.kind = "restart"
        /\ errStep' \in Nat
    BY <2>1, <2>2
  <2>4. UNCHANGED <<clientData, sessions, removing, cursor, handle, evtMask, qmiMask,
                    modemMask, resenders, inSession, engineOn, fix, restarts, faults,
                    nextId, owner>>
    BY <1>3 DEF PostAfterError, clientVars, adapterVars, maskVars, engineVars, apiVars
  <2> HIDE DEF m
  <2> QED BY <1>0, <1>t, <2>3, <2>4, PostKeepsInv DEF IInv
<1>4. ASSUME NEW on \in BOOLEAN, EngineReports(on)
      PROVE  IInv'
  <2> DEFINE m == [Message("engine") EXCEPT !.on = on]
  <2>1. m \in Messages /\ m.kind = "engine"
    BY MessageFacts DEF Message
  <2>2. Post(m) /\ UNCHANGED <<clientData, sessions, removing, cursor, handle, evtMask,
                               qmiMask, modemMask, resenders, inSession, engineOn, fix,
                               restarts, faults, errStep, nextId, owner>>
    BY <1>4 DEF EngineReports, clientVars, adapterVars, maskVars, engineVars, apiVars,
                modemVars
  <2> HIDE DEF m
  <2> QED BY <1>0, <1>t, <2>1, <2>2, PostKeepsInv DEF IInv
<1>5. CASE ModemRestarts
  <2>1. /\ handle' = "dead" /\ fix' = {} /\ modemMask' = {} /\ errStep' = 3
        /\ restarts' = restarts + 1 /\ restarts \in Nat
        /\ UNCHANGED <<client, nextId, owner, posted, clientData, sessions, removing,
                       cursor, evtMask, qmiMask, resenders, inSession, engineOn, faults>>
    BY <1>0, <1>5 DEF ModemRestarts, clientVars, adapterVars, SessionTypeOK
  <2>2. QueueInv'
    BY <1>0, <2>1 DEF QueueInv, StartsAreFresh, SessionsAreOld, RestartFollows
  <2>3. restarts' # 0 /\ errStep' # 0
    BY <2>1
  <2>4. EventMask(clientData)' = EventMask(clientData)
    BY <2>1 DEF EventMask
  <2>5. EngineInv'
    BY <1>0, <2>1, <2>3, <2>4
    DEF EngineInv, NothingRefused, MasksFit, IdleEngine, ServesSmallest
  <2>6. ClientInv'
    BY <2>3 DEF ClientInv, PassedAreStopped, NoOrphanSession
  <2> QED BY <1>t, <2>2, <2>5, <2>6 DEF IInv
<1>6. CASE AdapterTakes
  <2>1. QueueInv'
    <3>1. CASE \E fault \in Faults : StopNextSession(fault) \/ EraseClient(fault)
      <4>1. UNCHANGED <<posted, nextId, owner, errStep>>
            /\ DOMAIN sessions' \subseteq DOMAIN sessions
        BY <3>1 DEF StopNextSession, EraseClient, clientVars, modemVars, Erase
      <4> QED BY <1>0, <4>1 DEF QueueInv, StartsAreFresh, SessionsAreOld, RestartFollows
    <3>2. CASE ~\E fault \in Faults : StopNextSession(fault) \/ EraseClient(fault)
      <4>1. /\ AdapterStep /\ posted # <<>>
            /\ \A id \in DOMAIN sessions' :
                 id \in DOMAIN sessions \/ (Msg.kind = "start" /\ id = Msg.id)
        BY <1>6, <3>2
        DEF AdapterTakes, HandleRemoveClient, HandleAddClient, HandleStart, HandleUpdate,
            HandleStop, HandleSsr, HandleSetConfig, HandleRestart, HandleEngineState,
            Taking, Msg, Save, Erase, adapterVars
      <4> QED BY <1>0, <4>1, TakeKeepsQueue
              DEF AdapterStep, clientVars, modemVars
    <3> QED BY <3>1, <3>2
  <2>2. EngineInv' /\ ClientInv'
    BY <1>6, TakeKeepsEngine, FaultsEnd
  <2> QED BY <1>t, <2>1, <2>2 DEF IInv
<1>7. CASE UNCHANGED sessionVars
  <2>1. UNCHANGED <<client, nextId, owner, posted, clientData, sessions, removing, cursor,
                    answer, handle, evtMask, qmiMask, modemMask, resenders, inSession,
                    engineOn, fix, errStep, restarts, faults>>
    BY <1>7 DEF sessionVars, clientVars, adapterVars, maskVars, engineVars, apiVars,
                modemVars
  <2>2. QueueInv'
    BY <1>0, <2>1 DEF QueueInv, StartsAreFresh, SessionsAreOld, RestartFollows
  <2>3. EngineInv' /\ ClientInv'
    BY <1>0, <2>1
    DEF EngineInv, NothingRefused, MasksFit, IdleEngine, ServesSmallest, ClientInv,
        PassedAreStopped, NoOrphanSession, EventMask, Wanted, IntervalsOf, RestartQueued
  <2> QED BY <1>t, <2>2, <2>3 DEF IInv
<1> QED BY <1>1, <1>2, <1>3, <1>4, <1>5, <1>6, <1>7 DEF SessionNext

LEMMA IInvInit == SessionInit => IInv
<1> SUFFICES ASSUME SessionInit PROVE IInv
  OBVIOUS
<1>1. /\ DOMAIN clientData = {} /\ DOMAIN sessions = {} /\ Len(posted) = 0
      /\ evtMask = {} /\ qmiMask = {} /\ modemMask = {} /\ fix = {}
      /\ handle = "live" /\ resenders = 0 /\ inSession = FALSE /\ removing = NoClient
  BY DEF SessionInit
<1>2. QueueInv
  BY <1>1 DEF QueueInv, StartsAreFresh, SessionsAreOld, RestartFollows
<1>3. EngineInv
  <2>1. EventMask(clientData) = {} /\ Wanted = {}
    BY <1>1 DEF EventMask, Wanted, IntervalsOf
  <2> QED BY <1>1, <2>1, LeastOfNone
          DEF EngineInv, NothingRefused, MasksFit, IdleEngine, ServesSmallest
<1>4. ClientInv
  BY <1>1 DEF ClientInv, PassedAreStopped, NoOrphanSession
<1> QED BY <1>2, <1>3, <1>4, TypeInit DEF IInv

LEMMA IInvHolds == SessionSpec => []IInv
<1>1. SessionInit => IInv
  BY IInvInit
<1>2. IInv /\ [SessionNext]_sessionVars => IInv'
  BY IInvInductive
<1> QED BY <1>1, <1>2, PTL DEF SessionSpec

LEMMA RecoveredFacts == Recovered => handle # "dead" /\ errStep = 0 /\ ~RestartQueued
BY DEF Recovered, RestartQueued

(* GnssAdapter's multiplexing: while the modem refuses nothing its session *)
(* has the smallest interval of all sessions, also after a restart, once   *)
(* the messages that it causes are taken.                                  *)
THEOREM SmallestIsServed == SessionSpec => []EngineServesSmallest
<1>1. IInv => EngineServesSmallest
  BY RecoveredFacts, TypeParts
  DEF IInv, EngineInv, NothingRefused, ServesSmallest, EngineServesSmallest, Wanted,
      MiscTypes
<1> QED BY <1>1, IInvHolds, PTL

(* stopClientSessions: a client that is gone leaves no session behind,     *)
(* while the modem neither refuses nor restarts.                           *)
THEOREM NoSessionIsOrphan == SessionSpec => []NoOrphanSession
<1>1. IInv => NoOrphanSession
  BY DEF IInv, ClientInv
<1> QED BY <1>1, IInvHolds, PTL

(* registerEventMask: with a session the modem reports what the clients    *)
(* want, and without one none of the events that only a session needs.     *)
THEOREM EventsAreFollowed == SessionSpec => []EventsFollowSessions
<1>1. IInv => EventsFollowSessions
  <2> SUFFICES ASSUME IInv, faults = 0, Recovered
               PROVE  /\ DOMAIN sessions # {} => EventMask(clientData) \subseteq modemMask
                      /\ DOMAIN sessions = {} /\ ~engineOn => modemMask \cap SessionBits = {}
    BY DEF EventsFollowSessions
  <2>1. /\ NothingRefused /\ MasksFit /\ IdleEngine /\ ServesSmallest
        /\ handle \in {"none", "live", "dead"}
    BY TypeParts DEF IInv, EngineInv, MiscTypes
  <2>2. handle = "live" /\ errStep = 0 /\ ~RestartQueued
    BY <2>1, RecoveredFacts DEF NothingRefused
  <2>3. evtMask = EventMask(clientData) /\ modemMask = qmiMask
    BY <2>1, <2>2 DEF NothingRefused, MasksFit
  <2>4. CASE DOMAIN sessions # {}
    BY <2>1, <2>2, <2>3, <2>4 DEF ServesSmallest, MasksFit
  <2>5. CASE DOMAIN sessions = {}
    BY <2>1, <2>2, <2>3, <2>5 DEF IdleEngine, MasksFit
  <2> QED BY <2>4, <2>5
<1> QED BY <1>1, IInvHolds, PTL
=============================================================================
