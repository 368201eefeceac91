---------------------------- MODULE GnssSessions ----------------------------
(***************************************************************************)
(* Tracking sessions: GnssAdapter multiplexes the sessions of all clients  *)
(* of LocationAPI onto the one session of the positioning engine, which    *)
(* LocApiV02 runs over QMI (gps/gnss/GnssAdapter.cpp, gps/core/LocApiBase, *)
(* location/loc_api/loc_api_v02/LocApiV02.cpp, loc_api_v02_client.c).      *)
(*                                                                         *)
(* Clients post messages from their own threads; the adapter's thread      *)
(* takes them in order and talks to the modem.  The modem may refuse what  *)
(* it is asked, report its engine's state, and restart: the QMI thread     *)
(* then posts the three messages that open a new connection, configure it  *)
(* and restart the session, while clients go on posting.  Until the first  *)
(* is taken, what the adapter sends is lost with an error.                 *)
(*                                                                         *)
(* Configuration: no ULP library (UlpProxyBase refuses every call).  Left  *)
(* out: the mode and the accuracy of a session (an interval stands for its *)
(* LocationOptions, which are valid), and callbacks other than those for   *)
(* tracking, which stand for all that report only during a session, and    *)
(* for NI requests.  A client keeps one of those that make it a client of  *)
(* GnssAdapter (isGnssClient): LocationAPI tells the adapter nothing more  *)
(* of one that has given them up, not even that it is destroyed.           *)
(***************************************************************************)
EXTENDS Naturals, Sequences

CONSTANTS
  Clients,     \* clients of LocationAPI
  NoClient,
  Intervals,   \* values of LocationOptions.minInterval
  CallbackSets,\* the callbacks that a client may set
  MaxIds,      \* bound on the sessions ever started
  MaxPosted,   \* bound on the messages the clients and the modem have queued
  MaxTroubles  \* bound on the modem's restarts and refusals

Callbacks == {"track", "ni"}
SessionBits == {"track", "state"}  \* the events LocApiV02 wants in a session only
Bits == Callbacks \cup {"state"}

ASSUME IntervalsAssumption == Intervals \subseteq Nat
ASSUME CallbacksAssumption == CallbackSets \subseteq SUBSET Callbacks
(* isGnssClient: each set makes its client one of GnssAdapter. *)
ASSUME GnssClientAssumption == {} \notin CallbackSets
ASSUME BoundsAssumption == {MaxIds, MaxPosted, MaxTroubles} \subseteq Nat
ASSUME NoClientAssumption == NoClient \notin Clients

Ids == 1..MaxIds
NoInterval == 0

VARIABLES
  client,      \* client[c]: "new", "live", or "destroyed"
  nextId,      \* mSessionIdCounter + 1
  owner,       \* owner[id]: the client that started session id
  posted,      \* the queue of the adapter's MsgTask
  clientData,  \* mClientData: callbacks by client
  sessions,    \* mTrackingSessions: intervals by session id
  removing,    \* the client whose sessions stopClientSessions is stopping
  cursor,      \* the session its iterator passed last
  answer,      \* answer[id]: what the client was told of its start request
  handle,      \* clientHandle: "none", "live", or "dead" once the modem restarts
  evtMask,     \* mMask
  qmiMask,     \* mQmiMask
  inSession,   \* mInSession
  engineOn,    \* mEngineOn
  resenders,   \* length of mResenders
  fix,         \* the interval of the modem's session, {} without one
  modemMask,   \* the events the modem reports
  errStep,     \* messages the QMI thread's errorCb still has to post
  restarts, faults

clientVars == <<client, nextId, owner>>
adapterVars == <<clientData, sessions, removing, cursor, answer>>
maskVars == <<evtMask, qmiMask, modemMask, resenders>>
engineVars == <<inSession, fix>>
apiVars == <<handle, engineOn>>
modemVars == <<errStep, restarts>>
sessionVars == <<clientVars, posted, adapterVars, maskVars, engineVars,
                 apiVars, modemVars, faults>>

SessionKinds == {"start", "update", "stop"}
ClientKinds == {"add", "remove"} \cup SessionKinds
Kinds == ClientKinds \cup {"ssr", "config", "restart", "engine"}

Messages ==
  {m \in [kind : Kinds, client : Clients \cup {NoClient}, id : Ids \cup {0},
          n : Intervals \cup {NoInterval}, cbs : SUBSET Callbacks, on : BOOLEAN] :
     /\ m.kind \in ClientKinds => m.client \in Clients
     /\ m.kind \in SessionKinds => m.id \in Ids
     /\ m.kind \in {"start", "update"} => m.n \in Intervals}

Message(kind) ==
  [kind |-> kind, client |-> NoClient, id |-> 0, n |-> NoInterval,
   cbs |-> {}, on |-> FALSE]

SessionInit ==
  /\ client = [c \in Clients |-> "new"]
  /\ nextId = 1
  /\ owner = [id \in Ids |-> NoClient]
  /\ posted = <<>>
  /\ clientData = [c \in {} |-> {}]
  /\ sessions = [id \in {} |-> NoInterval]
  /\ removing = NoClient /\ cursor = 0
  /\ answer = [id \in Ids |-> "none"]
  /\ handle = "live"
  /\ evtMask = {} /\ qmiMask = {} /\ modemMask = {}
  /\ inSession = FALSE /\ engineOn = FALSE /\ resenders = 0
  /\ fix = {} /\ errStep = 0
  /\ restarts = 0 /\ faults = 0

-----------------------------------------------------------------------------
(* LocApiV02.  A request to the modem fails when the connection is not     *)
(* live, or by a fault:                                                    *)
(*   "register"  the modem refuses the event mask;                         *)
(*   "mode"      it rejects the operation mode in its indication;          *)
(*   "busy"      it refuses the mode with ENGINE_BUSY in its response;     *)
(*   "busyInd"   it refuses the mode with ENGINE_BUSY in its indication;   *)
(*   "send"      the request for the start or the stop fails;              *)
(*   "open"      the connection cannot be opened.                          *)

Faults == {"none", "register", "mode", "busy", "busyInd", "send", "open"}
BusyFaults == {"busy", "busyInd"}

Live(fault) == handle = "live" /\ fault # "register"

(* Faults are counted; without a live connection there are none but the    *)
(* failure to open one.                                                    *)
Suffers(fault) ==
  /\ fault # "none" => restarts + faults < MaxTroubles
  /\ fault \notin {"none", "open"} => handle = "live"
  /\ faults' = IF fault = "none" THEN faults ELSE faults + 1

AdjustMaskIfNoSession(mask, ses) == IF ses THEN mask ELSE mask \ SessionBits

(* locSyncSendReq caches a request refused as busy: the first one cached   *)
(* makes the modem report the engine's state, without a note in mQmiMask.  *)
Caches(fault) == resenders' = IF fault \in BusyFaults THEN resenders + 1 ELSE resenders
Arms(fault) == fault \in BusyFaults /\ resenders = 0

(* Mutant of SetModemMask: mQmiMask notes the engine's state.              *)
SetModemMaskNoted(mask, ses, fault) ==
  LET qmi == AdjustMaskIfNoSession(mask, ses)
      new == IF Live(fault) THEN qmi ELSE qmiMask
  IN
  /\ evtMask' = mask
  /\ qmiMask' = IF Arms(fault) THEN new \cup {"state"} ELSE new
  /\ modemMask' = IF Live(fault) THEN qmiMask' ELSE modemMask

(* registerEventMask, and what the request after it adds if it is refused. *)
SetModemMask(mask, ses, fault) ==
  LET qmi == AdjustMaskIfNoSession(mask, ses)
      changes == qmi # qmiMask /\ Live(fault)
  IN
  /\ evtMask' = mask
  /\ qmiMask' = IF changes THEN qmi ELSE qmiMask
  /\ modemMask' = IF Arms(fault) THEN qmiMask' \cup {"state"}
                  ELSE IF changes THEN qmi ELSE modemMask

RegisterEventMask(mask, ses, fault) ==
  SetModemMask(mask, ses, fault) /\ Caches(fault)

(* startFix with the interval n, and what it returns.  The start is sent   *)
(* only if the mode was set; a mode rejected in an indication is lost on   *)
(* the caller.                                                             *)
StartFix(n, fault) ==
  /\ fault # "open"
  /\ inSession' = TRUE
  /\ RegisterEventMask(evtMask, TRUE, fault)
  /\ fix' = IF handle = "live" /\ fault \in {"none", "register"} THEN {n} ELSE fix

StartFixSucceeds(fault) == handle = "live" /\ fault \notin {"busy", "send"}

(* Mutant of StopFix: the session's events stay registered.                *)
StopFixKeepsEvents(fault) ==
  /\ fault \in {"none", "send"}
  /\ inSession' = FALSE
  /\ fix' = IF handle = "live" /\ fault # "send" THEN {} ELSE fix
  /\ UNCHANGED maskVars

(* stopFix, and what it returns. *)
StopFix(fault) ==
  /\ fault \in {"none", "register", "send"}
  /\ inSession' = FALSE
  /\ fix' = IF handle = "live" /\ fault # "send" THEN {} ELSE fix
  /\ \/ ~engineOn /\ RegisterEventMask(evtMask, FALSE, fault)
     \/ engineOn /\ UNCHANGED maskVars

StopFixSucceeds(fault) == handle = "live" /\ fault # "send"

(* open, with a connection already there and without one. *)
OpenWith(mask, ses, fault) ==
  /\ handle' = IF fault = "open" THEN "none" ELSE "live"
  /\ evtMask' = IF fault = "open" THEN {} ELSE mask
  /\ qmiMask' = IF fault = "open" THEN {} ELSE AdjustMaskIfNoSession(mask, ses)
  /\ modemMask' = qmiMask'
  /\ UNCHANGED resenders

Open(mask, fault) ==
  \/ /\ handle = "none"
     /\ fault \in {"none", "open"}
     /\ OpenWith(mask, inSession, fault)
  \/ /\ handle # "none" /\ mask # evtMask
     /\ fault \in {"none", "register"}
     /\ RegisterEventMask(mask, inSession, fault)
     /\ UNCHANGED handle
  \/ /\ handle # "none" /\ mask = evtMask
     /\ fault = "none"
     /\ UNCHANGED <<handle, maskVars>>

-----------------------------------------------------------------------------
(* GnssAdapter: multiplexing.                                              *)

Least(ns) == {n \in ns : \A m \in ns : n <= m}
IntervalsOf(ids) == {sessions[id] : id \in ids}

(* The smallest interval of the sessions other than id. *)
Others(id) == Least(IntervalsOf(DOMAIN sessions \ {id}))
Only(id) == DOMAIN sessions = {id}
Below(n, ns) == \A m \in ns : n < m

Save(id, n) ==
  sessions' = [i \in DOMAIN sessions \cup {id} |->
                 IF i = id THEN n ELSE sessions[i]]
Erase(id) ==
  sessions' = [i \in DOMAIN sessions \ {id} |-> sessions[i]]

EngineAsItIs(fault) == fault = "none" /\ UNCHANGED <<maskVars, engineVars>>

HasTrackingCallback(c) == c \in DOMAIN clientData /\ "track" \in clientData[c]

(* Mutant of Answer: an error is not reported.                             *)
AnswerSuccess(c, id, result) ==
  answer' = IF c \in DOMAIN clientData /\ result = "started"
            THEN [answer EXCEPT ![id] = result] ELSE answer

(* reportResponse, to a client that is still there. *)
Answer(c, id, result) ==
  answer' = IF c \in DOMAIN clientData THEN [answer EXCEPT ![id] = result] ELSE answer

(* startTrackingMultiplex: the first session and one below all others      *)
(* (re)start the engine.                                                   *)
StartsEngine(n) == Below(n, Least(IntervalsOf(DOMAIN sessions)))

(* updateTrackingMultiplex: the interval the engine is restarted with when *)
(* the interval of session id becomes n; {} when it goes on as it is.      *)
UpdateRestartsWith(id, n) ==
  IF Only(id) \/ Below(n, Others(id)) THEN {n}
  ELSE IF Below(sessions[id], Others(id)) THEN Others(id)
  ELSE {}

(* Mutant of StopTrackingMultiplex: the engine goes on with the interval   *)
(* of the session that is stopped.                                         *)
StopTrackingKeepsPace(id, fault) ==
  \/ Only(id) /\ StopFix(fault)
  \/ ~Only(id) /\ EngineAsItIs(fault)

(* stopTrackingMultiplex, and what it returns. *)
StopTrackingMultiplex(id, fault) ==
  \/ Only(id) /\ StopFix(fault)
  \/ /\ ~Only(id) /\ Below(sessions[id], Others(id))
     /\ \E n \in Others(id) : StartFix(n, fault)
  \/ /\ ~Only(id) /\ ~Below(sessions[id], Others(id))
     /\ EngineAsItIs(fault)

StopSucceeds(id, fault) ==
  IF Only(id) THEN StopFixSucceeds(fault)
  ELSE Below(sessions[id], Others(id)) => StartFixSucceeds(fault)

(* updateClientsEventMask's union over the clients of cd. *)
EventMask(cd) == UNION {cd[c] : c \in DOMAIN cd}

-----------------------------------------------------------------------------
(* GnssAdapter: the messages.                                              *)

Taking(kind) == removing = NoClient /\ posted # <<>> /\ Head(posted).kind = kind
Msg == Head(posted)
Take == posted' = Tail(posted)

AdapterStep == Take /\ UNCHANGED <<clientVars, modemVars>>

(* MsgAddClient, also sent when a client changes its callbacks. *)
HandleAddClient(fault) ==
  LET cd == [c \in DOMAIN clientData \cup {Msg.client} |->
               IF c = Msg.client THEN Msg.cbs ELSE clientData[c]]
  IN
  /\ Taking("add") /\ AdapterStep /\ Suffers(fault)
  /\ clientData' = cd
  /\ Open(EventMask(cd), fault)
  /\ UNCHANGED <<sessions, removing, cursor, answer, engineVars, engineOn>>

(* MsgStartTracking. *)
HandleStart(fault) ==
  LET valid == HasTrackingCallback(Msg.client)
      starts == valid /\ StartsEngine(Msg.n)
      succeeds == valid /\ (starts => StartFixSucceeds(fault))
  IN
  /\ Taking("start") /\ AdapterStep /\ Suffers(fault)
  /\ \/ starts /\ StartFix(Msg.n, fault)
     \/ ~starts /\ EngineAsItIs(fault)
  /\ \/ succeeds /\ Save(Msg.id, Msg.n)
     \/ ~succeeds /\ UNCHANGED sessions
  /\ Answer(Msg.client, Msg.id, IF succeeds THEN "started" ELSE "error")
  /\ UNCHANGED <<clientData, removing, cursor, apiVars>>

(* MsgUpdateTracking; an id that is no session is left to the other        *)
(* adapter.                                                                *)
HandleUpdate(fault) ==
  LET known == Msg.id \in DOMAIN sessions
      restarted == IF known THEN UpdateRestartsWith(Msg.id, Msg.n) ELSE {}
      succeeds == known /\ (restarted # {} => StartFixSucceeds(fault))
  IN
  /\ Taking("update") /\ AdapterStep /\ Suffers(fault)
  /\ \/ \E n \in restarted : StartFix(n, fault)
     \/ restarted = {} /\ EngineAsItIs(fault)
  /\ \/ succeeds /\ Save(Msg.id, Msg.n)
     \/ ~succeeds /\ UNCHANGED sessions
  /\ UNCHANGED <<clientData, removing, cursor, answer, apiVars>>

(* MsgStopTracking, likewise. *)
HandleStop(fault) ==
  /\ Taking("stop") /\ AdapterStep /\ Suffers(fault)
  /\ \/ /\ Msg.id \in DOMAIN sessions
        /\ StopTrackingMultiplex(Msg.id, fault)
        /\ \/ StopSucceeds(Msg.id, fault) /\ Erase(Msg.id)
           \/ ~StopSucceeds(Msg.id, fault) /\ UNCHANGED sessions
     \/ /\ Msg.id \notin DOMAIN sessions
        /\ EngineAsItIs(fault) /\ UNCHANGED sessions
  /\ UNCHANGED <<clientData, removing, cursor, answer, apiVars>>

(* MsgRemoveClient: stopClientSessions visits the client's sessions in the *)
(* order of their ids and erases those it could stop; then eraseClient.    *)
HandleRemoveClient ==
  /\ Taking("remove") /\ AdapterStep
  /\ removing' = Msg.client /\ cursor' = 0
  /\ UNCHANGED <<clientData, sessions, answer, maskVars, engineVars, apiVars, faults>>

Unvisited == {id \in DOMAIN sessions : owner[id] = removing /\ id > cursor}

(* Mutant of StopNextSession: the iterator moves on from the session that  *)
(* was erased, too.                                                        *)
StopEverySecondSession(fault) ==
  /\ removing # NoClient
  /\ \E id \in Least(Unvisited) :
       /\ StopTrackingMultiplex(id, fault) /\ Suffers(fault)
       /\ IF StopSucceeds(id, fault) THEN cursor' = id + 1 /\ Erase(id)
          ELSE cursor' = id /\ UNCHANGED sessions
  /\ UNCHANGED <<clientVars, posted, clientData, removing, answer, apiVars, modemVars>>

StopNextSession(fault) ==
  /\ removing # NoClient
  /\ \E id \in Least(Unvisited) :
       /\ StopTrackingMultiplex(id, fault) /\ Suffers(fault)
       /\ cursor' = id
       /\ \/ StopSucceeds(id, fault) /\ Erase(id)
          \/ ~StopSucceeds(id, fault) /\ UNCHANGED sessions
  /\ UNCHANGED <<clientVars, posted, clientData, removing, answer, apiVars, modemVars>>

EraseClient(fault) ==
  LET cd == [c \in DOMAIN clientData \ {removing} |-> clientData[c]] IN
  /\ removing # NoClient /\ Unvisited = {}
  /\ clientData' = cd
  /\ Open(EventMask(cd), fault) /\ Suffers(fault)
  /\ removing' = NoClient /\ cursor' = 0
  /\ UNCHANGED <<clientVars, posted, sessions, answer, engineVars, engineOn, modemVars>>

(* LocSsrMsg: close and open.  The engine state is not forgotten, nor are  *)
(* the cached requests.                                                    *)
HandleSsr(fault) ==
  /\ Taking("ssr") /\ AdapterStep /\ Suffers(fault)
  /\ fault \in {"none", "open"}
  /\ inSession' = FALSE /\ fix' = {}
  /\ OpenWith(EventMask(clientData), FALSE, fault)
  /\ UNCHANGED <<adapterVars, engineOn>>

(* MsgSetConfig: requests of which the modem may refuse one as busy. *)
HandleSetConfig(fault) ==
  /\ Taking("config") /\ AdapterStep /\ Suffers(fault)
  /\ fault \in {"none", "busy"}
  /\ \/ fault = "none" /\ UNCHANGED maskVars
     \/ /\ fault = "busy" /\ Caches(fault)
        /\ modemMask' = IF Arms(fault) THEN qmiMask \cup {"state"} ELSE modemMask
        /\ UNCHANGED <<evtMask, qmiMask>>
  /\ UNCHANGED <<adapterVars, engineVars, apiVars>>

(* Mutant of HandleRestart: the sessions are left to the clients.          *)
HandleRestartIdly(fault) ==
  /\ Taking("restart") /\ AdapterStep /\ Suffers(fault)
  /\ EngineAsItIs(fault)
  /\ UNCHANGED <<adapterVars, apiVars>>

(* MsgRestartSessions: the result of the start is not looked at. *)
HandleRestart(fault) ==
  /\ Taking("restart") /\ AdapterStep /\ Suffers(fault)
  /\ \/ \E n \in Least(IntervalsOf(DOMAIN sessions)) : StartFix(n, fault)
     \/ DOMAIN sessions = {} /\ EngineAsItIs(fault)
  /\ UNCHANGED <<adapterVars, apiVars>>

(* MsgUpdateEngineState.  The engine's stop unregisters the events of the  *)
(* session and sends again what was refused.                               *)
HandleEngineState(fault) ==
  /\ Taking("engine") /\ AdapterStep /\ Suffers(fault)
  /\ fault \in {"none", "register"}
  /\ engineOn' = Msg.on
  /\ \/ /\ Msg.on /\ fault = "none"
        /\ UNCHANGED maskVars
     \/ /\ ~Msg.on
        /\ SetModemMask(evtMask, inSession, fault)
        /\ resenders' = 0
  /\ UNCHANGED <<adapterVars, engineVars, handle>>

-----------------------------------------------------------------------------
(* The clients: LocationAPI's calls, each of which posts a message.        *)

Post(m) == posted' = Append(posted, m)
HasRoom == Len(posted) < MaxPosted
ClientStep ==
  UNCHANGED <<adapterVars, maskVars, engineVars, apiVars, modemVars, faults>>

(* createInstance and updateCallbacks, with callbacks for the adapter.     *)
SetCallbacks(c, cbs) ==
  /\ client[c] # "destroyed" /\ HasRoom
  /\ client' = [client EXCEPT ![c] = "live"]
  /\ Post([Message("add") EXCEPT !.client = c, !.cbs = cbs])
  /\ ClientStep /\ UNCHANGED <<nextId, owner>>

StartTracking(c, n) ==
  /\ client[c] = "live" /\ HasRoom /\ nextId \in Ids
  /\ nextId' = nextId + 1
  /\ owner' = [owner EXCEPT ![nextId] = c]
  /\ Post([Message("start") EXCEPT !.client = c, !.id = nextId, !.n = n])
  /\ ClientStep /\ UNCHANGED client

UpdateTracking(id, n) ==
  /\ \E c \in Clients :
       /\ owner[id] = c /\ client[c] = "live"
       /\ Post([Message("update") EXCEPT !.client = c, !.id = id, !.n = n])
  /\ HasRoom
  /\ ClientStep /\ UNCHANGED clientVars

StopTracking(id) ==
  /\ \E c \in Clients :
       /\ owner[id] = c /\ client[c] = "live"
       /\ Post([Message("stop") EXCEPT !.client = c, !.id = id])
  /\ HasRoom
  /\ ClientStep /\ UNCHANGED clientVars

(* The destructor: a client of this module is one of the GNSS adapter.     *)
Destroy(c) ==
  /\ client[c] = "live" /\ HasRoom
  /\ client' = [client EXCEPT ![c] = "destroyed"]
  /\ Post([Message("remove") EXCEPT !.client = c])
  /\ ClientStep /\ UNCHANGED <<nextId, owner>>

-----------------------------------------------------------------------------
(* The modem, and the QMI thread that hears of it.                         *)

ModemRestarts ==
  /\ handle = "live" /\ errStep = 0 /\ restarts + faults < MaxTroubles
  /\ handle' = "dead"
  /\ fix' = {} /\ modemMask' = {}
  /\ errStep' = 3 /\ restarts' = restarts + 1
  /\ UNCHANGED <<clientVars, posted, adapterVars, evtMask, qmiMask, resenders,
                 inSession, engineOn, faults>>

(* errorCb: handleEngineUpEvent posts its messages one after the other. *)
PostAfterError ==
  /\ errStep > 0
  /\ Post(Message(CASE errStep = 3 -> "ssr" [] errStep = 2 -> "config"
                    [] errStep = 1 -> "restart"))
  /\ errStep' = errStep - 1
  /\ UNCHANGED <<clientVars, adapterVars, maskVars, engineVars, apiVars,
                 restarts, faults>>

(* The engine starts or stops, for this session or another's, and the      *)
(* modem says so if it was asked to.                                       *)
EngineReports(on) ==
  /\ "state" \in modemMask /\ HasRoom
  /\ Post([Message("engine") EXCEPT !.on = on])
  /\ UNCHANGED <<clientVars, adapterVars, maskVars, engineVars, apiVars,
                 modemVars, faults>>

ClientCalls ==
  \E c \in Clients :
    \/ \E cbs \in CallbackSets : SetCallbacks(c, cbs)
    \/ \E n \in Intervals : StartTracking(c, n)
    \/ Destroy(c)

SessionCalls ==
  \E id \in Ids :
    \/ \E n \in Intervals : UpdateTracking(id, n)
    \/ StopTracking(id)

AdapterTakes ==
  \/ HandleRemoveClient
  \/ \E fault \in Faults :
       \/ HandleAddClient(fault)
       \/ HandleStart(fault)
       \/ HandleUpdate(fault)
       \/ HandleStop(fault)
       \/ StopNextSession(fault)
       \/ EraseClient(fault)
       \/ HandleSsr(fault)
       \/ HandleSetConfig(fault)
       \/ HandleRestart(fault)
       \/ HandleEngineState(fault)

SessionNext ==
  \/ ClientCalls
  \/ SessionCalls
  \/ AdapterTakes
  \/ PostAfterError
  \/ ModemRestarts
  \/ \E on \in BOOLEAN : EngineReports(on)

SessionSpec == SessionInit /\ [][SessionNext]_sessionVars

(* MsgTask's loop takes message after message, and the QMI thread posts    *)
(* what it has to.  Nobody has to call, and the modem need not do anything.*)
SessionFairness ==
  WF_sessionVars(AdapterTakes) /\ WF_sessionVars(PostAfterError)

-----------------------------------------------------------------------------
(* Properties.                                                             *)

SessionTypeOK ==
  /\ client \in [Clients -> {"new", "live", "destroyed"}]
  /\ nextId \in Nat \ {0} /\ owner \in [Ids -> Clients \cup {NoClient}]
  /\ posted \in Seq(Messages)
  /\ DOMAIN clientData \subseteq Clients
  /\ \A c \in DOMAIN clientData : clientData[c] \subseteq Callbacks
  /\ sessions \in [DOMAIN sessions -> Intervals] /\ DOMAIN sessions \subseteq Ids
  /\ removing \in Clients \cup {NoClient} /\ cursor \in Nat
  /\ answer \in [Ids -> {"none", "started", "error"}]
  /\ handle \in {"none", "live", "dead"}
  /\ evtMask \subseteq Callbacks /\ qmiMask \subseteq Callbacks
  /\ modemMask \subseteq Bits
  /\ {inSession, engineOn} \subseteq BOOLEAN
  /\ fix \subseteq Intervals
  /\ {resenders, restarts, faults} \subseteq Nat /\ errStep \in 0..3

(* A modem restart has been dealt with: every message it causes is posted  *)
(* and taken.                                                              *)
Recovered ==
  /\ handle # "dead" /\ errStep = 0
  /\ \A i \in 1..Len(posted) : posted[i].kind \notin {"ssr", "config", "restart"}

(* GnssAdapter's multiplexing: as long as the modem refuses nothing, its   *)
(* session has the smallest interval of all sessions, and there is one     *)
(* exactly if there are sessions; after a restart of the modem, once its   *)
(* messages are taken.                                                     *)
EngineServesSmallest ==
  faults = 0 /\ Recovered => fix = Least(IntervalsOf(DOMAIN sessions))

(* stopClientSessions: a client that is gone has left no session behind    *)
(* (it would run the engine for ever: nobody can stop it).                 *)
NoOrphanSession ==
  faults = 0 /\ restarts = 0 =>
    \A id \in DOMAIN sessions : owner[id] \in DOMAIN clientData

(* registerEventMask and adjustMaskIfNoSession: while there are sessions   *)
(* the modem reports all that the clients want, and the events that only a *)
(* session needs stay off without one, unless the engine is thought on.    *)
EventsFollowSessions ==
  faults = 0 /\ Recovered /\ removing = NoClient =>
    /\ DOMAIN sessions # {} => EventMask(clientData) \subseteq modemMask
    /\ DOMAIN sessions = {} /\ ~engineOn => modemMask \cap SessionBits = {}

(* Every start request is answered, unless its client is destroyed. *)
StartsAnswered ==
  \A id \in Ids :
    owner[id] # NoClient ~>
      answer[id] # "none" \/ \E c \in Clients : owner[id] = c /\ client[c] = "destroyed"

(* After a restart of the modem the engine runs again for the sessions     *)
(* there are, unless the modem refuses.                                    *)
EngineComesBack ==
  (DOMAIN sessions # {} /\ fix = {}) ~> (DOMAIN sessions = {} \/ fix # {} \/ faults > 0)
=============================================================================
