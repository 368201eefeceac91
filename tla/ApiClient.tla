------------------------------ MODULE ApiClient ------------------------------
(***************************************************************************)
(* LocationAPIClientBase: requests of a client wait in queues, and the     *)
(* answers of the adapters are matched to them by session and position     *)
(* (gps/location/LocationAPIClientBase.cpp, .h).                           *)
(*                                                                         *)
(* The client's calls come from any thread and run under one mutex.  Each  *)
(* adapter handles its commands on a thread of its own, in order, and      *)
(* answers through the client's callback: the request is taken out of its  *)
(* queue under the mutex, and called without it.  LocationAPI starts a     *)
(* tracking session, that of locAPIStartTracking or one in the mode "fix"  *)
(* with a client's id, on GnssAdapter ("gnss") or on the batching adapter  *)
(* ("flp"), and as it does not note on which, it sends the stops and       *)
(* updates of tracking sessions to both.  The other modes are for batching *)
(* sessions, which are flp's, and responses to network requests are for    *)
(* gnss.  flp is not in this tree: that it answers for the sessions it     *)
(* has, and says nothing of tracking sessions it does not have, is how     *)
(* LocationAPI uses it.                                                    *)
(*                                                                         *)
(* Left out: geofences, batched locations that are fetched, options,       *)
(* interfaces that could not be loaded, the client's destruction.          *)
(***************************************************************************)
EXTENDS Naturals, Sequences, Functions

CONSTANTS
  Ids,          \* the client's ids of its sessions
  Modes,        \* the modes it uses
  NiIds,        \* ids of network initiated requests
  TrackingAdapters,  \* where its tracking sessions are started
  MaxSessions,  \* bound on the sessions, which are numbered
  MaxRequests   \* bound on the client's requests

ASSUME ClientAssumption ==
  /\ Modes \subseteq {"fix", "full", "trip"} /\ NiIds \subseteq Nat
  /\ TrackingAdapters \subseteq {"gnss", "flp"}
  /\ MaxSessions \in Nat /\ MaxRequests \in Nat

Sessions == 1..MaxSessions
NoSession == 0
NoEntity == [session |-> NoSession, mode |-> "none"]
Adapters == {"gnss", "flp"}

VARIABLES
  mTracking,     \* mTracking
  queue,         \* mRequestQueues: session and requests
  dict,          \* mSessionBiDict, NoEntity for an id that it has not
  updating,      \* locAPIUpdateSessionOptions that has the mutex: the entity it read
  inbox,         \* by adapter: its commands
  answering,     \* by adapter: the callback it is in
  home,          \* by session: the adapter it was started on
  running,       \* by session: its mode at the adapter, "none" before and after
  lastSession,   \* mSessionIdCounter, which the adapters share
  lastRequest,   \* the requests are numbered
  outOfStep,     \* whether a queue's order may differ from that of its answers
  leftRunning,   \* sessions that the client gave up, and whose stop failed
  updateRefused  \* sessions for which an update was

clientVars == <<mTracking, queue, dict, updating, inbox, answering, home, running,
                lastSession, lastRequest, outOfStep, leftRunning, updateRefused>>
adapterVars == <<answering, running, leftRunning, updateRefused>>

NotAnswering == [at |-> "idle"]
NoUpdate == [session |-> NoSession]
Queues == {"tracking", "session", "ni"}

ClientInit ==
  /\ mTracking = FALSE
  /\ queue = [q \in Queues |-> [session |-> NoSession, requests |-> <<>>]]
  /\ dict = [i \in Ids |-> NoEntity]
  /\ updating = NoUpdate
  /\ inbox = [a \in Adapters |-> <<>>]
  /\ answering = [a \in Adapters |-> NotAnswering]
  /\ home = [s \in Sessions |-> "flp"]
  /\ running = [s \in Sessions |-> "none"]
  /\ lastSession = 0 /\ lastRequest = 0
  /\ outOfStep = FALSE /\ leftRunning = {} /\ updateRefused = {}

-----------------------------------------------------------------------------
(* LocationAPI.                                                            *)

Command(kind, session, mode, number) ==
  [kind |-> kind, session |-> session, mode |-> mode, number |-> number]

Sent(inboxes, to, command) ==
  [a \in Adapters |-> IF a \in to THEN Append(inboxes[a], command) ELSE inboxes[a]]

(* startTracking chooses by the client's callbacks and the options,        *)
(* startBatching is flp's.                                                 *)
StartsOn(mode) == IF mode = "fix" THEN TrackingAdapters ELSE {"flp"}

(* The adapter numbers the session before it posts the command.            *)
NewSession(a) ==
  /\ lastSession < MaxSessions
  /\ lastSession' = lastSession + 1
  /\ home' = [home EXCEPT ![lastSession + 1] = a]

(* stopTracking and updateTrackingOptions call both adapters.              *)
GoesTo(mode) == IF mode = "fix" THEN Adapters ELSE {"flp"}

-----------------------------------------------------------------------------
(* The client's calls.                                                     *)

MutexFree == updating.session = NoSession

(* The command in an inbox, or that of an answer that has not looked for   *)
(* its request.                                                            *)
Outstanding(a) ==
  Range(inbox[a]) \cup IF answering[a].at = "answer" THEN {answering[a].command} ELSE {}

Request(kind, a) == [kind |-> kind, number |-> lastRequest + 1, from |-> a]

(* A request is pushed behind the others of its queue. *)
Push(q, kind, a) == [queue[q] EXCEPT !.requests = Append(@, Request(kind, a))]

(* RequestQueue::reset: what waited in the queue is deleted, unanswered.   *)
Reset(kind, session, a) == [session |-> session, requests |-> <<Request(kind, a)>>]

NewRequest ==
  /\ lastRequest < MaxRequests
  /\ lastRequest' = lastRequest + 1
  /\ UNCHANGED adapterVars

(* Mutant of LocAPIStartTracking: what is left in the queue stays.         *)
StartWithoutReset(a) ==
  /\ MutexFree /\ ~mTracking /\ NewRequest /\ NewSession(a)
  /\ mTracking' = TRUE
  /\ queue' = [queue EXCEPT !["tracking"] =
                 [Push("tracking", "start", a) EXCEPT !.session = lastSession + 1]]
  /\ inbox' = Sent(inbox, {a}, Command("start", lastSession + 1, "fix", lastRequest + 1))
  /\ UNCHANGED <<dict, updating, outOfStep>>

LocAPIStartTracking(a) ==
  /\ MutexFree /\ ~mTracking /\ NewRequest /\ NewSession(a)
  /\ mTracking' = TRUE
  /\ queue' = [queue EXCEPT !["tracking"] = Reset("start", lastSession + 1, a)]
  /\ inbox' = Sent(inbox, {a}, Command("start", lastSession + 1, "fix", lastRequest + 1))
  /\ UNCHANGED <<dict, updating, outOfStep>>

(* locAPIStopTracking and locAPIUpdateTrackingOptions: the queue keeps the *)
(* session when it is over.                                                *)
LocAPIStopOrUpdateTracking(kind) ==
  LET session == queue["tracking"].session IN
  /\ MutexFree /\ session # NoSession /\ NewRequest
  /\ queue' = [queue EXCEPT !["tracking"] = Push("tracking", kind, home[session])]
  /\ inbox' = Sent(inbox, GoesTo("fix"), Command(kind, session, "fix", lastRequest + 1))
  /\ mTracking' = (mTracking /\ kind # "stop")
  /\ UNCHANGED <<dict, updating, home, lastSession, outOfStep>>

(* The queue of the sessions with an id has requests of both adapters:     *)
(* whichever answers first takes the first one.                            *)
PushSession(kind, a) ==
  /\ queue' = [queue EXCEPT !["session"] = Push("session", kind, a)]
  /\ outOfStep' = (outOfStep \/ \E r \in Range(queue["session"].requests) : r.from # a)

LocAPIStartSession(i, mode, a) ==
  /\ MutexFree /\ dict[i] = NoEntity /\ NewRequest /\ NewSession(a)
  /\ PushSession("start", a)
  /\ dict' = [dict EXCEPT ![i] = [session |-> lastSession + 1, mode |-> mode]]
  /\ inbox' = Sent(inbox, {a}, Command("start", lastSession + 1, mode, lastRequest + 1))
  /\ UNCHANGED <<mTracking, updating>>

LocAPIStopSession(i) ==
  LET e == dict[i] IN
  /\ MutexFree /\ e # NoEntity /\ NewRequest
  /\ PushSession("stop", home[e.session])
  /\ inbox' = Sent(inbox, GoesTo(e.mode), Command("stop", e.session, e.mode, lastRequest + 1))
  /\ UNCHANGED <<dict, mTracking, updating, home, lastSession>>

(* locAPIUpdateSessionOptions reads the session's entity, and writes it    *)
(* back at the end.  The mutex does not keep a session's removal out.      *)
LocAPIUpdateSessionOptions(i) ==
  /\ MutexFree /\ dict[i] # NoEntity /\ lastRequest < MaxRequests
  /\ updating' = [id |-> i, session |-> dict[i].session, mode |-> dict[i].mode]
  /\ UNCHANGED <<mTracking, queue, dict, inbox, adapterVars, home, lastSession,
                 lastRequest, outOfStep>>

SessionUpdated(mode) ==
  /\ ~MutexFree /\ (mode = "fix") = (updating.mode = "fix") /\ NewRequest
  /\ PushSession("update", home[updating.session])
  /\ dict' = [dict EXCEPT ![updating.id] = [session |-> updating.session, mode |-> mode]]
  /\ inbox' = Sent(inbox, GoesTo(mode), Command("update", updating.session, mode, lastRequest + 1))
  /\ updating' = NoUpdate
  /\ UNCHANGED <<mTracking, home, lastSession>>

(* From tracking to batching or back, the one session is stopped and       *)
(* another started, and there is one request for both.                     *)
SessionExchanged(mode, a) ==
  LET stop == Command("stop", updating.session, updating.mode, 0) IN
  /\ ~MutexFree /\ (mode = "fix") # (updating.mode = "fix") /\ NewRequest /\ NewSession(a)
  /\ PushSession("update", a)
  /\ dict' = [dict EXCEPT ![updating.id] = [session |-> lastSession + 1, mode |-> mode]]
  /\ inbox' = Sent(Sent(inbox, GoesTo(updating.mode), stop), {a},
                   Command("start", lastSession + 1, mode, lastRequest + 1))
  /\ updating' = NoUpdate
  /\ UNCHANGED mTracking

(* locAPIGnssNiResponse: the queue's session is the request's id.  The     *)
(* answer to an earlier response to it will take this one for its own.     *)
LocAPIGnssNiResponse(id) ==
  /\ MutexFree /\ NewRequest
  /\ queue' = [queue EXCEPT !["ni"] = Reset("respond", id, "gnss")]
  /\ outOfStep' = (outOfStep \/ \E c \in Outstanding("gnss") :
                                 c.kind = "respond" /\ c.session = id)
  /\ inbox' = Sent(inbox, {"gnss"}, Command("respond", id, "none", lastRequest + 1))
  /\ UNCHANGED <<dict, mTracking, updating, home, lastSession>>

-----------------------------------------------------------------------------
(* The adapters.                                                           *)

Answers(a, command, error) ==
  answering' = [answering EXCEPT ![a] =
                  [at |-> "answer", command |-> command, error |-> error]]

DictSessions == {dict[i].session : i \in Ids} \ {NoSession}

(* Whether the command's request is one for a session with an id.          *)
WaitsForSession(c) == \E r \in Range(queue["session"].requests) : r.number = c.number

(* The handler of a command: GnssAdapter's startTrackingCommand,           *)
(* updateTrackingOptionsCommand, stopTrackingCommand and                   *)
(* gnssNiResponseCommand.  Of a tracking session that it does not have, an *)
(* adapter says nothing, and if it was the one that had it, a request is   *)
(* left for good.                                                          *)
CommandHandled(a) ==
  LET c == Head(inbox[a])
      known == c.kind \in {"stop", "update"} /\ home[c.session] = a
               /\ running[c.session] # "none"
  IN
  /\ inbox[a] # <<>> /\ answering[a] = NotAnswering
  /\ inbox' = [inbox EXCEPT ![a] = Tail(@)]
  /\ \/ /\ c.kind \in {"start", "respond"} \/ known
        /\ \E error \in BOOLEAN :
             /\ Answers(a, c, error)
             /\ running' = IF error \/ c.kind = "respond" THEN running
                           ELSE [running EXCEPT ![c.session] =
                                   IF c.kind = "stop" THEN "none" ELSE c.mode]
             /\ leftRunning' = IF error /\ c.kind = "stop" /\ c.session \notin DictSessions
                               THEN leftRunning \cup {c.session} ELSE leftRunning
        /\ UNCHANGED outOfStep
     \/ /\ c.kind \in {"stop", "update"} /\ ~known
        /\ outOfStep' = (outOfStep \/ (home[c.session] = a /\ WaitsForSession(c)))
        /\ UNCHANGED <<answering, running, leftRunning>>
     \/ /\ c.kind \in {"stop", "update"} /\ ~known /\ c.mode # "fix"
        /\ Answers(a, c, TRUE)
        /\ UNCHANGED <<running, leftRunning, outOfStep>>
  /\ UNCHANGED <<mTracking, queue, dict, updating, home, lastSession, lastRequest,
                 updateRefused>>

(* getRequestBySession: the queue whose first request is taken.            *)
QueueOf(session) ==
  IF queue["tracking"].session = session /\ queue["tracking"].requests # <<>>
  THEN {"tracking"}
  ELSE IF queue["tracking"].session # session /\ queue["ni"].session = session
          /\ queue["ni"].requests # <<>>
  THEN {"ni"}
  ELSE IF session \in DictSessions /\ queue["session"].requests # <<>>
  THEN {"session"} ELSE {}

(* What else goes wrong with the queues: an answer that finds its session  *)
(* gone leaves its request there, and an id of a network request may be a  *)
(* session's number, also after the queue has passed on to the next id.    *)
Skips(c) ==
  \/ c.session \notin DictSessions /\ WaitsForSession(c)
  \/ /\ c.kind = "respond"
     /\ \/ queue["tracking"].session = c.session
        \/ queue["ni"].session # c.session /\ c.session \in DictSessions
  \/ c.kind # "respond" /\ queue["ni"].session = c.session

(* onResponseCb up to the unlock. *)
RequestFound(a) ==
  LET c == answering[a].command
      q == QueueOf(c.session)
  IN
  /\ MutexFree /\ answering[a].at = "answer"
  /\ outOfStep' = (outOfStep \/ Skips(c))
  /\ \/ /\ q = {} /\ answering' = [answering EXCEPT ![a] = NotAnswering]
        /\ UNCHANGED queue
     \/ \E name \in q :
          /\ answering' = [answering EXCEPT ![a] =
                             [at |-> "call", command |-> c, error |-> answering[a].error,
                              request |-> Head(queue[name].requests)]]
          /\ queue' = [queue EXCEPT ![name].requests = Tail(@)]
  /\ UNCHANGED <<mTracking, dict, updating, inbox, home, running, lastSession,
                 lastRequest, leftRunning, updateRefused>>

(* removeSession.  Its two steps, hasSession and rmBySession, are one: a   *)
(* session that an exchange removes in between is gone either way (and     *)
(* with it a session of the id 0, which is taken for unused).              *)
Without(session) ==
  [i \in Ids |-> IF dict[i].session = session THEN NoEntity ELSE dict[i]]

(* Mutant of RequestEnds: a stop that was refused also ends the session.   *)
AnyStopEnds(request, error) ==
  IF request.kind = "start" THEN error ELSE request.kind = "stop"

(* onResponse of StartTrackingRequest, StartBatchingRequest,               *)
(* StopTrackingRequest and StopBatchingRequest: whether the session is     *)
(* removed.                                                                *)
RequestEnds(request, error) ==
  IF request.kind = "start" THEN error ELSE request.kind = "stop" /\ ~error

ResponseDelivered(a) ==
  LET session == answering[a].command.session
      error == answering[a].error
      request == answering[a].request
  IN
  /\ answering[a].at = "call"
  /\ answering' = [answering EXCEPT ![a] = NotAnswering]
  /\ dict' = IF RequestEnds(request, error) THEN Without(session) ELSE dict
  /\ updateRefused' = IF request.kind = "update" /\ error
                      THEN updateRefused \cup {session} ELSE updateRefused
  /\ UNCHANGED <<mTracking, queue, updating, inbox, home, running, lastSession,
                 lastRequest, outOfStep, leftRunning>>

(* A trip ends at the batching adapter, and beforeBatchingStatusCb looks   *)
(* the session up without the mutex, ...                                   *)
TripCompleted(s) ==
  /\ running[s] = "trip" /\ answering["flp"] = NotAnswering
  /\ running' = [running EXCEPT ![s] = "none"]
  /\ answering' = IF [session |-> s, mode |-> "trip"] \in {dict[i] : i \in Ids}
                  THEN [answering EXCEPT !["flp"] = [at |-> "trip", session |-> s]]
                  ELSE answering
  /\ UNCHANGED <<mTracking, queue, dict, updating, inbox, home, lastSession,
                 lastRequest, outOfStep, leftRunning, updateRefused>>

(* ... and removes it.                                                     *)
TripRemoved ==
  /\ answering["flp"].at = "trip"
  /\ dict' = Without(answering["flp"].session)
  /\ answering' = [answering EXCEPT !["flp"] = NotAnswering]
  /\ UNCHANGED <<mTracking, queue, updating, inbox, home, running, lastSession,
                 lastRequest, outOfStep, leftRunning, updateRefused>>

ClientNext ==
  \/ \E a \in TrackingAdapters : LocAPIStartTracking(a)
  \/ \E kind \in {"stop", "update"} : LocAPIStopOrUpdateTracking(kind)
  \/ \E i \in Ids :
       \/ \E mode \in Modes : \E a \in StartsOn(mode) : LocAPIStartSession(i, mode, a)
       \/ LocAPIStopSession(i)
       \/ LocAPIUpdateSessionOptions(i)
  \/ \E mode \in Modes :
       SessionUpdated(mode) \/ \E a \in StartsOn(mode) : SessionExchanged(mode, a)
  \/ \E id \in NiIds : LocAPIGnssNiResponse(id)
  \/ \E a \in Adapters :
       CommandHandled(a) \/ RequestFound(a) \/ ResponseDelivered(a)
  \/ \E s \in Sessions : TripCompleted(s)
  \/ TripRemoved

ClientSpec == ClientInit /\ [][ClientNext]_clientVars

-----------------------------------------------------------------------------
(* Properties.                                                             *)

RequestRecords ==
  [kind : {"start", "stop", "update", "respond"}, number : 1..MaxRequests,
   from : Adapters]
CommandRecords ==
  [kind : {"start", "stop", "update", "respond"}, session : Sessions \cup NiIds,
   mode : Modes \cup {"fix", "none"}, number : 0..MaxRequests]

ClientTypeOK ==
  /\ {mTracking, outOfStep} \subseteq BOOLEAN
  /\ queue \in [Queues -> [session : Sessions \cup NiIds \cup {NoSession},
                           requests : Seq(RequestRecords)]]
  /\ dict \in [Ids -> [session : Sessions, mode : Modes] \cup {NoEntity}]
  /\ updating \in {NoUpdate} \cup [id : Ids, session : Sessions, mode : Modes]
  /\ inbox \in [Adapters -> Seq(CommandRecords)]
  /\ answering \in [Adapters ->
       {NotAnswering}
       \cup [at : {"answer"}, command : CommandRecords, error : BOOLEAN]
       \cup [at : {"call"}, command : CommandRecords, error : BOOLEAN,
             request : RequestRecords]
       \cup [at : {"trip"}, session : Sessions]]
  /\ home \in [Sessions -> Adapters]
  /\ running \in [Sessions -> Modes \cup {"fix", "none"}]
  /\ lastSession \in 0..MaxSessions /\ lastRequest \in 0..MaxRequests
  /\ {leftRunning, updateRefused} \subseteq SUBSET Sessions

(* A response goes to the request that caused it, although it carries only *)
(* a session and the queues are filled by position: also when some         *)
(* requests are never answered, others were dropped by the next start, two *)
(* adapters answer, and a session changed behind the answer.  Until a      *)
(* queue gets out of step with its answers, for one of the reasons where   *)
(* outOfStep is set (see the README).                                      *)
ResponsesMatch ==
  ~outOfStep => \A a \in Adapters :
    answering[a].at = "call" =>
      answering[a].request.number = answering[a].command.number

(* Whether a command for the session waits at its adapter, or its answer.  *)
Pending(s, kinds) ==
  \/ \E c \in Range(inbox[home[s]]) : c.session = s /\ c.kind \in kinds
  \/ LET answer == answering[home[s]] IN
     /\ answer.at \in {"answer", "call"}
     /\ answer.command.session = s /\ answer.command.kind \in kinds

(* A session that runs can be stopped: the client still knows it, or has   *)
(* asked the adapter that has it for its stop, unless it took the stop of  *)
(* a tracking session or of an exchanged one for granted and it failed.    *)
(* And an id that the client holds stands for a session, so that it can be *)
(* stopped and started again.                                              *)
SessionsFollow ==
  ~outOfStep =>
    /\ \A s \in Sessions : running[s] # "none" =>
         \/ s \in DictSessions
         \/ s = queue["tracking"].session /\ mTracking
         \/ Pending(s, {"stop"}) \/ s \in leftRunning
    /\ \A s \in DictSessions :
         \/ running[s] # "none"
         \/ Pending(s, {"start", "stop", "update"}) \/ s \in updateRefused
         \/ answering["flp"] = [at |-> "trip", session |-> s]
=============================================================================
