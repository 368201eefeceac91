----------------------------- MODULE NiRequests -----------------------------
(***************************************************************************)
(* Network initiated location requests: GnssAdapter asks the user through  *)
(* a client's callback, waits for the response in a thread per request,    *)
(* at most for a while, and passes the response to the modem               *)
(* (gps/gnss/GnssAdapter.cpp).                                             *)
(*                                                                         *)
(* Three kinds of actors: the modem and the user (external), the adapter's *)
(* MsgTask, which handles one message after the other, and the threads.    *)
(* The two sessions, for emergencies and for the rest, are records that    *)
(* all of them share.  A thread keeps its session's tLock from its         *)
(* wakeup to the end of its critical section, so that this is one step;    *)
(* the adapter reads reqID and rawRequest without the lock.                *)
(*                                                                         *)
(* Left out: the time left (a timed wait may end at any moment), threads   *)
(* that cannot be created, the contents of a request, and the number of    *)
(* clients with a callback.                                                *)
(***************************************************************************)
EXTENDS Naturals, Sequences

CONSTANTS
  MaxNiRequests, \* bound on the requests of the modem
  UserResponses  \* what a user may respond

ASSUME NiAssumption ==
  MaxNiRequests \in Nat /\ UserResponses \subseteq {"ACCEPT", "DENY"}

Requests == 1..MaxNiRequests
NoRequest == 0
SessionNames == {"session", "sessionEs"}
StoredResponses == UserResponses \cup {"NONE", "NO_RESPONSE", "IGNORE"}

VARIABLES
  ni,        \* NiSession: rawRequest, reqID, respRecvd and resp by session
  niThread,  \* by request: where its thread is
  niKind,    \* by request: the session it is for
  idCounter, \* reqIDCounter
  niId,      \* by request: the id the user was given, 0 before
  niQueue,   \* the adapter's message queue
  handling,  \* the response the adapter is in the middle of storing
  hasNiCb,   \* whether a client has a callback for these requests
  payload,   \* by request: who has its raw data
  userSaid,  \* by request: the user's response
  niAnswer,  \* by request: what the modem was told
  late       \* whether a response was stored for a request that was over

niVars == <<ni, niThread, niKind, idCounter, niId, niQueue, handling, hasNiCb,
            payload, userSaid, niAnswer, late>>
requestVars == <<niKind, idCounter, niId>>
outsideVars == <<hasNiCb, userSaid, niAnswer>>

Idle == [at |-> "idle", session |-> "session", response |-> "NONE",
         request |-> NoRequest]
NoThread == [at |-> "none", response |-> "NONE", request |-> NoRequest]

NiInit ==
  /\ ni = [s \in SessionNames |-> [rawRequest |-> NoRequest, reqID |-> 0,
                                   respRecvd |-> FALSE, resp |-> "NONE"]]
  /\ niThread = [r \in Requests |-> NoThread]
  /\ niKind \in [Requests -> SessionNames]
  /\ idCounter = 0
  /\ niId = [r \in Requests |-> 0]
  /\ niQueue = <<>> /\ handling = Idle
  /\ hasNiCb = FALSE
  /\ payload = [r \in Requests |-> "modem"]
  /\ userSaid = [r \in Requests |-> "NONE"]
  /\ niAnswer = [r \in Requests |-> "NONE"]
  /\ late = FALSE

-----------------------------------------------------------------------------
(* The modem, the user and the client.                                     *)

(* reportNiRequest copies the request, and requestNiNotifyEvent posts it.  *)
NiRequested(r) ==
  /\ payload[r] = "modem" /\ \A p \in 1..(r - 1) : payload[p] # "modem"
  /\ payload' = [payload EXCEPT ![r] = "queue"]
  /\ niQueue' = Append(niQueue, [kind |-> "report", request |-> r])
  /\ UNCHANGED <<ni, niThread, requestVars, handling, outsideVars, late>>

(* The user responds, in time or not: gnssNiResponseCommand with an id.    *)
UserResponds(r, response) ==
  /\ niId[r] # 0 /\ userSaid[r] = "NONE"
  /\ userSaid' = [userSaid EXCEPT ![r] = response]
  /\ niQueue' = Append(niQueue, [kind |-> "respond", id |-> niId[r],
                                 response |-> response])
  /\ UNCHANGED <<ni, niThread, requestVars, handling, hasNiCb, payload,
                 niAnswer, late>>

ClientChanges ==
  /\ hasNiCb' = ~hasNiCb
  /\ UNCHANGED <<ni, niThread, requestVars, niQueue, handling, payload,
                 userSaid, niAnswer, late>>

-----------------------------------------------------------------------------
(* The adapter's messages.                                                 *)

Handles(kind) == handling = Idle /\ niQueue # <<>> /\ Head(niQueue).kind = kind

(* Whether a request for session s is ignored: an emergency also ignores   *)
(* the other kind.                                                         *)
Busy(s) ==
  \/ ni[s].rawRequest # NoRequest
  \/ s = "session" /\ ni["sessionEs"].rawRequest # NoRequest

(* requestNiNotify: without a callback the raw data is neither kept nor    *)
(* freed.                                                                  *)
RequestNiNotify ==
  LET r == Head(niQueue).request
      s == niKind[r]
  IN
  /\ Handles("report")
  /\ niQueue' = Tail(niQueue)
  /\ \/ /\ ~hasNiCb
        /\ payload' = [payload EXCEPT ![r] = "leaked"]
        /\ UNCHANGED <<ni, niThread, idCounter, niId>>
     \/ /\ hasNiCb /\ Busy(s)
        /\ payload' = [payload EXCEPT ![r] = "freed"]
        /\ UNCHANGED <<ni, niThread, idCounter, niId>>
     \/ /\ hasNiCb /\ ~Busy(s)
        /\ payload' = [payload EXCEPT ![r] = "session"]
        /\ idCounter' = idCounter + 1
        /\ niId' = [niId EXCEPT ![r] = idCounter + 1]
        /\ ni' = [ni EXCEPT ![s].rawRequest = r, ![s].reqID = idCounter + 1]
        /\ niThread' = [niThread EXCEPT ![r].at = "starting"]
  /\ UNCHANGED <<niKind, handling, outsideVars, late>>

Active(s, id) == ni[s].reqID = id /\ ni[s].rawRequest # NoRequest

(* gnssNiResponseCommand with an id: which session waits for the response. *)
ResponseChecked ==
  LET m == Head(niQueue)
      next(s, at) == [at |-> at, session |-> s, response |-> m.response,
                      request |-> ni[s].rawRequest]
  IN
  /\ Handles("respond")
  /\ niQueue' = Tail(niQueue)
  /\ handling' =
       IF ~hasNiCb THEN Idle
       ELSE IF Active("sessionEs", m.id)
       THEN next("sessionEs", IF m.response = "ACCEPT" THEN "check" ELSE "store")
       ELSE IF Active("session", m.id) THEN next("session", "store")
       ELSE Idle
  /\ UNCHANGED <<ni, niThread, requestVars, payload, outsideVars, late>>

(* An emergency that is accepted: is there another request to ignore?      *)
OtherSessionChecked ==
  /\ handling.at = "check"
  /\ handling' = [handling EXCEPT !.at =
                    IF ni["session"].rawRequest # NoRequest THEN "ignore" ELSE "store"]
  /\ UNCHANGED <<ni, niThread, requestVars, niQueue, payload, outsideVars, late>>

Store(s, response) ==
  ni' = [ni EXCEPT ![s].resp = response, ![s].respRecvd = TRUE]

OtherSessionIgnored ==
  /\ handling.at = "ignore"
  /\ Store("session", "IGNORE")
  /\ handling' = [handling EXCEPT !.at = "store"]
  /\ late' = (late \/ ni["session"].rawRequest = NoRequest)
  /\ UNCHANGED <<niThread, requestVars, niQueue, payload, outsideVars>>

ResponseStored ==
  /\ handling.at = "store"
  /\ Store(handling.session, handling.response)
  /\ late' = (late \/ ni[handling.session].rawRequest # handling.request)
  /\ handling' = Idle
  /\ UNCHANGED <<niThread, requestVars, niQueue, payload, outsideVars>>

(* gnssNiResponseCommand with the raw data: informNiResponse, and the      *)
(* message is deleted with the data.                                       *)
InformNiResponse ==
  LET m == Head(niQueue) IN
  /\ Handles("inform")
  /\ niQueue' = Tail(niQueue)
  /\ niAnswer' = [niAnswer EXCEPT ![m.request] = m.response]
  /\ payload' = [payload EXCEPT ![m.request] = "freed"]
  /\ UNCHANGED <<ni, niThread, requestVars, handling, hasNiCb, userSaid, late>>

AdapterStep ==
  \/ RequestNiNotify
  \/ ResponseChecked
  \/ OtherSessionChecked
  \/ OtherSessionIgnored
  \/ ResponseStored
  \/ InformNiResponse

-----------------------------------------------------------------------------
(* niThreadProc.  Its session may have been given to the next request once *)
(* the critical section is over.                                           *)

At(r, place) == niThread[r].at = place
Goto(r, place) == niThread' = [niThread EXCEPT ![r].at = place]

ThreadWaits(r) ==
  /\ At(r, "starting") /\ ~ni[niKind[r]].respRecvd
  /\ Goto(r, "waiting")
  /\ UNCHANGED <<ni, requestVars, niQueue, handling, payload, outsideVars, late>>

(* Mutant of GivesUpSession: the response stays for the next request.      *)
KeepsResponse(r, response) ==
  LET s == niKind[r]
      raw == ni[s].rawRequest
      passes == raw # NoRequest /\ response # "IGNORE"
  IN
  /\ ni' = [ni EXCEPT ![s].resp = response, ![s].rawRequest = NoRequest]
  /\ payload' = IF raw = NoRequest THEN payload
                ELSE [payload EXCEPT ![raw] = IF passes THEN "thread" ELSE "freed"]
  /\ niThread' = [niThread EXCEPT
                    ![r] = [at |-> "clearing", response |-> response,
                            request |-> IF passes THEN raw ELSE NoRequest]]
  /\ UNCHANGED <<requestVars, niQueue, handling, outsideVars, late>>

(* Mutant of GivesUpSession: the session keeps the raw data that the       *)
(* thread passes on.                                                       *)
KeepsRawRequest(r, response) ==
  LET s == niKind[r]
      raw == ni[s].rawRequest
      passes == raw # NoRequest /\ response # "IGNORE"
  IN
  /\ ni' = [ni EXCEPT ![s].resp = response, ![s].respRecvd = FALSE]
  /\ payload' = IF raw = NoRequest THEN payload
                ELSE [payload EXCEPT ![raw] = IF passes THEN "thread" ELSE "freed"]
  /\ niThread' = [niThread EXCEPT
                    ![r] = [at |-> "clearing", response |-> response,
                            request |-> IF passes THEN raw ELSE NoRequest]]
  /\ UNCHANGED <<requestVars, niQueue, handling, outsideVars, late>>

(* The end of the critical section, with the response that is now stored:  *)
(* the session is given up, and a request that is to be ignored is freed.  *)
GivesUpSession(r, response) ==
  LET s == niKind[r]
      raw == ni[s].rawRequest
      passes == raw # NoRequest /\ response # "IGNORE"
  IN
  /\ ni' = [ni EXCEPT ![s].resp = response, ![s].respRecvd = FALSE,
                      ![s].rawRequest = NoRequest]
  /\ payload' = IF raw = NoRequest THEN payload
                ELSE [payload EXCEPT ![raw] = IF passes THEN "thread" ELSE "freed"]
  /\ niThread' = [niThread EXCEPT
                    ![r] = [at |-> "clearing", response |-> response,
                            request |-> IF passes THEN raw ELSE NoRequest]]
  /\ UNCHANGED <<requestVars, niQueue, handling, outsideVars, late>>

ResponseSeen(r) ==
  /\ At(r, "starting") \/ At(r, "waiting")
  /\ ni[niKind[r]].respRecvd
  /\ GivesUpSession(r, ni[niKind[r]].resp)

(* Mutant of WaitTimesOut: a timeout is taken for a spurious wakeup.       *)
WaitGoesOn(r) == At(r, "waiting") /\ UNCHANGED niVars

(* pthread_cond_timedwait times out, maybe after a response has come.      *)
WaitTimesOut(r) ==
  /\ At(r, "waiting")
  /\ GivesUpSession(r, "NO_RESPONSE")

(* Mutant of ReqIdCleared: the response is passed on also when there is no *)
(* request left for it.                                                    *)
PostsWithoutRequest(r) ==
  /\ At(r, "clearing")
  /\ ni' = [ni EXCEPT ![niKind[r]].reqID = 0]
  /\ Goto(r, "posting")
  /\ UNCHANGED <<requestVars, niQueue, handling, payload, outsideVars, late>>

(* Without the lock.                                                       *)
ReqIdCleared(r) ==
  /\ At(r, "clearing")
  /\ ni' = [ni EXCEPT ![niKind[r]].reqID = 0]
  /\ Goto(r, IF niThread[r].request = NoRequest THEN "done" ELSE "posting")
  /\ UNCHANGED <<requestVars, niQueue, handling, payload, outsideVars, late>>

ResponsePosted(r) ==
  /\ At(r, "posting")
  /\ niQueue' = Append(niQueue, [kind |-> "inform", request |-> niThread[r].request,
                                 response |-> niThread[r].response])
  /\ payload' = [payload EXCEPT ![niThread[r].request] = "queue"]
  /\ Goto(r, "done")
  /\ UNCHANGED <<ni, requestVars, handling, outsideVars, late>>

NiThreadStep(r) ==
  \/ ThreadWaits(r)
  \/ ResponseSeen(r)
  \/ WaitTimesOut(r)
  \/ ReqIdCleared(r)
  \/ ResponsePosted(r)

NiNext ==
  \/ AdapterStep
  \/ ClientChanges
  \/ \E r \in Requests :
       \/ NiRequested(r)
       \/ \E response \in UserResponses : UserResponds(r, response)
       \/ NiThreadStep(r)

NiSpec == NiInit /\ [][NiNext]_niVars

(* MsgTask's loop and the threads run on, and a timed wait ends.           *)
NiFairness ==
  /\ WF_niVars(AdapterStep)
  /\ \A r \in Requests : WF_niVars(NiThreadStep(r))

-----------------------------------------------------------------------------
(* Properties.                                                             *)

NiMessages ==
  [kind : {"report"}, request : Requests]
  \cup [kind : {"respond"}, id : Nat, response : UserResponses]
  \cup [kind : {"inform"}, request : Requests, response : StoredResponses]

NiTypeOK ==
  /\ ni \in [SessionNames -> [rawRequest : Requests \cup {NoRequest},
               reqID : Nat, respRecvd : BOOLEAN, resp : StoredResponses]]
  /\ niThread \in [Requests ->
       [at : {"none", "starting", "waiting", "clearing", "posting", "done"},
        response : StoredResponses, request : Requests \cup {NoRequest}]]
  /\ niKind \in [Requests -> SessionNames]
  /\ idCounter \in Nat
  /\ niId \in [Requests -> Nat]
  /\ niQueue \in Seq(NiMessages)
  /\ handling \in [at : {"idle", "check", "ignore", "store"},
                   session : SessionNames, response : StoredResponses,
                   request : Requests \cup {NoRequest}]
  /\ hasNiCb \in BOOLEAN /\ late \in BOOLEAN
  /\ payload \in [Requests -> {"modem", "queue", "session", "thread", "freed",
                               "leaked"}]
  /\ userSaid \in [Requests -> UserResponses \cup {"NONE"}]
  /\ niAnswer \in [Requests -> StoredResponses]

(* A request that a session holds has a thread that will end it, and no    *)
(* other thread will: whatever the order in which the next request, the    *)
(* response, the timeout and the rest of an older thread come.             *)
SessionIsWatched ==
  \A s \in SessionNames :
    /\ ni[s].rawRequest # NoRequest =>
         /\ niKind[ni[s].rawRequest] = s
         /\ At(ni[s].rawRequest, "starting") \/ At(ni[s].rawRequest, "waiting")
    /\ \A r \in Requests :
         niKind[r] = s /\ (At(r, "starting") \/ At(r, "waiting")) =>
           ni[s].rawRequest = r

(* The raw data of a request has one owner, who frees it, and is not freed *)
(* while a session, a thread or a message still refers to it.              *)
OneOwner ==
  \A r \in Requests :
    /\ (\E s \in SessionNames : ni[s].rawRequest = r) => payload[r] = "session"
    /\ \A t \in Requests :
         niThread[t].request = r /\ ~At(t, "done") => payload[r] = "thread"
    /\ \A i \in 1..Len(niQueue) :
         niQueue[i].kind # "respond" /\ niQueue[i].request = r =>
           /\ payload[r] = "queue"
           /\ \A j \in 1..Len(niQueue) :
                niQueue[j].kind # "respond" /\ niQueue[j].request = r => i = j

(* The modem is told what the user has responded to this very request, or  *)
(* that there was no response, until a response was stored for a request   *)
(* whose thread had just ended: it goes to the next request (see the       *)
(* README).                                                                *)
AnswersAreOwn ==
  ~late => \A r \in Requests : niAnswer[r] \in {"NONE", "NO_RESPONSE", userSaid[r]}

(* A request is passed on or freed in the end, whether the user responds   *)
(* or not; without a client for it, it is lost.                            *)
NiRequestsEnd ==
  \A r \in Requests : payload[r] = "queue" ~> payload[r] \in {"freed", "leaked"}
=============================================================================
