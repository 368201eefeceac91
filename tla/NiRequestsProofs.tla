-------------------------- MODULE NiRequestsProofs --------------------------
(***************************************************************************)
(* Proofs about NiRequests, for any number of requests: each has one       *)
(* owner, and what the modem is told is what its user has responded.       *)
(*                                                                         *)
(* Both rest on SessionIsWatched.  A thread never sees the request of      *)
(* another one in its session, although it reads it after its wait and     *)
(* without asking whose it is, because a session is busy until the thread  *)
(* that waits for it gives it up.                                          *)
(***************************************************************************)
EXTENDS NiRequests, SequenceTheorems, TLAPS

USE NiAssumption

-----------------------------------------------------------------------------
(* The queue.                                                              *)

LEMMA QueueTail ==
  ASSUME NEW S, NEW q \in Seq(S), q # <<>>
  PROVE  /\ Tail(q) \in Seq(S) /\ Head(q) \in S /\ Head(q) = q[1] /\ 1 \in 1..Len(q)
         /\ \A i \in 1..Len(Tail(q)) : i + 1 \in 1..Len(q) /\ Tail(q)[i] = q[i + 1]
BY HeadTailProperties

LEMMA QueueAppend ==
  ASSUME NEW S, NEW q \in Seq(S), NEW e \in S
  PROVE  /\ Append(q, e) \in Seq(S) /\ Len(Append(q, e)) = Len(q) + 1 /\ Len(q) \in Nat
         /\ \A i \in 1..Len(Append(q, e)) :
              \/ i \in 1..Len(q) /\ Append(q, e)[i] = q[i]
              \/ i = Len(q) + 1 /\ Append(q, e)[i] = e
BY AppendProperties, LenProperties

LEMMA MessageFields ==
  ASSUME NEW m \in NiMessages
  PROVE  /\ m.kind \in {"report", "respond", "inform"}
         /\ m.kind # "respond" => m.request \in Requests
         /\ m.kind = "respond" => m.id \in Nat /\ m.response \in UserResponses
         /\ m.kind = "inform" => m.response \in StoredResponses
BY DEF NiMessages

-----------------------------------------------------------------------------
(* Types.                                                                  *)

SessionRecords ==
  [rawRequest : Requests \cup {NoRequest}, reqID : Nat, respRecvd : BOOLEAN,
   resp : StoredResponses]
ThreadRecords ==
  [at : {"none", "starting", "waiting", "clearing", "posting", "done"},
   response : StoredResponses, request : Requests \cup {NoRequest}]
HandlingRecords ==
  [at : {"idle", "check", "ignore", "store"}, session : SessionNames,
   response : StoredResponses, request : Requests \cup {NoRequest}]
NiPlaces == {"modem", "queue", "session", "thread", "freed", "leaked"}

LEMMA NiTypeParts ==
  NiTypeOK <=>
    /\ ni \in [SessionNames -> SessionRecords]
    /\ niThread \in [Requests -> ThreadRecords]
    /\ niKind \in [Requests -> SessionNames]
    /\ idCounter \in Nat /\ niId \in [Requests -> Nat]
    /\ niQueue \in Seq(NiMessages)
    /\ handling \in HandlingRecords
    /\ hasNiCb \in BOOLEAN /\ late \in BOOLEAN
    /\ payload \in [Requests -> NiPlaces]
    /\ userSaid \in [Requests -> UserResponses \cup {"NONE"}]
    /\ niAnswer \in [Requests -> StoredResponses]
BY DEF NiTypeOK, SessionRecords, ThreadRecords, HandlingRecords, NiPlaces

LEMMA NiInitTypes == NiInit => NiTypeOK
<1> SUFFICES ASSUME NiInit PROVE NiTypeOK
  OBVIOUS
<1>1. ni \in [SessionNames -> SessionRecords]
  BY DEF NiInit, SessionRecords, StoredResponses, NoRequest
<1>2. niThread \in [Requests -> ThreadRecords] /\ handling \in HandlingRecords
  BY DEF NiInit, ThreadRecords, HandlingRecords, NoThread, Idle, SessionNames,
         StoredResponses, NoRequest
<1>3. niQueue \in Seq(NiMessages) /\ niKind \in [Requests -> SessionNames]
  BY EmptySeq DEF NiInit
<1>4. hasNiCb \in BOOLEAN /\ late \in BOOLEAN /\ idCounter \in Nat
  BY DEF NiInit
<1>5. /\ niId \in [Requests -> Nat] /\ payload \in [Requests -> NiPlaces]
      /\ userSaid \in [Requests -> UserResponses \cup {"NONE"}]
      /\ niAnswer \in [Requests -> StoredResponses]
  BY DEF NiInit, NiPlaces, StoredResponses
<1> QED BY <1>1, <1>2, <1>3, <1>4, <1>5, NiTypeParts

LEMMA OutsideTypes ==
  ASSUME NiTypeOK
  PROVE  /\ \A r \in Requests : NiRequested(r) => NiTypeOK'
         /\ \A r \in Requests : \A response \in UserResponses :
              UserResponds(r, response) => NiTypeOK'
         /\ ClientChanges => NiTypeOK'
<1>1. ASSUME NEW r \in Requests, NiRequested(r)
      PROVE  NiTypeOK'
  <2>1. [kind |-> "report", request |-> r] \in NiMessages
    BY DEF NiMessages
  <2>2. niQueue' \in Seq(NiMessages)
    BY <1>1, <2>1, QueueAppend, NiTypeParts DEF NiRequested
  <2>3. payload' \in [Requests -> NiPlaces]
    BY <1>1, NiTypeParts DEF NiRequested, NiPlaces
  <2> QED BY <1>1, <2>2, <2>3 DEF NiRequested, requestVars, outsideVars, NiTypeOK, NiPlaces
<1>2. ASSUME NEW r \in Requests, NEW response \in UserResponses, UserResponds(r, response)
      PROVE  NiTypeOK'
  <2>1. [kind |-> "respond", id |-> niId[r], response |-> response] \in NiMessages
    BY NiTypeParts DEF NiMessages
  <2>2. niQueue' \in Seq(NiMessages)
    BY <1>2, <2>1, QueueAppend, NiTypeParts DEF UserResponds
  <2>3. userSaid' \in [Requests -> UserResponses \cup {"NONE"}]
    BY <1>2, NiTypeParts DEF UserResponds
  <2> QED BY <1>2, <2>2, <2>3 DEF UserResponds, requestVars, NiTypeOK
<1>3. ASSUME ClientChanges
      PROVE  NiTypeOK'
  BY <1>3 DEF ClientChanges, requestVars, NiTypeOK
<1> QED BY <1>1, <1>2, <1>3

LEMMA NiNotifyTypes ==
  ASSUME NiTypeOK, RequestNiNotify
  PROVE  NiTypeOK'
<1> DEFINE r == Head(niQueue).request
           s == niKind[r]
<1>1. niQueue # <<>> /\ Head(niQueue).kind = "report" /\ niQueue' = Tail(niQueue)
  BY DEF RequestNiNotify, Handles
<1>2. r \in Requests /\ s \in SessionNames /\ niQueue' \in Seq(NiMessages)
  BY <1>1, QueueTail, MessageFields, NiTypeParts
<1>3. payload' \in [Requests -> NiPlaces]
  BY <1>2, NiTypeParts DEF RequestNiNotify, NiPlaces
<1>4. /\ idCounter + 1 \in Nat /\ ni \in [SessionNames -> SessionRecords]
      /\ niThread \in [Requests -> ThreadRecords]
      /\ idCounter \in Nat /\ niId \in [Requests -> Nat]
  BY NiTypeParts
<1> HIDE DEF r, s
<1>5. CASE UNCHANGED <<ni, niThread, idCounter, niId>>
  BY <1>2, <1>3, <1>5 DEF NiTypeOK, RequestNiNotify, outsideVars, NiPlaces
<1>6. CASE /\ idCounter' = idCounter + 1 /\ niId' = [niId EXCEPT ![r] = idCounter + 1]
           /\ ni' = [ni EXCEPT ![s].rawRequest = r, ![s].reqID = idCounter + 1]
           /\ niThread' = [niThread EXCEPT ![r].at = "starting"]
  <2>1. ni' \in [SessionNames -> SessionRecords]
    BY <1>2, <1>4, <1>6 DEF SessionRecords
  <2>2. niThread' \in [Requests -> ThreadRecords]
    BY <1>2, <1>4, <1>6 DEF ThreadRecords
  <2>3. idCounter' \in Nat /\ niId' \in [Requests -> Nat]
    BY <1>2, <1>4, <1>6
  <2> QED
    BY <1>2, <1>3, <2>1, <2>2, <2>3
    DEF NiTypeOK, RequestNiNotify, outsideVars, NiPlaces, SessionRecords, ThreadRecords
<1> QED BY <1>5, <1>6 DEF RequestNiNotify, r, s

(* What the threads and the adapter write keeps its type.                  *)
LEMMA RecordUpdates ==
  /\ \A x \in ThreadRecords :
       \A place \in {"none", "starting", "waiting", "clearing", "posting", "done"} :
         [x EXCEPT !.at = place] \in ThreadRecords
  /\ \A x \in SessionRecords : [x EXCEPT !.reqID = 0] \in SessionRecords
  /\ \A x \in SessionRecords : \A response \in StoredResponses :
       [x EXCEPT !.resp = response, !.respRecvd = TRUE] \in SessionRecords
<1>1. \A x \in ThreadRecords :
        \A place \in {"none", "starting", "waiting", "clearing", "posting", "done"} :
          [x EXCEPT !.at = place] \in ThreadRecords
  BY DEF ThreadRecords
<1>2. \A x \in SessionRecords : [x EXCEPT !.reqID = 0] \in SessionRecords
  BY DEF SessionRecords
<1>3. \A x \in SessionRecords : \A response \in StoredResponses :
        [x EXCEPT !.resp = response, !.respRecvd = TRUE] \in SessionRecords
  BY DEF SessionRecords
<1> QED BY <1>1, <1>2, <1>3

LEMMA GotoTypes ==
  ASSUME niThread \in [Requests -> ThreadRecords], NEW r \in Requests,
         NEW place \in {"none", "starting", "waiting", "clearing", "posting", "done"},
         niThread' = [niThread EXCEPT ![r].at = place]
  PROVE  niThread' \in [Requests -> ThreadRecords]
<1>1. [niThread[r] EXCEPT !.at = place] \in ThreadRecords
  BY RecordUpdates
<1> QED BY <1>1

LEMMA StoreTypes ==
  ASSUME NiTypeOK, NEW s \in SessionNames, NEW response \in StoredResponses,
         Store(s, response)
  PROVE  ni' \in [SessionNames -> SessionRecords]
<1>1. ni \in [SessionNames -> SessionRecords]
  BY NiTypeParts
<1>2. [ni[s] EXCEPT !.resp = response, !.respRecvd = TRUE] \in SessionRecords
  BY <1>1, RecordUpdates
<1>3. ni' = [ni EXCEPT ![s] = [ni[s] EXCEPT !.resp = response, !.respRecvd = TRUE]]
  BY <1>1 DEF Store
<1> QED BY <1>1, <1>2, <1>3

LEMMA AdapterTypes ==
  ASSUME NiTypeOK, AdapterStep
  PROVE  NiTypeOK'
<1>1. CASE RequestNiNotify
  BY <1>1, NiNotifyTypes
<1>2. CASE ResponseChecked
  <2>1. niQueue # <<>> /\ Head(niQueue).kind = "respond" /\ niQueue' = Tail(niQueue)
    BY <1>2 DEF ResponseChecked, Handles
  <2>2. Head(niQueue).response \in StoredResponses /\ niQueue' \in Seq(NiMessages)
    BY <2>1, QueueTail, MessageFields, NiTypeParts DEF StoredResponses
  <2>3. \A s \in SessionNames : ni[s].rawRequest \in Requests \cup {NoRequest}
    BY NiTypeParts DEF SessionRecords
  <2>4. handling' \in HandlingRecords
    BY <1>2, <2>2, <2>3
    DEF ResponseChecked, HandlingRecords, Idle, SessionNames, StoredResponses, NoRequest
  <2> QED
    BY <1>2, <2>2, <2>4
    DEF ResponseChecked, NiTypeOK, HandlingRecords, requestVars, outsideVars
<1>3. CASE OtherSessionChecked
  <2>1. handling' \in HandlingRecords
    BY <1>3, NiTypeParts DEF OtherSessionChecked, HandlingRecords
  <2> QED
    BY <1>3, <2>1
    DEF OtherSessionChecked, NiTypeOK, HandlingRecords, requestVars, outsideVars
<1>4. CASE OtherSessionIgnored
  <2>1. ni' \in [SessionNames -> SessionRecords]
    BY <1>4, StoreTypes DEF OtherSessionIgnored, SessionNames, StoredResponses
  <2>2. handling' \in HandlingRecords /\ late' \in BOOLEAN
    BY <1>4, NiTypeParts DEF OtherSessionIgnored, HandlingRecords
  <2> QED
    BY <1>4, <2>1, <2>2
    DEF OtherSessionIgnored, NiTypeOK, SessionRecords, HandlingRecords, requestVars,
        outsideVars
<1>5. CASE ResponseStored
  <2>1. ni' \in [SessionNames -> SessionRecords]
    BY <1>5, StoreTypes, NiTypeParts DEF ResponseStored, HandlingRecords
  <2>2. handling' \in HandlingRecords /\ late' \in BOOLEAN
    BY <1>5, NiTypeParts
    DEF ResponseStored, HandlingRecords, Idle, SessionNames, StoredResponses, NoRequest
  <2> QED
    BY <1>5, <2>1, <2>2
    DEF ResponseStored, NiTypeOK, SessionRecords, HandlingRecords, requestVars, outsideVars
<1>6. CASE InformNiResponse
  <2>1. niQueue # <<>> /\ Head(niQueue).kind = "inform" /\ niQueue' = Tail(niQueue)
    BY <1>6 DEF InformNiResponse, Handles
  <2>2. /\ Head(niQueue).response \in StoredResponses /\ Head(niQueue).request \in Requests
        /\ niQueue' \in Seq(NiMessages)
    BY <2>1, QueueTail, MessageFields, NiTypeParts
  <2>3. payload' \in [Requests -> NiPlaces] /\ niAnswer' \in [Requests -> StoredResponses]
    BY <1>6, <2>2, NiTypeParts DEF InformNiResponse, NiPlaces
  <2> QED
    BY <1>6, <2>2, <2>3 DEF InformNiResponse, NiTypeOK, NiPlaces, requestVars
<1> QED BY <1>1, <1>2, <1>3, <1>4, <1>5, <1>6 DEF AdapterStep

LEMMA GivesUpTypes ==
  ASSUME NiTypeOK, NEW r \in Requests, NEW response \in StoredResponses,
         GivesUpSession(r, response)
  PROVE  NiTypeOK'
<1>1. niKind[r] \in SessionNames /\ ni[niKind[r]].rawRequest \in Requests \cup {NoRequest}
  BY NiTypeParts DEF SessionRecords
<1>2. ni' \in [SessionNames -> SessionRecords]
  <2>1. ni' = [ni EXCEPT ![niKind[r]].resp = response, ![niKind[r]].respRecvd = FALSE,
                         ![niKind[r]].rawRequest = NoRequest]
    BY DEF GivesUpSession
  <2>2. ni \in [SessionNames -> SessionRecords] /\ NoRequest \in Requests \cup {NoRequest}
    BY NiTypeParts
  <2> QED BY <1>1, <2>1, <2>2 DEF SessionRecords
<1>3. payload' \in [Requests -> NiPlaces]
  BY <1>1, NiTypeParts DEF GivesUpSession, NiPlaces
<1>4. niThread' \in [Requests -> ThreadRecords]
  BY <1>1, NiTypeParts DEF GivesUpSession, ThreadRecords
<1> QED
  BY <1>2, <1>3, <1>4
  DEF GivesUpSession, NiTypeOK, SessionRecords, ThreadRecords, NiPlaces, requestVars, outsideVars

LEMMA NiThreadTypes ==
  ASSUME NiTypeOK, NEW r \in Requests, NiThreadStep(r),
         At(r, "posting") => niThread[r].request # NoRequest
  PROVE  NiTypeOK'
<1>0. niThread \in [Requests -> ThreadRecords] /\ ni \in [SessionNames -> SessionRecords]
      /\ niKind[r] \in SessionNames
  BY NiTypeParts
<1>1. CASE ThreadWaits(r)
  <2>1. niThread' \in [Requests -> ThreadRecords]
    BY <1>1, <1>0, GotoTypes DEF ThreadWaits, Goto
  <2> QED
    BY <1>1, <2>1 DEF ThreadWaits, NiTypeOK, ThreadRecords, requestVars, outsideVars
<1>2. CASE ResponseSeen(r)
  <2>1. ni[niKind[r]].resp \in StoredResponses
    BY NiTypeParts DEF SessionRecords
  <2> QED BY <1>2, <2>1, GivesUpTypes DEF ResponseSeen
<1>3. CASE WaitTimesOut(r)
  BY <1>3, GivesUpTypes DEF WaitTimesOut, StoredResponses
<1>4. CASE ReqIdCleared(r)
  <2>1. niThread' \in [Requests -> ThreadRecords]
    <3>1. CASE niThread' = [niThread EXCEPT ![r].at = "done"]
      BY <3>1, <1>0, GotoTypes
    <3>2. CASE niThread' = [niThread EXCEPT ![r].at = "posting"]
      BY <3>2, <1>0, GotoTypes
    <3> QED BY <1>4, <3>1, <3>2 DEF ReqIdCleared, Goto
  <2>2. ni' \in [SessionNames -> SessionRecords]
    <3>1. [ni[niKind[r]] EXCEPT !.reqID = 0] \in SessionRecords
      BY <1>0, RecordUpdates
    <3>2. ni' = [ni EXCEPT ![niKind[r]] = [ni[niKind[r]] EXCEPT !.reqID = 0]]
      BY <1>4 DEF ReqIdCleared
    <3> QED BY <1>0, <3>1, <3>2
  <2> QED
    BY <1>4, <2>1, <2>2
    DEF ReqIdCleared, NiTypeOK, ThreadRecords, SessionRecords, requestVars, outsideVars
<1>5. CASE ResponsePosted(r)
  <2>1. niThread' \in [Requests -> ThreadRecords]
    BY <1>5, <1>0, GotoTypes DEF ResponsePosted, Goto
  <2>2. niThread[r].request \in Requests /\ niThread[r].response \in StoredResponses
    BY <1>5, NiTypeParts DEF ResponsePosted, ThreadRecords
  <2>3. [kind |-> "inform", request |-> niThread[r].request,
         response |-> niThread[r].response] \in NiMessages
    BY <2>2 DEF NiMessages
  <2>4. niQueue' \in Seq(NiMessages)
    BY <1>5, <2>3, QueueAppend, NiTypeParts DEF ResponsePosted
  <2>5. payload' \in [Requests -> NiPlaces]
    BY <1>5, NiTypeParts DEF ResponsePosted, NiPlaces
  <2> QED
    BY <1>5, <2>1, <2>4, <2>5
    DEF ResponsePosted, NiTypeOK, ThreadRecords, NiPlaces, requestVars, outsideVars
<1> QED BY <1>1, <1>2, <1>3, <1>4, <1>5 DEF NiThreadStep

LEMMA NiNextTypes ==
  ASSUME NiTypeOK, [NiNext]_niVars,
         \A r \in Requests : At(r, "posting") => niThread[r].request # NoRequest
  PROVE  NiTypeOK'
<1>1. CASE UNCHANGED niVars
  BY <1>1 DEF niVars, NiTypeOK
<1> QED BY <1>1, OutsideTypes, AdapterTypes, NiThreadTypes DEF NiNext

-----------------------------------------------------------------------------
(* What the steps do to sessions and threads.                              *)

LEMMA NotifyEffect ==
  ASSUME NiTypeOK, RequestNiNotify, NEW r, r = Head(niQueue).request
  PROVE  /\ r \in Requests /\ niKind[r] \in SessionNames
         /\ niQueue # <<>> /\ Head(niQueue).kind = "report" /\ niQueue' = Tail(niQueue)
         /\ niKind' = niKind
         /\ \/ /\ UNCHANGED <<ni, niThread, idCounter, niId>>
               /\ \E end \in {"leaked", "freed"} : payload' = [payload EXCEPT ![r] = end]
            \/ /\ payload' = [payload EXCEPT ![r] = "session"]
               /\ idCounter' = idCounter + 1 /\ niId' = [niId EXCEPT ![r] = idCounter + 1]
               /\ ni[niKind[r]].rawRequest = NoRequest
               /\ \A s \in SessionNames :
                    /\ ni'[s].rawRequest = IF s = niKind[r] THEN r ELSE ni[s].rawRequest
                    /\ ni'[s].reqID = IF s = niKind[r] THEN idCounter + 1 ELSE ni[s].reqID
                    /\ ni'[s].respRecvd = ni[s].respRecvd /\ ni'[s].resp = ni[s].resp
               /\ \A t \in Requests :
                    /\ niThread'[t].at = IF t = r THEN "starting" ELSE niThread[t].at
                    /\ niThread'[t].request = niThread[t].request
                    /\ niThread'[t].response = niThread[t].response
<1>1. /\ niQueue # <<>> /\ Head(niQueue).kind = "report" /\ niQueue' = Tail(niQueue)
      /\ niQueue \in Seq(NiMessages) /\ niKind' = niKind
  BY NiTypeParts DEF RequestNiNotify, Handles
<1>2. r \in Requests
  BY <1>1, QueueTail, MessageFields
<1>3. /\ niKind[r] \in SessionNames /\ ni \in [SessionNames -> SessionRecords]
      /\ niThread \in [Requests -> ThreadRecords]
  BY <1>2, NiTypeParts
<1>4. CASE ~hasNiCb \/ Busy(niKind[r])
  <2>1. UNCHANGED <<ni, niThread, idCounter, niId>>
    BY <1>4 DEF RequestNiNotify
  <2>2. \E end \in {"leaked", "freed"} : payload' = [payload EXCEPT ![r] = end]
    BY <1>4 DEF RequestNiNotify
  <2> QED BY <1>1, <1>2, <1>3, <2>1, <2>2
<1>5. CASE hasNiCb /\ ~Busy(niKind[r])
  <2>1. /\ payload' = [payload EXCEPT ![r] = "session"]
        /\ idCounter' = idCounter + 1 /\ niId' = [niId EXCEPT ![r] = idCounter + 1]
        /\ ni' = [ni EXCEPT ![niKind[r]].rawRequest = r, ![niKind[r]].reqID = idCounter + 1]
        /\ niThread' = [niThread EXCEPT ![r].at = "starting"]
    BY <1>5 DEF RequestNiNotify
  <2>2. ni[niKind[r]].rawRequest = NoRequest
    BY <1>5 DEF Busy
  <2>3. \A s \in SessionNames :
          /\ ni'[s].rawRequest = IF s = niKind[r] THEN r ELSE ni[s].rawRequest
          /\ ni'[s].reqID = IF s = niKind[r] THEN idCounter + 1 ELSE ni[s].reqID
          /\ ni'[s].respRecvd = ni[s].respRecvd /\ ni'[s].resp = ni[s].resp
    <3>1. \A s \in SessionNames : s # niKind[r] => ni'[s] = ni[s]
      BY <1>3, <2>1
    <3>2. ni'[niKind[r]] = [ni[niKind[r]] EXCEPT !.rawRequest = r, !.reqID = idCounter + 1]
      BY <1>3, <2>1
    <3>3. ni[niKind[r]] \in SessionRecords
      BY <1>3
    <3>4. /\ ni'[niKind[r]].rawRequest = r /\ ni'[niKind[r]].reqID = idCounter + 1
          /\ ni'[niKind[r]].respRecvd = ni[niKind[r]].respRecvd
          /\ ni'[niKind[r]].resp = ni[niKind[r]].resp
      BY <3>2, <3>3 DEF SessionRecords
    <3> QED BY <3>1, <3>4
  <2>4. \A t \in Requests :
          /\ niThread'[t].at = IF t = r THEN "starting" ELSE niThread[t].at
          /\ niThread'[t].request = niThread[t].request
          /\ niThread'[t].response = niThread[t].response
    BY <1>2, <1>3, <2>1 DEF ThreadRecords
  <2> QED BY <1>1, <1>2, <1>3, <2>1, <2>2, <2>3, <2>4
<1> QED BY <1>4, <1>5

LEMMA StoreEffect ==
  ASSUME NiTypeOK, NEW s \in SessionNames, NEW response, Store(s, response)
  PROVE  /\ \A t \in SessionNames : ni'[t].rawRequest = ni[t].rawRequest
         /\ \A t \in SessionNames : ni'[t].reqID = ni[t].reqID
         /\ \A t \in SessionNames :
              t # s => ni'[t].respRecvd = ni[t].respRecvd /\ ni'[t].resp = ni[t].resp
         /\ ni'[s].resp = response
<1>1. ni \in [SessionNames -> SessionRecords]
  BY NiTypeParts
<1>2. ni' = [ni EXCEPT ![s].resp = response, ![s].respRecvd = TRUE]
  BY DEF Store
<1> QED BY <1>1, <1>2 DEF SessionRecords

(* A thread that gives its session up takes its own request out of it.     *)
LEMMA GivesUpEffect ==
  ASSUME NiTypeOK, SessionIsWatched, NEW r \in Requests, NEW response,
         At(r, "starting") \/ At(r, "waiting"), GivesUpSession(r, response)
  PROVE  /\ niKind[r] \in SessionNames /\ ni[niKind[r]].rawRequest = r
         /\ \A s \in SessionNames :
              /\ ni'[s].rawRequest = IF s = niKind[r] THEN NoRequest ELSE ni[s].rawRequest
              /\ ni'[s].reqID = ni[s].reqID
              /\ s # niKind[r] =>
                   ni'[s].respRecvd = ni[s].respRecvd /\ ni'[s].resp = ni[s].resp
         /\ ni'[niKind[r]].respRecvd = FALSE
         /\ payload' = [payload EXCEPT ![r] = IF response # "IGNORE" THEN "thread" ELSE "freed"]
         /\ niThread' = [niThread EXCEPT
                           ![r] = [at |-> "clearing", response |-> response,
                                   request |-> IF response # "IGNORE" THEN r ELSE NoRequest]]
         /\ UNCHANGED <<requestVars, niQueue, handling, outsideVars, late>>
<1>1. /\ niKind[r] \in SessionNames /\ ni \in [SessionNames -> SessionRecords]
      /\ niThread \in [Requests -> ThreadRecords]
  BY NiTypeParts
<1>2. ni[niKind[r]].rawRequest = r /\ r # NoRequest
  BY <1>1 DEF SessionIsWatched, Requests, NoRequest
<1>3. /\ ni' = [ni EXCEPT ![niKind[r]].resp = response, ![niKind[r]].respRecvd = FALSE,
                          ![niKind[r]].rawRequest = NoRequest]
      /\ payload' = [payload EXCEPT ![r] = IF response # "IGNORE" THEN "thread" ELSE "freed"]
      /\ niThread' = [niThread EXCEPT
                       ![r] = [at |-> "clearing", response |-> response,
                               request |-> IF response # "IGNORE" THEN r ELSE NoRequest]]
      /\ UNCHANGED <<requestVars, niQueue, handling, outsideVars, late>>
  BY <1>2 DEF GivesUpSession
<1>4. /\ \A s \in SessionNames :
           /\ ni'[s].rawRequest = IF s = niKind[r] THEN NoRequest ELSE ni[s].rawRequest
           /\ ni'[s].reqID = ni[s].reqID
           /\ s # niKind[r] =>
                ni'[s].respRecvd = ni[s].respRecvd /\ ni'[s].resp = ni[s].resp
      /\ ni'[niKind[r]].respRecvd = FALSE
  <2>1. ni' = [ni EXCEPT ![niKind[r]].resp = response, ![niKind[r]].respRecvd = FALSE,
                         ![niKind[r]].rawRequest = NoRequest]
    BY <1>3
  <2> QED BY <1>1, <2>1 DEF SessionRecords
<1> QED BY <1>1, <1>2, <1>3, <1>4

LEMMA ClearEffect ==
  ASSUME NiTypeOK, NEW r \in Requests, ReqIdCleared(r)
  PROVE  /\ niKind[r] \in SessionNames
         /\ \A s \in SessionNames :
              /\ ni'[s].rawRequest = ni[s].rawRequest
              /\ ni'[s].reqID = IF s = niKind[r] THEN 0 ELSE ni[s].reqID
              /\ ni'[s].respRecvd = ni[s].respRecvd /\ ni'[s].resp = ni[s].resp
<1>1. niKind[r] \in SessionNames /\ ni \in [SessionNames -> SessionRecords]
  BY NiTypeParts
<1> QED BY <1>1 DEF ReqIdCleared, SessionRecords

LEMMA GotoEffect ==
  ASSUME NiTypeOK, NEW r \in Requests, NEW place, Goto(r, place)
  PROVE  \A t \in Requests :
           /\ niThread'[t].at = IF t = r THEN place ELSE niThread[t].at
           /\ niThread'[t].request = niThread[t].request
           /\ niThread'[t].response = niThread[t].response
<1>1. niThread \in [Requests -> ThreadRecords]
  BY NiTypeParts
<1> QED BY <1>1 DEF Goto, ThreadRecords

-----------------------------------------------------------------------------
(* Sessions and threads.                                                   *)

(* A thread passes on its own request, or none.                            *)
ThreadsFit ==
  \A r \in Requests :
    /\ niThread[r].request \in {NoRequest, r}
    /\ At(r, "posting") => niThread[r].request # NoRequest

Watching(place) == place = "starting" \/ place = "waiting"

(* SessionIsWatched in the next state, which is given by two functions.    *)
LEMMA WatchedNext ==
  ASSUME NEW raw, NEW at,
         \A s \in SessionNames : ni'[s].rawRequest = raw[s],
         \A r \in Requests : niThread'[r].at = at[r],
         niKind' = niKind,
         \A s \in SessionNames : raw[s] # NoRequest =>
           raw[s] \in Requests /\ niKind[raw[s]] = s /\ Watching(at[raw[s]]),
         \A s \in SessionNames : \A r \in Requests :
           niKind[r] = s /\ Watching(at[r]) => raw[s] = r
  PROVE  SessionIsWatched'
<1>1. ASSUME NEW s \in SessionNames, raw[s] # NoRequest
      PROVE  /\ niKind'[raw[s]] = s
             /\ niThread'[raw[s]].at = "starting" \/ niThread'[raw[s]].at = "waiting"
  BY <1>1 DEF Watching
<1>2. ASSUME NEW s \in SessionNames, NEW r \in Requests, niKind'[r] = s,
             niThread'[r].at = "starting" \/ niThread'[r].at = "waiting"
      PROVE  raw[s] = r
  BY <1>2 DEF Watching
<1> QED BY <1>1, <1>2 DEF SessionIsWatched, At

LEMMA WatchedNow ==
  ASSUME NiTypeOK, SessionIsWatched
  PROVE  /\ \A s \in SessionNames : ni[s].rawRequest # NoRequest =>
              /\ ni[s].rawRequest \in Requests /\ niKind[ni[s].rawRequest] = s
              /\ Watching(niThread[ni[s].rawRequest].at)
         /\ \A s \in SessionNames : \A r \in Requests :
              niKind[r] = s /\ Watching(niThread[r].at) => ni[s].rawRequest = r
<1>1. \A s \in SessionNames : ni[s].rawRequest \in Requests \cup {NoRequest}
  BY NiTypeParts DEF SessionRecords
<1> QED BY <1>1 DEF SessionIsWatched, Watching, At

LEMMA StillWatched ==
  ASSUME NiTypeOK, SessionIsWatched, niKind' = niKind,
         \A s \in SessionNames : ni'[s].rawRequest = ni[s].rawRequest,
         \A r \in Requests : Watching(niThread'[r].at) <=> Watching(niThread[r].at)
  PROVE  SessionIsWatched'
<1> DEFINE raw == [s \in SessionNames |-> ni[s].rawRequest]
           at == [r \in Requests |-> niThread'[r].at]
<1>1. /\ \A s \in SessionNames : ni'[s].rawRequest = raw[s]
      /\ \A r \in Requests : niThread'[r].at = at[r]
  OBVIOUS
<1>2. \A s \in SessionNames : raw[s] # NoRequest =>
        raw[s] \in Requests /\ niKind[raw[s]] = s /\ Watching(at[raw[s]])
  BY WatchedNow
<1>3. \A s \in SessionNames : \A r \in Requests :
        niKind[r] = s /\ Watching(at[r]) => raw[s] = r
  BY WatchedNow
<1> HIDE DEF raw, at
<1> QED BY <1>1, <1>2, <1>3, WatchedNext

LEMMA NotifyWatched ==
  ASSUME NiTypeOK, SessionIsWatched, ThreadsFit, RequestNiNotify
  PROVE  SessionIsWatched' /\ ThreadsFit'
<1> DEFINE r == Head(niQueue).request
           k == niKind[r]
<1>1. niKind' = niKind
  BY DEF RequestNiNotify
<1>2. CASE UNCHANGED <<ni, niThread, idCounter, niId>>
  BY <1>1, <1>2, StillWatched DEF ThreadsFit, At
<1>3. CASE ~UNCHANGED <<ni, niThread, idCounter, niId>>
  <2>1. /\ r \in Requests /\ k \in SessionNames
        /\ ni[k].rawRequest = NoRequest
        /\ \A s \in SessionNames :
             ni'[s].rawRequest = IF s = k THEN r ELSE ni[s].rawRequest
        /\ \A t \in Requests :
             /\ niThread'[t].at = IF t = r THEN "starting" ELSE niThread[t].at
             /\ niThread'[t].request = niThread[t].request
    BY <1>3, NotifyEffect
  <2> HIDE DEF r
  <2> DEFINE raw == [s \in SessionNames |-> IF s = k THEN r ELSE ni[s].rawRequest]
             at == [t \in Requests |-> IF t = r THEN "starting" ELSE niThread[t].at]
  <2>2. \A t \in Requests : t # NoRequest
    BY DEF Requests, NoRequest
  <2>3. /\ \A s \in SessionNames : ni'[s].rawRequest = raw[s]
        /\ \A t \in Requests : niThread'[t].at = at[t]
    BY <2>1
  <2>4. \A s \in SessionNames : raw[s] # NoRequest =>
          raw[s] \in Requests /\ niKind[raw[s]] = s /\ Watching(at[raw[s]])
    BY <2>1, WatchedNow DEF Watching
  <2>5. \A s \in SessionNames : \A t \in Requests :
          niKind[t] = s /\ Watching(at[t]) => raw[s] = t
    BY <2>1, <2>2, WatchedNow DEF Watching
  <2>6. \A t \in Requests : niThread'[t].at = "posting" => niThread[t].at = "posting"
    BY <2>1
  <2>7. ThreadsFit'
    BY <2>1, <2>6 DEF ThreadsFit, At
  <2> HIDE DEF raw, at
  <2>8. SessionIsWatched'
    BY <1>1, <2>3, <2>4, <2>5, WatchedNext
  <2> QED BY <2>7, <2>8
<1> QED BY <1>2, <1>3

LEMMA GivesUpWatched ==
  ASSUME NiTypeOK, SessionIsWatched, ThreadsFit, NEW r \in Requests, NEW response,
         At(r, "starting") \/ At(r, "waiting"), GivesUpSession(r, response)
  PROVE  SessionIsWatched' /\ ThreadsFit'
<1> DEFINE k == niKind[r]
<1>1. /\ k \in SessionNames /\ ni[k].rawRequest = r
      /\ \A s \in SessionNames :
           ni'[s].rawRequest = IF s = k THEN NoRequest ELSE ni[s].rawRequest
      /\ niThread' = [niThread EXCEPT
                        ![r] = [at |-> "clearing", response |-> response,
                                request |-> IF response # "IGNORE" THEN r ELSE NoRequest]]
      /\ niKind' = niKind
  <2>1. /\ niKind[r] \in SessionNames /\ ni[niKind[r]].rawRequest = r
        /\ \A s \in SessionNames :
             /\ ni'[s].rawRequest = IF s = niKind[r] THEN NoRequest ELSE ni[s].rawRequest
             /\ ni'[s].reqID = ni[s].reqID
             /\ s # niKind[r] =>
                  ni'[s].respRecvd = ni[s].respRecvd /\ ni'[s].resp = ni[s].resp
        /\ ni'[niKind[r]].respRecvd = FALSE
        /\ payload' = [payload EXCEPT ![r] = IF response # "IGNORE" THEN "thread" ELSE "freed"]
        /\ niThread' = [niThread EXCEPT
                          ![r] = [at |-> "clearing", response |-> response,
                                  request |-> IF response # "IGNORE" THEN r ELSE NoRequest]]
        /\ UNCHANGED <<requestVars, niQueue, handling, outsideVars, late>>
    BY GivesUpEffect, Zenon
  <2>2. niKind' = niKind
    BY <2>1 DEF requestVars
  <2> QED BY <2>1, <2>2
<1>2. /\ \A t \in Requests : niThread'[t].at = IF t = r THEN "clearing" ELSE niThread[t].at
      /\ \A t \in Requests : t # r => niThread'[t].request = niThread[t].request
      /\ niThread'[r].request \in {NoRequest, r}
  BY <1>1, NiTypeParts
<1> DEFINE raw == [s \in SessionNames |-> IF s = k THEN NoRequest ELSE ni[s].rawRequest]
           at == [t \in Requests |-> IF t = r THEN "clearing" ELSE niThread[t].at]
<1>3. /\ \A s \in SessionNames : ni'[s].rawRequest = raw[s]
      /\ \A t \in Requests : niThread'[t].at = at[t]
  BY <1>1, <1>2
<1>4. \A s \in SessionNames : raw[s] # NoRequest =>
        raw[s] \in Requests /\ niKind[raw[s]] = s /\ Watching(at[raw[s]])
  BY WatchedNow
<1>5. \A s \in SessionNames : \A t \in Requests :
        niKind[t] = s /\ Watching(at[t]) => raw[s] = t
  BY <1>1, WatchedNow DEF Watching
<1>6. ThreadsFit'
  BY <1>2 DEF ThreadsFit, At
<1> HIDE DEF raw, at
<1>7. SessionIsWatched'
  BY <1>1, <1>3, <1>4, <1>5, WatchedNext
<1> QED BY <1>6, <1>7

LEMMA NextWatched ==
  ASSUME NiTypeOK, SessionIsWatched, ThreadsFit, [NiNext]_niVars
  PROVE  SessionIsWatched' /\ ThreadsFit'
<1>1. ASSUME \A s \in SessionNames : ni'[s].rawRequest = ni[s].rawRequest,
             UNCHANGED <<niThread, niKind>>
      PROVE  SessionIsWatched' /\ ThreadsFit'
  BY <1>1, StillWatched DEF ThreadsFit, At
<1>2. CASE OtherSessionIgnored
  <2>1. Store("session", "IGNORE") /\ "session" \in SessionNames
    BY <1>2 DEF OtherSessionIgnored, SessionNames
  <2>2. \A s \in SessionNames : ni'[s].rawRequest = ni[s].rawRequest
    BY <2>1, StoreEffect
  <2> QED BY <1>1, <1>2, <2>2 DEF OtherSessionIgnored, requestVars
<1>3. CASE ResponseStored
  <2>1. handling.session \in SessionNames /\ Store(handling.session, handling.response)
    BY <1>3, NiTypeParts DEF HandlingRecords, ResponseStored
  <2>2. \A s \in SessionNames : ni'[s].rawRequest = ni[s].rawRequest
    BY <2>1, StoreEffect
  <2> QED BY <1>1, <1>3, <2>2 DEF ResponseStored, requestVars
<1>4. CASE UNCHANGED <<ni, niThread, niKind>>
  BY <1>1, <1>4
<1>5. CASE ResponseChecked \/ OtherSessionChecked \/ InformNiResponse
  BY <1>4, <1>5
  DEF ResponseChecked, OtherSessionChecked, InformNiResponse, requestVars
<1>6. CASE ClientChanges \/ UNCHANGED niVars
  BY <1>4, <1>6 DEF ClientChanges, niVars, requestVars
<1>7. ASSUME NEW r \in Requests, NiRequested(r) \/ \E response : UserResponds(r, response)
      PROVE  SessionIsWatched' /\ ThreadsFit'
  BY <1>4, <1>7 DEF NiRequested, UserResponds, requestVars
<1>8. ASSUME NEW r \in Requests, NEW place, Goto(r, place), niKind' = niKind,
             \A s \in SessionNames : ni'[s].rawRequest = ni[s].rawRequest,
             Watching(niThread[r].at) <=> Watching(place),
             place = "posting" => niThread[r].request # NoRequest
      PROVE  SessionIsWatched' /\ ThreadsFit'
  <2>1. \A t \in Requests :
          /\ niThread'[t].at = IF t = r THEN place ELSE niThread[t].at
          /\ niThread'[t].request = niThread[t].request
          /\ niThread'[t].response = niThread[t].response
    BY <1>8, GotoEffect, Zenon
  <2>2. \A t \in Requests : Watching(niThread'[t].at) <=> Watching(niThread[t].at)
    BY <1>8, <2>1
  <2>3. ThreadsFit'
    BY <1>8, <2>1 DEF ThreadsFit, At
  <2> QED BY <1>8, <2>2, <2>3, StillWatched
<1>9. ASSUME NEW r \in Requests, NiThreadStep(r)
      PROVE  SessionIsWatched' /\ ThreadsFit'
  <2>1. CASE ThreadWaits(r)
    BY <1>8, <2>1 DEF ThreadWaits, Watching, At, requestVars
  <2>2. CASE ResponseSeen(r) \/ WaitTimesOut(r)
    BY <2>2, GivesUpWatched DEF ResponseSeen, WaitTimesOut
  <2>3. CASE ReqIdCleared(r)
    <3>1. \A s \in SessionNames : ni'[s].rawRequest = ni[s].rawRequest
      BY <2>3, ClearEffect
    <3>2. /\ Goto(r, IF niThread[r].request = NoRequest THEN "done" ELSE "posting")
          /\ ~Watching(niThread[r].at) /\ niKind' = niKind
      BY <2>3 DEF ReqIdCleared, Watching, At, requestVars
    <3>3. ~Watching("done") /\ ~Watching("posting")
      BY DEF Watching
    <3>4. CASE niThread[r].request = NoRequest
      BY <1>8, <3>1, <3>2, <3>3, <3>4
    <3>5. CASE niThread[r].request # NoRequest
      BY <1>8, <3>1, <3>2, <3>3, <3>5
    <3> QED BY <3>4, <3>5
  <2>4. CASE ResponsePosted(r)
    <3>1. Goto(r, "done") /\ UNCHANGED <<ni, niKind>>
      BY <2>4 DEF ResponsePosted, requestVars
    <3>2. Watching(niThread[r].at) <=> Watching("done")
      BY <2>4 DEF ResponsePosted, Watching, At
    <3> QED BY <1>8, <3>1, <3>2
  <2> QED BY <1>9, <2>1, <2>2, <2>3, <2>4 DEF NiThreadStep
<1> QED
  BY <1>2, <1>3, <1>5, <1>6, <1>7, <1>9, NotifyWatched DEF NiNext, AdapterStep

-----------------------------------------------------------------------------
(* The raw data.                                                           *)

(* The messages of queue q that carry raw data own it, each its own.       *)
QueueOwns(q, p) ==
  \A i \in 1..Len(q) : q[i].kind # "respond" =>
    /\ p[q[i].request] = "queue"
    /\ \A j \in 1..Len(q) :
         q[j].kind # "respond" /\ q[j].request = q[i].request => i = j

(* The requests that q reports have no thread yet.                         *)
ReportsFresh(q, thread) ==
  \A i \in 1..Len(q) : q[i].kind = "report" => thread[q[i].request].at = "none"

SessionsOwn ==
  \A s \in SessionNames :
    ni[s].rawRequest # NoRequest => payload[ni[s].rawRequest] = "session"
ThreadsOwn ==
  \A r \in Requests :
    niThread[r].request = r /\ ~At(r, "done") => payload[r] = "thread"
ModemFresh == \A r \in Requests : payload[r] = "modem" => At(r, "none")

Owners ==
  /\ SessionsOwn /\ ThreadsOwn /\ ModemFresh
  /\ QueueOwns(niQueue, payload) /\ ReportsFresh(niQueue, niThread)

LEMMA AppendOwns ==
  ASSUME NEW q \in Seq(NiMessages), NEW p \in [Requests -> NiPlaces], QueueOwns(q, p),
         NEW e \in NiMessages
  PROVE  /\ e.kind = "respond" => QueueOwns(Append(q, e), p)
         /\ e.kind # "respond" /\ p[e.request] # "queue" =>
              QueueOwns(Append(q, e), [p EXCEPT ![e.request] = "queue"])
<1>1. \A i \in 1..Len(q) : q[i] \in NiMessages
  BY ElementOfSeq
<1>2. /\ Len(Append(q, e)) = Len(q) + 1 /\ Len(q) \in Nat
      /\ \A i \in 1..Len(Append(q, e)) :
           \/ i \in 1..Len(q) /\ Append(q, e)[i] = q[i]
           \/ i = Len(q) + 1 /\ Append(q, e)[i] = e
  BY QueueAppend
<1>3. ASSUME e.kind = "respond"
      PROVE  QueueOwns(Append(q, e), p)
  BY <1>2, <1>3 DEF QueueOwns
<1>4. ASSUME e.kind # "respond", p[e.request] # "queue"
      PROVE  QueueOwns(Append(q, e), [p EXCEPT ![e.request] = "queue"])
  <2>1. \A i \in 1..Len(q) : q[i].kind # "respond" =>
          q[i].request \in Requests /\ q[i].request # e.request
    BY <1>1, <1>4, MessageFields DEF QueueOwns
  <2>2. e.request \in Requests
    BY <1>4, MessageFields
  <2> QED BY <1>2, <1>4, <2>1, <2>2 DEF QueueOwns
<1> QED BY <1>3, <1>4

LEMMA TailOwns ==
  ASSUME NEW q \in Seq(NiMessages), NEW p \in [Requests -> NiPlaces], QueueOwns(q, p),
         q # <<>>
  PROVE  /\ QueueOwns(Tail(q), p)
         /\ Head(q).kind # "respond" =>
              /\ p[Head(q).request] = "queue"
              /\ \A i \in 1..Len(Tail(q)) :
                   Tail(q)[i].kind # "respond" => Tail(q)[i].request # Head(q).request
              /\ \A place : QueueOwns(Tail(q), [p EXCEPT ![Head(q).request] = place])
<1>1. /\ Tail(q) \in Seq(NiMessages) /\ Head(q) = q[1] /\ 1 \in 1..Len(q)
      /\ Head(q) \in NiMessages
      /\ \A i \in 1..Len(Tail(q)) : i + 1 \in 1..Len(q) /\ Tail(q)[i] = q[i + 1]
  BY QueueTail
<1>2. QueueOwns(Tail(q), p)
  BY <1>1 DEF QueueOwns
<1>3. ASSUME Head(q).kind # "respond"
      PROVE  /\ p[Head(q).request] = "queue"
             /\ \A i \in 1..Len(Tail(q)) :
                  Tail(q)[i].kind # "respond" => Tail(q)[i].request # Head(q).request
  BY <1>1, <1>3 DEF QueueOwns
<1>4. ASSUME Head(q).kind # "respond", NEW place
      PROVE  QueueOwns(Tail(q), [p EXCEPT ![Head(q).request] = place])
  <2>1. \A i \in 1..Len(Tail(q)) : Tail(q)[i].kind # "respond" =>
          Tail(q)[i].request \in Requests
    BY <1>1, ElementOfSeq, MessageFields
  <2> QED BY <1>2, <1>3, <1>4, <2>1 DEF QueueOwns
<1> QED BY <1>2, <1>3, <1>4

LEMMA ElsewhereOwns ==
  ASSUME NEW q \in Seq(NiMessages), NEW p \in [Requests -> NiPlaces], QueueOwns(q, p),
         NEW r \in Requests, p[r] # "queue", NEW place
  PROVE  QueueOwns(q, [p EXCEPT ![r] = place])
<1>1. \A i \in 1..Len(q) : q[i].kind # "respond" => q[i].request \in Requests
  BY ElementOfSeq, MessageFields
<1> QED BY <1>1 DEF QueueOwns

LEMMA FreshQueues ==
  ASSUME NEW q \in Seq(NiMessages), NEW thread, ReportsFresh(q, thread)
  PROVE  /\ q # <<>> => ReportsFresh(Tail(q), thread)
         /\ \A e \in NiMessages :
              (e.kind = "report" => thread[e.request].at = "none") =>
                ReportsFresh(Append(q, e), thread)
<1>1. ASSUME q # <<>> PROVE ReportsFresh(Tail(q), thread)
  BY <1>1, QueueTail DEF ReportsFresh
<1>2. ASSUME NEW e \in NiMessages, e.kind = "report" => thread[e.request].at = "none"
      PROVE  ReportsFresh(Append(q, e), thread)
  BY <1>2, QueueAppend DEF ReportsFresh
<1> QED BY <1>1, <1>2

-----------------------------------------------------------------------------
LEMMA OwnersNow ==
  ASSUME NiTypeOK, ThreadsFit, Owners
  PROVE  OneOwner
<1> SUFFICES ASSUME NEW r \in Requests
    PROVE  /\ (\E s \in SessionNames : ni[s].rawRequest = r) => payload[r] = "session"
           /\ \A t \in Requests :
                niThread[t].request = r /\ ~At(t, "done") => payload[r] = "thread"
           /\ \A i \in 1..Len(niQueue) :
                niQueue[i].kind # "respond" /\ niQueue[i].request = r =>
                  /\ payload[r] = "queue"
                  /\ \A j \in 1..Len(niQueue) :
                       niQueue[j].kind # "respond" /\ niQueue[j].request = r => i = j
  BY DEF OneOwner
<1>1. r # NoRequest
  BY DEF Requests, NoRequest
<1>2. (\E s \in SessionNames : ni[s].rawRequest = r) => payload[r] = "session"
  BY <1>1 DEF Owners, SessionsOwn
<1>3. \A t \in Requests :
        niThread[t].request = r /\ ~At(t, "done") => payload[r] = "thread"
  BY <1>1 DEF Owners, ThreadsOwn, ThreadsFit
<1>4. \A i \in 1..Len(niQueue) :
        niQueue[i].kind # "respond" /\ niQueue[i].request = r =>
          /\ payload[r] = "queue"
          /\ \A j \in 1..Len(niQueue) :
               niQueue[j].kind # "respond" /\ niQueue[j].request = r => i = j
  BY DEF Owners, QueueOwns
<1> QED BY <1>2, <1>3, <1>4

LEMMA InitOwners == NiInit => Owners
<1> SUFFICES ASSUME NiInit PROVE Owners
  OBVIOUS
<1>1. SessionsOwn
  BY DEF NiInit, SessionsOwn
<1>2. ThreadsOwn /\ ModemFresh
  BY DEF NiInit, ThreadsOwn, ModemFresh, NoThread, Requests, NoRequest, At
<1>3. QueueOwns(niQueue, payload) /\ ReportsFresh(niQueue, niThread)
  BY DEF NiInit, QueueOwns, ReportsFresh
<1> QED BY <1>1, <1>2, <1>3 DEF Owners

(* Steps that change no raw data, no queue entry with raw data and no      *)
(* thread's request.                                                       *)
LEMMA OwnersStay ==
  ASSUME NiTypeOK, Owners, payload' = payload,
         \A s \in SessionNames : ni'[s].rawRequest = ni[s].rawRequest,
         QueueOwns(niQueue', payload), ReportsFresh(niQueue', niThread),
         \A r \in Requests :
           /\ niThread'[r].request = niThread[r].request
           /\ At(r, "none") => niThread'[r].at = "none"
           /\ At(r, "done") => niThread'[r].at = "done",
         niQueue' \in Seq(NiMessages)
  PROVE  Owners'
<1>1. SessionsOwn'
  BY DEF Owners, SessionsOwn
<1>2. ThreadsOwn' /\ ModemFresh'
  BY DEF Owners, ThreadsOwn, ModemFresh, At
<1>3. \A i \in 1..Len(niQueue') : niQueue'[i].kind = "report" => niQueue'[i].request \in Requests
  BY ElementOfSeq, MessageFields
<1>4. ReportsFresh(niQueue', niThread')
  BY <1>3 DEF ReportsFresh, At
<1>5. QueueOwns(niQueue', payload')
  OBVIOUS
<1> QED BY <1>1, <1>2, <1>4, <1>5 DEF Owners

LEMMA RequestedOwners ==
  ASSUME NiTypeOK, Owners, NEW r \in Requests, NiRequested(r)
  PROVE  Owners'
<1> DEFINE e == [kind |-> "report", request |-> r]
<1>1. /\ payload[r] = "modem" /\ payload' = [payload EXCEPT ![r] = "queue"]
      /\ niQueue' = Append(niQueue, e) /\ UNCHANGED <<ni, niThread>>
  BY DEF NiRequested
<1>2. /\ niQueue \in Seq(NiMessages) /\ payload \in [Requests -> NiPlaces]
      /\ niThread[r].at = "none"
  BY <1>1, NiTypeParts DEF Owners, ModemFresh, At
<1>3. e \in NiMessages /\ e.kind = "report" /\ e.request = r
  BY DEF NiMessages
<1> HIDE DEF e
<1>4. QueueOwns(niQueue', payload')
  <2>1. QueueOwns(Append(niQueue, e), [payload EXCEPT ![e.request] = "queue"])
    BY <1>1, <1>2, <1>3, AppendOwns DEF Owners
  <2> QED BY <1>1, <1>3, <2>1
<1>5. ReportsFresh(niQueue', niThread')
  <2>1. ReportsFresh(Append(niQueue, e), niThread)
    BY <1>2, <1>3, FreshQueues DEF Owners
  <2> QED BY <1>1, <2>1
<1>6. SessionsOwn'
  <2>1. \A s \in SessionNames : ni[s].rawRequest # NoRequest =>
          ni[s].rawRequest # r /\ ni[s].rawRequest \in Requests
    BY <1>1, NiTypeParts DEF Owners, SessionsOwn, SessionRecords
  <2> QED BY <1>1, <1>2, <2>1 DEF Owners, SessionsOwn
<1>7. ThreadsOwn' /\ ModemFresh'
  BY <1>1, <1>2 DEF Owners, ThreadsOwn, ModemFresh, At
<1> QED BY <1>4, <1>5, <1>6, <1>7 DEF Owners

LEMMA NotifyOwners ==
  ASSUME NiTypeOK, ThreadsFit, Owners, RequestNiNotify
  PROVE  Owners'
<1> DEFINE r == Head(niQueue).request
<1>1. /\ r \in Requests /\ niKind[r] \in SessionNames
      /\ niQueue # <<>> /\ Head(niQueue).kind = "report" /\ niQueue' = Tail(niQueue)
      /\ niQueue \in Seq(NiMessages) /\ payload \in [Requests -> NiPlaces]
  BY NotifyEffect, NiTypeParts
<1>2. /\ payload[r] = "queue" /\ niThread[r].at = "none"
      /\ \A i \in 1..Len(Tail(niQueue)) :
           Tail(niQueue)[i].kind # "respond" => Tail(niQueue)[i].request # r
      /\ \A place : QueueOwns(Tail(niQueue), [payload EXCEPT ![r] = place])
      /\ ReportsFresh(Tail(niQueue), niThread)
  <2>1. niThread[r].at = "none"
    BY <1>1, QueueTail DEF Owners, ReportsFresh
  <2> QED BY <1>1, <2>1, TailOwns, FreshQueues DEF Owners
<1>3. \A s \in SessionNames : ni[s].rawRequest # NoRequest =>
        ni[s].rawRequest # r /\ ni[s].rawRequest \in Requests
  BY <1>2, NiTypeParts DEF Owners, SessionsOwn, SessionRecords
<1>4. niThread[r].request = NoRequest
  BY <1>1, <1>2 DEF Owners, ThreadsOwn, ThreadsFit, At
<1>5. CASE UNCHANGED <<ni, niThread, idCounter, niId>>
  <2>1. PICK end \in {"leaked", "freed"} : payload' = [payload EXCEPT ![r] = end]
    <3>1. idCounter' # idCounter + 1
      BY <1>5, NiTypeParts
    <3> QED BY <3>1, NotifyEffect
  <2> HIDE DEF r
  <2>2. SessionsOwn'
    BY <1>3, <1>5, <2>1, <1>1 DEF Owners, SessionsOwn
  <2>3. ThreadsOwn' /\ ModemFresh'
    BY <1>1, <1>2, <1>4, <1>5, <2>1 DEF Owners, ThreadsOwn, ModemFresh, At, Requests, NoRequest
  <2>4. QueueOwns(niQueue', payload') /\ ReportsFresh(niQueue', niThread')
    BY <1>1, <1>2, <1>5, <2>1
  <2> QED BY <2>2, <2>3, <2>4 DEF Owners
<1>6. CASE ~UNCHANGED <<ni, niThread, idCounter, niId>>
  <2>1. payload' = [payload EXCEPT ![r] = "session"]
    BY <1>6, NotifyEffect
  <2>2. \A s \in SessionNames :
          ni'[s].rawRequest = IF s = niKind[r] THEN r ELSE ni[s].rawRequest
    BY <1>6, NotifyEffect
  <2>3. \A t \in Requests :
          /\ niThread'[t].at = IF t = r THEN "starting" ELSE niThread[t].at
          /\ niThread'[t].request = niThread[t].request
    BY <1>6, NotifyEffect
  <2> HIDE DEF r
  <2>4. SessionsOwn'
    <3>1. ASSUME NEW s \in SessionNames, ni'[s].rawRequest # NoRequest
          PROVE  payload'[ni'[s].rawRequest] = "session"
      <4>1. CASE s = niKind[r]
        BY <1>1, <2>1, <2>2, <4>1
      <4>2. CASE s # niKind[r]
        BY <1>1, <1>3, <2>1, <2>2, <3>1, <4>2 DEF Owners, SessionsOwn
      <4> QED BY <4>1, <4>2
    <3> QED BY <3>1 DEF SessionsOwn
  <2>5. ThreadsOwn' /\ ModemFresh'
    <3>1. \A t \in Requests : payload'[t] = IF t = r THEN "session" ELSE payload[t]
      BY <1>1, <1>2, <2>1, NiTypeParts
    <3>2. ThreadsOwn'
      BY <1>1, <1>2, <1>4, <2>3, <3>1 DEF Owners, ThreadsOwn, At, Requests, NoRequest
    <3>3. ModemFresh'
      BY <1>1, <1>2, <2>3, <3>1 DEF Owners, ModemFresh, At
    <3> QED BY <3>2, <3>3
  <2>6. ReportsFresh(niQueue', niThread')
    <3>1. \A i \in 1..Len(Tail(niQueue)) : Tail(niQueue)[i].kind = "report" =>
            Tail(niQueue)[i].request \in Requests /\ Tail(niQueue)[i].request # r
      BY <1>1, <1>2, QueueTail, ElementOfSeq, MessageFields
    <3> QED BY <1>1, <1>2, <2>3, <3>1 DEF ReportsFresh
  <2>7. QueueOwns(niQueue', payload')
    BY <1>1, <1>2, <2>1
  <2> QED BY <2>4, <2>5, <2>6, <2>7 DEF Owners
<1> QED BY <1>5, <1>6

LEMMA InformOwners ==
  ASSUME NiTypeOK, Owners, InformNiResponse
  PROVE  Owners'
<1> DEFINE r == Head(niQueue).request
<1>1. /\ niQueue # <<>> /\ Head(niQueue).kind = "inform" /\ niQueue' = Tail(niQueue)
      /\ payload' = [payload EXCEPT ![r] = "freed"] /\ UNCHANGED <<ni, niThread>>
      /\ niQueue \in Seq(NiMessages) /\ payload \in [Requests -> NiPlaces]
  BY NiTypeParts DEF InformNiResponse, Handles
<1>2. /\ payload[r] = "queue" /\ r \in Requests
      /\ \A place : QueueOwns(Tail(niQueue), [payload EXCEPT ![r] = place])
      /\ ReportsFresh(Tail(niQueue), niThread)
  <2>1. r \in Requests
    BY <1>1, QueueTail, MessageFields
  <2> QED BY <1>1, <2>1, TailOwns, FreshQueues DEF Owners
<1>3. \A s \in SessionNames : ni[s].rawRequest # NoRequest =>
        ni[s].rawRequest # r /\ ni[s].rawRequest \in Requests
  BY <1>2, NiTypeParts DEF Owners, SessionsOwn, SessionRecords
<1> HIDE DEF r
<1>4. SessionsOwn'
  BY <1>1, <1>2, <1>3 DEF Owners, SessionsOwn
<1>5. ThreadsOwn' /\ ModemFresh'
  BY <1>1, <1>2 DEF Owners, ThreadsOwn, ModemFresh, At
<1>6. QueueOwns(niQueue', payload') /\ ReportsFresh(niQueue', niThread')
  BY <1>1, <1>2
<1> QED BY <1>4, <1>5, <1>6 DEF Owners

LEMMA GivesUpOwners ==
  ASSUME NiTypeOK, SessionIsWatched, ThreadsFit, Owners, NEW r \in Requests, NEW response,
         At(r, "starting") \/ At(r, "waiting"), GivesUpSession(r, response)
  PROVE  Owners'
<1>1. /\ niKind[r] \in SessionNames /\ ni[niKind[r]].rawRequest = r
      /\ \A s \in SessionNames :
           /\ ni'[s].rawRequest = IF s = niKind[r] THEN NoRequest ELSE ni[s].rawRequest
           /\ ni'[s].reqID = ni[s].reqID
           /\ s # niKind[r] =>
                ni'[s].respRecvd = ni[s].respRecvd /\ ni'[s].resp = ni[s].resp
      /\ ni'[niKind[r]].respRecvd = FALSE
      /\ payload' = [payload EXCEPT ![r] = IF response # "IGNORE" THEN "thread" ELSE "freed"]
      /\ niThread' = [niThread EXCEPT
                        ![r] = [at |-> "clearing", response |-> response,
                                request |-> IF response # "IGNORE" THEN r ELSE NoRequest]]
      /\ UNCHANGED <<requestVars, niQueue, handling, outsideVars, late>>
  BY GivesUpEffect, Zenon
<1>2. r # NoRequest
  BY DEF Requests, NoRequest
<1>3. payload[r] = "session" /\ payload \in [Requests -> NiPlaces]
  BY <1>1, <1>2, NiTypeParts DEF Owners, SessionsOwn
<1>4. \A s \in SessionNames : s # niKind[r] /\ ni[s].rawRequest # NoRequest =>
        ni[s].rawRequest # r /\ ni[s].rawRequest \in Requests
  BY <1>2, WatchedNow
<1>5. SessionsOwn'
  <2>1. \A s \in SessionNames : ni'[s].rawRequest # NoRequest =>
          /\ ni'[s].rawRequest = ni[s].rawRequest /\ ni[s].rawRequest # NoRequest
          /\ ni[s].rawRequest # r /\ ni[s].rawRequest \in Requests
    BY <1>1, <1>4
  <2>2. \A t \in Requests : t # r => payload'[t] = payload[t]
    BY <1>1, <1>3
  <2> QED BY <2>1, <2>2 DEF Owners, SessionsOwn
<1>6. /\ \A t \in Requests : t # r => niThread'[t] = niThread[t]
      /\ niThread'[r].at = "clearing"
      /\ niThread'[r].request = IF response # "IGNORE" THEN r ELSE NoRequest
  BY <1>1, NiTypeParts
<1>7. /\ \A t \in Requests : t # r => payload'[t] = payload[t]
      /\ payload'[r] = IF response # "IGNORE" THEN "thread" ELSE "freed"
  BY <1>1, <1>3
<1>8. ThreadsOwn' /\ ModemFresh'
  BY <1>2, <1>6, <1>7 DEF Owners, ThreadsOwn, ModemFresh, At
<1>9. QueueOwns(niQueue', payload')
  <2>1. PICK place : payload' = [payload EXCEPT ![r] = place]
    BY <1>1
  <2>2. QueueOwns(niQueue, [payload EXCEPT ![r] = place])
    BY <1>3, ElsewhereOwns, NiTypeParts DEF Owners
  <2> QED BY <1>1, <2>1, <2>2
<1>10. ReportsFresh(niQueue', niThread')
  <2>1. \A i \in 1..Len(niQueue) : niQueue[i].kind = "report" =>
          /\ niQueue[i].request \in Requests
          /\ niThread[niQueue[i].request].at = "none"
    BY NiTypeParts, ElementOfSeq, MessageFields DEF Owners, ReportsFresh
  <2>2. niThread[r].at # "none" /\ niQueue' = niQueue
    BY <1>1 DEF At
  <2> QED BY <1>6, <2>1, <2>2 DEF ReportsFresh
<1> QED BY <1>5, <1>8, <1>9, <1>10 DEF Owners

LEMMA PostedOwners ==
  ASSUME NiTypeOK, ThreadsFit, Owners, NEW r \in Requests, ResponsePosted(r)
  PROVE  Owners'
<1> DEFINE e == [kind |-> "inform", request |-> r, response |-> niThread[r].response]
<1>1. niThread[r].at = "posting" /\ niThread[r].request = r
  BY DEF ResponsePosted, At, ThreadsFit
<1>2. /\ niQueue' = Append(niQueue, e) /\ payload' = [payload EXCEPT ![r] = "queue"]
      /\ Goto(r, "done") /\ UNCHANGED ni
  BY <1>1 DEF ResponsePosted
<1>3. /\ niQueue \in Seq(NiMessages) /\ payload \in [Requests -> NiPlaces]
      /\ payload[r] = "thread"
  BY <1>1, NiTypeParts DEF Owners, ThreadsOwn, At
<1>4. e \in NiMessages /\ e.kind = "inform" /\ e.request = r
  <2>1. niThread[r].response \in StoredResponses
    BY NiTypeParts DEF ThreadRecords
  <2> QED BY <2>1 DEF NiMessages
<1> HIDE DEF e
<1>5. \A t \in Requests :
        /\ niThread'[t].at = IF t = r THEN "done" ELSE niThread[t].at
        /\ niThread'[t].request = niThread[t].request
  BY <1>2, GotoEffect
<1>6. QueueOwns(niQueue', payload')
  <2>1. QueueOwns(Append(niQueue, e), [payload EXCEPT ![e.request] = "queue"])
    BY <1>3, <1>4, AppendOwns DEF Owners
  <2> QED BY <1>2, <1>4, <2>1
<1>7. ReportsFresh(niQueue', niThread')
  <2>1. ReportsFresh(Append(niQueue, e), niThread)
    BY <1>3, <1>4, FreshQueues DEF Owners
  <2>2. Append(niQueue, e) \in Seq(NiMessages)
    BY <1>3, <1>4, QueueAppend
  <2>3. \A i \in 1..Len(niQueue') : niQueue'[i].kind = "report" =>
          /\ niQueue'[i].request \in Requests
          /\ niThread[niQueue'[i].request].at = "none"
    BY <1>2, <2>1, <2>2, ElementOfSeq, MessageFields DEF ReportsFresh
  <2> QED BY <1>1, <1>5, <2>3 DEF ReportsFresh
<1>8. SessionsOwn'
  <2>1. \A s \in SessionNames : ni[s].rawRequest # NoRequest =>
          ni[s].rawRequest # r /\ ni[s].rawRequest \in Requests
    BY <1>3, NiTypeParts DEF Owners, SessionsOwn, SessionRecords
  <2> QED BY <1>2, <1>3, <2>1 DEF Owners, SessionsOwn
<1>9. ThreadsOwn' /\ ModemFresh'
  BY <1>1, <1>2, <1>3, <1>5 DEF Owners, ThreadsOwn, ModemFresh, At
<1> QED BY <1>6, <1>7, <1>8, <1>9 DEF Owners

LEMMA NextOwners ==
  ASSUME NiTypeOK, NiTypeOK', SessionIsWatched, ThreadsFit, Owners, [NiNext]_niVars
  PROVE  Owners'
<1>1. ASSUME UNCHANGED <<niThread, payload>>, niQueue' \in {niQueue, Tail(niQueue)},
             niQueue' = niQueue \/ niQueue # <<>>,
             \A s \in SessionNames : ni'[s].rawRequest = ni[s].rawRequest
      PROVE  Owners'
  <2>1. /\ niQueue \in Seq(NiMessages) /\ payload \in [Requests -> NiPlaces]
        /\ QueueOwns(niQueue, payload) /\ ReportsFresh(niQueue, niThread)
    BY NiTypeParts DEF Owners
  <2>2. niQueue # <<>> => /\ QueueOwns(Tail(niQueue), payload)
                          /\ ReportsFresh(Tail(niQueue), niThread)
                          /\ Tail(niQueue) \in Seq(NiMessages)
    BY <2>1, TailOwns, FreshQueues, QueueTail
  <2>3. /\ QueueOwns(niQueue', payload) /\ ReportsFresh(niQueue', niThread)
        /\ niQueue' \in Seq(NiMessages)
    BY <1>1, <2>1, <2>2
  <2>4. \A r \in Requests :
          /\ niThread'[r].request = niThread[r].request
          /\ At(r, "none") => niThread'[r].at = "none"
          /\ At(r, "done") => niThread'[r].at = "done"
    BY <1>1 DEF At
  <2> QED BY <1>1, <2>3, <2>4, OwnersStay
<1>2. CASE OtherSessionIgnored
  <2>1. Store("session", "IGNORE") /\ "session" \in SessionNames
    BY <1>2 DEF OtherSessionIgnored, SessionNames
  <2>2. \A s \in SessionNames : ni'[s].rawRequest = ni[s].rawRequest
    BY <2>1, StoreEffect
  <2> QED BY <1>1, <1>2, <2>2 DEF OtherSessionIgnored
<1>3. CASE ResponseStored
  <2>1. handling.session \in SessionNames /\ Store(handling.session, handling.response)
    BY <1>3, NiTypeParts DEF HandlingRecords, ResponseStored
  <2>2. \A s \in SessionNames : ni'[s].rawRequest = ni[s].rawRequest
    BY <2>1, StoreEffect
  <2> QED BY <1>1, <1>3, <2>2 DEF ResponseStored
<1>4. CASE ResponseChecked
  BY <1>1, <1>4 DEF ResponseChecked, Handles
<1>5. CASE OtherSessionChecked \/ ClientChanges \/ UNCHANGED niVars
  BY <1>1, <1>5 DEF OtherSessionChecked, ClientChanges, niVars
<1>6. ASSUME NEW r \in Requests, NEW response \in UserResponses, UserResponds(r, response)
      PROVE  Owners'
  <2> DEFINE e == [kind |-> "respond", id |-> niId[r], response |-> response]
  <2>1. e \in NiMessages /\ e.kind = "respond"
    BY NiTypeParts DEF NiMessages
  <2>2. niQueue' = Append(niQueue, e) /\ UNCHANGED <<ni, niThread, payload>>
    BY <1>6 DEF UserResponds
  <2> HIDE DEF e
  <2>3. /\ QueueOwns(niQueue', payload) /\ ReportsFresh(niQueue', niThread)
        /\ niQueue' \in Seq(NiMessages)
    <3>1. /\ niQueue \in Seq(NiMessages) /\ payload \in [Requests -> NiPlaces]
          /\ QueueOwns(niQueue, payload) /\ ReportsFresh(niQueue, niThread)
      BY NiTypeParts DEF Owners
    <3>2. QueueOwns(Append(niQueue, e), payload)
      BY <2>1, <3>1, AppendOwns
    <3>3. ReportsFresh(Append(niQueue, e), niThread)
      BY <2>1, <3>1, FreshQueues
    <3>4. Append(niQueue, e) \in Seq(NiMessages)
      BY <2>1, <3>1, QueueAppend
    <3> QED BY <2>2, <3>2, <3>3, <3>4
  <2>4. \A t \in Requests :
          /\ niThread'[t].request = niThread[t].request
          /\ At(t, "none") => niThread'[t].at = "none"
          /\ At(t, "done") => niThread'[t].at = "done"
    BY <2>2 DEF At
  <2> QED BY <2>2, <2>3, <2>4, OwnersStay
<1>7. ASSUME NEW r \in Requests, NEW place, Goto(r, place), UNCHANGED <<niQueue, payload>>,
             \A s \in SessionNames : ni'[s].rawRequest = ni[s].rawRequest,
             ~At(r, "none"), ~At(r, "done")
      PROVE  Owners'
  <2>1. \A t \in Requests :
          /\ niThread'[t].request = niThread[t].request
          /\ At(t, "none") => niThread'[t].at = "none"
          /\ At(t, "done") => niThread'[t].at = "done"
    BY <1>7, GotoEffect DEF At
  <2> QED BY <1>7, <2>1, NiTypeParts, OwnersStay DEF Owners
<1>8. ASSUME NEW r \in Requests, NiThreadStep(r)
      PROVE  Owners'
  <2>1. CASE ThreadWaits(r)
    BY <1>7, <2>1 DEF ThreadWaits, At
  <2>2. CASE ResponseSeen(r) \/ WaitTimesOut(r)
    BY <2>2, GivesUpOwners DEF ResponseSeen, WaitTimesOut
  <2>3. CASE ReqIdCleared(r)
    <3>1. \A s \in SessionNames : ni'[s].rawRequest = ni[s].rawRequest
      BY <2>3, ClearEffect
    <3>2. /\ Goto(r, IF niThread[r].request = NoRequest THEN "done" ELSE "posting")
          /\ UNCHANGED <<niQueue, payload>> /\ ~At(r, "none") /\ ~At(r, "done")
      BY <2>3 DEF ReqIdCleared, At
    <3> QED BY <1>7, <3>1, <3>2
  <2>4. CASE ResponsePosted(r)
    BY <2>4, PostedOwners
  <2> QED BY <1>8, <2>1, <2>2, <2>3, <2>4 DEF NiThreadStep
<1>9. ASSUME NEW r \in Requests, NiRequested(r)
      PROVE  Owners'
  BY <1>9, RequestedOwners
<1> QED
  BY <1>2, <1>3, <1>4, <1>5, <1>6, <1>8, <1>9, NotifyOwners, InformOwners
  DEF NiNext, AdapterStep

-----------------------------------------------------------------------------
(* The answers.                                                            *)

(* A thread that starts, ends or goes on leaves every other one alone.     *)
LEMMA ThreadStepEffect ==
  ASSUME NiTypeOK, SessionIsWatched, NEW r \in Requests, NiThreadStep(r)
  PROVE  /\ \A t \in Requests : niThread'[t].at = "none" => At(t, "none")
         /\ \A s \in SessionNames :
              /\ ni'[s].rawRequest \in {ni[s].rawRequest, NoRequest}
              /\ ni'[s].reqID \in {ni[s].reqID, 0}
         /\ UNCHANGED <<niKind, idCounter, niId, handling, hasNiCb, userSaid, niAnswer, late>>
<1>1. UNCHANGED <<niKind, idCounter, niId, handling, hasNiCb, userSaid, niAnswer, late>>
  BY DEF NiThreadStep, ThreadWaits, ResponseSeen, WaitTimesOut, GivesUpSession,
         ReqIdCleared, ResponsePosted, requestVars, outsideVars
<1>2. CASE ThreadWaits(r) \/ ResponsePosted(r)
  <2>1. ni' = ni /\ \E place \in {"waiting", "done"} : Goto(r, place)
    BY <1>2 DEF ThreadWaits, ResponsePosted
  <2> QED BY <1>1, <2>1, GotoEffect DEF At
<1>3. CASE ResponseSeen(r) \/ WaitTimesOut(r)
  <2>1. PICK response : GivesUpSession(r, response)
    BY <1>3 DEF ResponseSeen, WaitTimesOut
  <2>2. At(r, "starting") \/ At(r, "waiting")
    BY <1>3 DEF ResponseSeen, WaitTimesOut
  <2>3. /\ niKind[r] \in SessionNames /\ ni[niKind[r]].rawRequest = r
        /\ \A s \in SessionNames :
             /\ ni'[s].rawRequest = IF s = niKind[r] THEN NoRequest ELSE ni[s].rawRequest
             /\ ni'[s].reqID = ni[s].reqID
             /\ s # niKind[r] =>
                  ni'[s].respRecvd = ni[s].respRecvd /\ ni'[s].resp = ni[s].resp
        /\ ni'[niKind[r]].respRecvd = FALSE
        /\ payload' = [payload EXCEPT ![r] = IF response # "IGNORE" THEN "thread" ELSE "freed"]
        /\ niThread' = [niThread EXCEPT
                          ![r] = [at |-> "clearing", response |-> response,
                                  request |-> IF response # "IGNORE" THEN r ELSE NoRequest]]
        /\ UNCHANGED <<requestVars, niQueue, handling, outsideVars, late>>
    BY <2>1, <2>2, GivesUpEffect, Zenon
  <2>4. \A t \in Requests : t # r => niThread'[t] = niThread[t]
    BY <2>3, NiTypeParts
  <2>5. niThread'[r].at = "clearing"
    BY <2>3, NiTypeParts
  <2>6. \A t \in Requests : niThread'[t].at = "none" => At(t, "none")
    BY <2>4, <2>5 DEF At
  <2>7. \A s \in SessionNames :
          /\ ni'[s].rawRequest \in {ni[s].rawRequest, NoRequest}
          /\ ni'[s].reqID \in {ni[s].reqID, 0}
    BY <2>3
  <2> QED BY <1>1, <2>6, <2>7
<1>4. CASE ReqIdCleared(r)
  <2>1. \E place \in {"posting", "done"} : Goto(r, place)
    BY <1>4 DEF ReqIdCleared
  <2>2. \A t \in Requests : niThread'[t].at = "none" => At(t, "none")
    BY <2>1, GotoEffect DEF At
  <2> QED BY <1>1, <1>4, <2>2, ClearEffect
<1> QED BY <1>2, <1>3, <1>4 DEF NiThreadStep

(* The id of a request is its own, and so is that of the session it is in, *)
(* unless the thread of the request before it has just cleared it.         *)
IdsFit ==
  /\ \A r \in Requests : niId[r] <= idCounter /\ (At(r, "none") => niId[r] = 0)
  /\ \A r, t \in Requests : niId[r] # 0 /\ niId[r] = niId[t] => r = t
  /\ \A s \in SessionNames :
       ni[s].rawRequest # NoRequest /\ ni[s].reqID # 0 =>
         niId[ni[s].rawRequest] = ni[s].reqID

LEMMA NotifyIds ==
  ASSUME NiTypeOK, Owners, IdsFit, RequestNiNotify
  PROVE  /\ IdsFit'
         /\ \A t \in Requests : niId[t] # 0 => niId'[t] = niId[t]
<1> DEFINE r == Head(niQueue).request
<1>1. /\ niQueue # <<>> /\ Head(niQueue).kind = "report" /\ r \in Requests
      /\ niKind[r] \in SessionNames
  BY NotifyEffect
<1>2. niThread[r].at = "none"
  BY <1>1, QueueTail, NiTypeParts DEF Owners, ReportsFresh
<1>3. /\ idCounter \in Nat /\ niId \in [Requests -> Nat]
      /\ \A s \in SessionNames : ni[s].rawRequest \in Requests \cup {NoRequest}
  BY NiTypeParts DEF SessionRecords
<1>4. niId[r] = 0 /\ payload[r] = "queue"
  BY <1>1, <1>2, TailOwns, NiTypeParts DEF IdsFit, At, Owners
<1>5. \A s \in SessionNames : ni[s].rawRequest # NoRequest => ni[s].rawRequest # r
  BY <1>4 DEF Owners, SessionsOwn
<1>6. CASE UNCHANGED <<ni, niThread, idCounter, niId>>
  BY <1>6 DEF IdsFit, At
<1>7. CASE ~UNCHANGED <<ni, niThread, idCounter, niId>>
  <2>1. /\ idCounter' = idCounter + 1 /\ niId' = [niId EXCEPT ![r] = idCounter + 1]
        /\ \A s \in SessionNames :
             /\ ni'[s].rawRequest = IF s = niKind[r] THEN r ELSE ni[s].rawRequest
             /\ ni'[s].reqID = IF s = niKind[r] THEN idCounter + 1 ELSE ni[s].reqID
        /\ \A t \in Requests :
             niThread'[t].at = IF t = r THEN "starting" ELSE niThread[t].at
    BY <1>7, NotifyEffect
  <2> HIDE DEF r
  <2>2. /\ niId'[r] = idCounter + 1
        /\ \A t \in Requests : t # r => niId'[t] = niId[t]
    BY <1>1, <1>3, <2>1
  <2>3. \A t \in Requests :
          niId'[t] <= idCounter' /\ (niThread'[t].at = "none" => niId'[t] = 0)
    BY <1>3, <2>1, <2>2 DEF IdsFit, At
  <2>4. \A t, u \in Requests : niId'[t] # 0 /\ niId'[t] = niId'[u] => t = u
    <3>1. \A t \in Requests : niId[t] # idCounter + 1
      BY <1>3 DEF IdsFit
    <3> QED BY <1>3, <2>2, <3>1 DEF IdsFit
  <2>5. ASSUME NEW s \in SessionNames, ni'[s].rawRequest # NoRequest, ni'[s].reqID # 0
        PROVE  niId'[ni'[s].rawRequest] = ni'[s].reqID
    <3>1. CASE s = niKind[r]
      BY <2>1, <2>2, <3>1
    <3>2. CASE s # niKind[r]
      <4>1. ni'[s].rawRequest = ni[s].rawRequest /\ ni'[s].reqID = ni[s].reqID
        BY <2>1, <3>2
      <4>2. ni[s].rawRequest \in Requests /\ ni[s].rawRequest # r
        BY <1>3, <1>5, <2>5, <4>1
      <4> QED BY <2>2, <2>5, <4>1, <4>2 DEF IdsFit
    <3> QED BY <3>1, <3>2
  <2>6. IdsFit'
    BY <2>3, <2>4, <2>5 DEF IdsFit, At
  <2> QED BY <1>4, <2>2, <2>6
<1> QED BY <1>6, <1>7

LEMMA NextIds ==
  ASSUME NiTypeOK, SessionIsWatched, Owners, IdsFit, [NiNext]_niVars
  PROVE  /\ IdsFit'
         /\ \A t \in Requests : niId[t] # 0 => niId'[t] = niId[t]
<1>1. ASSUME UNCHANGED <<idCounter, niId>>,
             \A t \in Requests : niThread'[t].at = "none" => At(t, "none"),
             \A s \in SessionNames :
               /\ ni'[s].rawRequest \in {ni[s].rawRequest, NoRequest}
               /\ ni'[s].reqID \in {ni[s].reqID, 0}
      PROVE  IdsFit'
  BY <1>1 DEF IdsFit, At
<1>2. CASE OtherSessionIgnored
  <2>1. Store("session", "IGNORE") /\ "session" \in SessionNames
    BY <1>2 DEF OtherSessionIgnored, SessionNames
  <2> QED BY <1>1, <1>2, <2>1, StoreEffect DEF OtherSessionIgnored, requestVars, At
<1>3. CASE ResponseStored
  <2>1. handling.session \in SessionNames /\ Store(handling.session, handling.response)
    BY <1>3, NiTypeParts DEF HandlingRecords, ResponseStored
  <2> QED BY <1>1, <1>3, <2>1, StoreEffect DEF ResponseStored, requestVars, At
<1>4. CASE \/ ResponseChecked \/ OtherSessionChecked \/ InformNiResponse
           \/ ClientChanges \/ UNCHANGED niVars
  BY <1>1, <1>4
  DEF ResponseChecked, OtherSessionChecked, InformNiResponse, ClientChanges, niVars,
      requestVars, At
<1>5. ASSUME NEW r \in Requests, NiRequested(r) \/ \E response : UserResponds(r, response)
      PROVE  IdsFit' /\ niId' = niId
  BY <1>1, <1>5 DEF NiRequested, UserResponds, requestVars, At
<1>6. ASSUME NEW r \in Requests, NiThreadStep(r)
      PROVE  IdsFit' /\ niId' = niId
  BY <1>1, <1>6, ThreadStepEffect
<1>7. niId' = niId \/ RequestNiNotify
  BY <1>2, <1>3, <1>4, <1>5, <1>6
  DEF NiNext, AdapterStep, OtherSessionIgnored, ResponseStored, ResponseChecked,
      OtherSessionChecked, InformNiResponse, ClientChanges, niVars, requestVars
<1> QED
  BY <1>2, <1>3, <1>4, <1>5, <1>6, <1>7, NotifyIds DEF NiNext, AdapterStep

(* Each response in the queue is what a user has said about the request    *)
(* with that id, and each answer is what its user has said, if anything.   *)
RespondsFit(q, ids, said) ==
  \A i \in 1..Len(q) : q[i].kind = "respond" =>
    q[i].id # 0 /\ \E r \in Requests : ids[r] = q[i].id /\ said[r] = q[i].response
Own(said, r, x) == x = "NO_RESPONSE" \/ (x \in UserResponses /\ said[r] = x)
InformsFit(q, said) ==
  \A i \in 1..Len(q) : q[i].kind = "inform" => Own(said, q[i].request, q[i].response)

HandlingFit ==
  handling.at # "idle" =>
    /\ handling.request \in Requests /\ handling.response \in UserResponses
    /\ userSaid[handling.request] = handling.response
NiSessionsFit ==
  \A s \in SessionNames : ni[s].respRecvd =>
    /\ ni[s].rawRequest # NoRequest
    /\ ni[s].resp = "IGNORE" \/ Own(userSaid, ni[s].rawRequest, ni[s].resp)
ThreadsAnswer ==
  \A r \in Requests : niThread[r].request = r => Own(userSaid, r, niThread[r].response)
NiAnswersFit ==
  \A r \in Requests : niAnswer[r] = "NONE" \/ Own(userSaid, r, niAnswer[r])

LEMMA FitQueues ==
  ASSUME NEW q \in Seq(NiMessages), NEW ids, NEW said
  PROVE  /\ q # <<>> /\ RespondsFit(q, ids, said) => RespondsFit(Tail(q), ids, said)
         /\ q # <<>> /\ InformsFit(q, said) => InformsFit(Tail(q), said)
         /\ \A e \in NiMessages :
              /\ e.kind # "respond" /\ RespondsFit(q, ids, said) =>
                   RespondsFit(Append(q, e), ids, said)
              /\ e.kind # "inform" /\ InformsFit(q, said) => InformsFit(Append(q, e), said)
<1>1. ASSUME q # <<>>
      PROVE  /\ RespondsFit(q, ids, said) => RespondsFit(Tail(q), ids, said)
             /\ InformsFit(q, said) => InformsFit(Tail(q), said)
  BY <1>1, QueueTail DEF RespondsFit, InformsFit
<1>2. ASSUME NEW e \in NiMessages
      PROVE  /\ e.kind # "respond" /\ RespondsFit(q, ids, said) =>
                  RespondsFit(Append(q, e), ids, said)
             /\ e.kind # "inform" /\ InformsFit(q, said) => InformsFit(Append(q, e), said)
  BY <1>2, QueueAppend DEF RespondsFit, InformsFit
<1> QED BY <1>1, <1>2

LEMMA NoResponseIsOwn ==
  ASSUME NEW said, NEW r, NEW x, x = "NO_RESPONSE"
  PROVE  Own(said, r, x)
BY DEF Own

(* What is fit stays so when a user says something about another request.  *)
LEMMA OwnStays ==
  ASSUME NiTypeOK, NEW r \in Requests, userSaid[r] = "NONE", NEW response,
         userSaid' = [userSaid EXCEPT ![r] = response]
  PROVE  \A t \in Requests : \A x : Own(userSaid, t, x) => Own(userSaid', t, x)
BY NiTypeParts DEF Own

LEMMA NextResponds ==
  ASSUME NiTypeOK, SessionIsWatched, ThreadsFit, Owners, IdsFit,
         RespondsFit(niQueue, niId, userSaid), [NiNext]_niVars
  PROVE  RespondsFit(niQueue', niId', userSaid')
<1>0. niQueue \in Seq(NiMessages)
  BY NiTypeParts
<1>1. ASSUME UNCHANGED <<niId, userSaid>>, niQueue' = niQueue \/ niQueue' = Tail(niQueue),
             niQueue' = niQueue \/ niQueue # <<>>
      PROVE  RespondsFit(niQueue', niId', userSaid')
  <2>1. niQueue # <<>> => RespondsFit(Tail(niQueue), niId, userSaid)
    BY <1>0, FitQueues
  <2>2. RespondsFit(niQueue', niId, userSaid)
    BY <1>1, <2>1
  <2> QED BY <1>1, <2>2
<1>2. CASE RequestNiNotify
  <2>1. /\ niQueue' = Tail(niQueue) /\ niQueue # <<>> /\ userSaid' = userSaid
    BY <1>2 DEF RequestNiNotify, Handles, outsideVars
  <2>2. RespondsFit(Tail(niQueue), niId, userSaid)
    BY <1>0, <2>1, FitQueues
  <2>3. \A t \in Requests : niId[t] # 0 => niId'[t] = niId[t]
    BY <1>2, NotifyIds
  <2>4. RespondsFit(Tail(niQueue), niId', userSaid)
    BY <2>2, <2>3 DEF RespondsFit
  <2> QED BY <2>1, <2>4
<1>3. CASE ResponseChecked \/ InformNiResponse
  BY <1>1, <1>3 DEF ResponseChecked, InformNiResponse, Handles, requestVars, outsideVars
<1>4. CASE \/ OtherSessionChecked \/ OtherSessionIgnored \/ ResponseStored
           \/ ClientChanges \/ UNCHANGED niVars
  BY <1>1, <1>4
  DEF OtherSessionChecked, OtherSessionIgnored, ResponseStored, ClientChanges, niVars,
      requestVars, outsideVars
<1>5. ASSUME NEW e \in NiMessages, e.kind # "respond", UNCHANGED <<niId, userSaid>>,
             niQueue' = Append(niQueue, e)
      PROVE  RespondsFit(niQueue', niId', userSaid')
  BY <1>0, <1>5, FitQueues
<1>6. ASSUME NEW r \in Requests, NiRequested(r)
      PROVE  RespondsFit(niQueue', niId', userSaid')
  <2>1. [kind |-> "report", request |-> r] \in NiMessages
    BY DEF NiMessages
  <2> QED BY <1>5, <1>6, <2>1 DEF NiRequested, requestVars, outsideVars
<1>7. ASSUME NEW r \in Requests, NEW response \in UserResponses, UserResponds(r, response)
      PROVE  RespondsFit(niQueue', niId', userSaid')
  <2> DEFINE e == [kind |-> "respond", id |-> niId[r], response |-> response]
  <2>1. /\ e \in NiMessages /\ e.kind = "respond" /\ e.id = niId[r] /\ e.response = response
        /\ niId[r] # 0
    BY <1>7, NiTypeParts DEF NiMessages, UserResponds
  <2>2. /\ niQueue' = Append(niQueue, e) /\ niId' = niId
        /\ userSaid[r] = "NONE" /\ userSaid' = [userSaid EXCEPT ![r] = response]
    BY <1>7 DEF UserResponds, requestVars
  <2>3. /\ userSaid'[r] = response
        /\ \A t \in Requests : t # r => userSaid'[t] = userSaid[t]
    BY <2>2, NiTypeParts
  <2> HIDE DEF e
  <2>4. \A i \in 1..Len(niQueue) : niQueue[i].kind = "respond" =>
          niQueue[i].response # "NONE"
    BY <1>0, ElementOfSeq, MessageFields, NiAssumption
  <2>5. RespondsFit(niQueue, niId, userSaid')
    BY <2>2, <2>3, <2>4 DEF RespondsFit
  <2>6. RespondsFit(Append(niQueue, e), niId, userSaid')
    BY <1>0, <2>1, <2>3, <2>5, QueueAppend DEF RespondsFit
  <2> QED BY <2>2, <2>6
<1>8. ASSUME NEW r \in Requests, NiThreadStep(r)
      PROVE  RespondsFit(niQueue', niId', userSaid')
  <2>1. UNCHANGED <<niId, userSaid>>
    BY <1>8, ThreadStepEffect
  <2>2. CASE niQueue' = niQueue
    BY <1>1, <2>1, <2>2
  <2>3. CASE ResponsePosted(r)
    <3>1. niThread[r].request \in Requests /\ niThread[r].response \in StoredResponses
      BY <2>3, NiTypeParts DEF ResponsePosted, ThreadsFit, ThreadRecords
    <3>2. [kind |-> "inform", request |-> niThread[r].request,
           response |-> niThread[r].response] \in NiMessages
      BY <3>1 DEF NiMessages
    <3> QED BY <1>5, <2>1, <2>3, <3>2 DEF ResponsePosted
  <2> QED
    BY <1>8, <2>2, <2>3
    DEF NiThreadStep, ThreadWaits, ResponseSeen, WaitTimesOut, GivesUpSession, ReqIdCleared
<1> QED
  BY <1>2, <1>3, <1>4, <1>6, <1>7, <1>8 DEF NiNext, AdapterStep

LEMMA NextHandling ==
  ASSUME NiTypeOK, SessionIsWatched, IdsFit, RespondsFit(niQueue, niId, userSaid),
         HandlingFit, [NiNext]_niVars
  PROVE  HandlingFit'
<1>1. ASSUME UNCHANGED userSaid,
             handling' = Idle \/ /\ handling.at # "idle"
                                 /\ handling'.request = handling.request
                                 /\ handling'.response = handling.response
      PROVE  HandlingFit'
  BY <1>1 DEF HandlingFit, Idle
<1>2. ASSUME UNCHANGED <<userSaid, handling>> PROVE HandlingFit'
  BY <1>2 DEF HandlingFit
<1>3. CASE RequestNiNotify \/ InformNiResponse \/ ClientChanges \/ UNCHANGED niVars
  BY <1>2, <1>3 DEF RequestNiNotify, InformNiResponse, ClientChanges, niVars, outsideVars
<1>4. CASE OtherSessionChecked
  <2>1. \E at \in {"ignore", "store"} : handling' = [handling EXCEPT !.at = at]
    BY <1>4 DEF OtherSessionChecked
  <2>2. handling'.request = handling.request /\ handling'.response = handling.response
    BY <2>1, NiTypeParts DEF HandlingRecords
  <2> QED BY <1>1, <1>4, <2>2 DEF OtherSessionChecked, outsideVars
<1>5. CASE OtherSessionIgnored
  <2>1. handling'.request = handling.request /\ handling'.response = handling.response
    BY <1>5, NiTypeParts DEF OtherSessionIgnored, HandlingRecords
  <2> QED BY <1>1, <1>5, <2>1 DEF OtherSessionIgnored, outsideVars
<1>6. CASE ResponseStored
  BY <1>1, <1>6 DEF ResponseStored, outsideVars
<1>7. CASE ResponseChecked
  <2> DEFINE m == Head(niQueue)
  <2>1. niQueue # <<>> /\ m.kind = "respond" /\ userSaid' = userSaid
    BY <1>7 DEF ResponseChecked, Handles, outsideVars
  <2>2. /\ m.response \in UserResponses /\ m.id # 0
        /\ \E r \in Requests : niId[r] = m.id /\ userSaid[r] = m.response
    BY <2>1, QueueTail, MessageFields, NiTypeParts DEF RespondsFit
  <2>3. CASE handling' = Idle
    BY <1>1, <2>1, <2>3
  <2>4. ASSUME NEW s \in SessionNames, NEW at, Active(s, m.id),
               handling' = [at |-> at, session |-> s, response |-> m.response,
                            request |-> ni[s].rawRequest]
        PROVE  HandlingFit'
    <3>1. /\ ni[s].reqID = m.id /\ ni[s].rawRequest # NoRequest
          /\ ni[s].rawRequest \in Requests
      BY <2>4, WatchedNow DEF Active
    <3>2. niId[ni[s].rawRequest] = m.id
      BY <2>2, <3>1 DEF IdsFit
    <3>3. userSaid[ni[s].rawRequest] = m.response
      BY <2>2, <3>1, <3>2 DEF IdsFit
    <3> HIDE DEF m
    <3>4. handling'.request = ni[s].rawRequest /\ handling'.response = m.response
      BY <2>4
    <3> QED BY <2>1, <2>2, <3>1, <3>3, <3>4 DEF HandlingFit
  <2>5. "session" \in SessionNames /\ "sessionEs" \in SessionNames
    BY DEF SessionNames
  <2>6. \/ handling' = Idle
        \/ \E s \in SessionNames : \E at :
             /\ Active(s, m.id)
             /\ handling' = [at |-> at, session |-> s, response |-> m.response,
                             request |-> ni[s].rawRequest]
    BY <1>7, <2>5 DEF ResponseChecked
  <2> QED BY <2>3, <2>4, <2>6
<1>8. ASSUME NEW r \in Requests, NiRequested(r) \/ NiThreadStep(r)
      PROVE  HandlingFit'
  BY <1>2, <1>8, ThreadStepEffect DEF NiRequested, outsideVars
<1>9. ASSUME NEW r \in Requests, NEW response \in UserResponses, UserResponds(r, response)
      PROVE  HandlingFit'
  <2>1. /\ userSaid[r] = "NONE" /\ userSaid' = [userSaid EXCEPT ![r] = response]
        /\ handling' = handling
    BY <1>9 DEF UserResponds
  <2>2. \A t \in Requests : t # r => userSaid'[t] = userSaid[t]
    BY <2>1, NiTypeParts
  <2> QED BY <2>1, <2>2, NiAssumption DEF HandlingFit
<1> QED
  BY <1>3, <1>4, <1>5, <1>6, <1>7, <1>8, <1>9 DEF NiNext, AdapterStep

(* The last part of the invariant is about what happens before a response  *)
(* is stored too late.                                                     *)
Fits == InformsFit(niQueue, userSaid) /\ NiSessionsFit /\ ThreadsAnswer /\ NiAnswersFit

LEMMA SaidFits ==
  ASSUME NiTypeOK, Fits, NEW r \in Requests, NEW response \in UserResponses,
         UserResponds(r, response)
  PROVE  Fits'
<1>1. /\ userSaid[r] = "NONE" /\ userSaid' = [userSaid EXCEPT ![r] = response]
      /\ UNCHANGED <<ni, niThread, niAnswer>>
      /\ niQueue' = Append(niQueue, [kind |-> "respond", id |-> niId[r],
                                     response |-> response])
  BY DEF UserResponds
<1>2. \A t \in Requests : \A x : Own(userSaid, t, x) => Own(userSaid', t, x)
  BY <1>1, OwnStays
<1>3. NiSessionsFit'
  <2>1. \A s \in SessionNames : ni[s].rawRequest # NoRequest => ni[s].rawRequest \in Requests
    BY NiTypeParts DEF SessionRecords
  <2> QED BY <1>1, <1>2, <2>1 DEF Fits, NiSessionsFit
<1>4. ThreadsAnswer' /\ NiAnswersFit'
  BY <1>1, <1>2 DEF Fits, ThreadsAnswer, NiAnswersFit
<1>5. InformsFit(niQueue', userSaid')
  <2> DEFINE e == [kind |-> "respond", id |-> niId[r], response |-> response]
  <2>1. e \in NiMessages /\ e.kind = "respond" /\ niQueue \in Seq(NiMessages)
    BY NiTypeParts DEF NiMessages
  <2>2. \A i \in 1..Len(niQueue) : niQueue[i].kind = "inform" =>
          niQueue[i].request \in Requests
    BY <2>1, ElementOfSeq, MessageFields
  <2>3. InformsFit(niQueue, userSaid')
    BY <1>2, <2>2 DEF Fits, InformsFit
  <2>4. niQueue' = Append(niQueue, e)
    BY <1>1
  <2> HIDE DEF e
  <2>5. InformsFit(Append(niQueue, e), userSaid')
    BY <2>1, <2>3, FitQueues
  <2> QED BY <2>4, <2>5
<1> QED BY <1>3, <1>4, <1>5 DEF Fits

(* A step that says nothing new and stores nothing.                        *)
LEMMA FitsStay ==
  ASSUME NiTypeOK, Fits, UNCHANGED <<userSaid, niAnswer>>,
         InformsFit(niQueue', userSaid),
         \A s \in SessionNames : ni'[s].respRecvd =>
           /\ ni[s].respRecvd
           /\ ni'[s].rawRequest = ni[s].rawRequest /\ ni'[s].resp = ni[s].resp,
         \A r \in Requests :
           /\ niThread'[r].request = niThread[r].request
           /\ niThread'[r].response = niThread[r].response
  PROVE  Fits'
<1>1. NiSessionsFit'
  BY DEF Fits, NiSessionsFit
<1>2. ThreadsAnswer' /\ NiAnswersFit'
  BY DEF Fits, ThreadsAnswer, NiAnswersFit
<1>3. InformsFit(niQueue', userSaid')
  OBVIOUS
<1> QED BY <1>1, <1>2, <1>3 DEF Fits

LEMMA NotifyFits ==
  ASSUME NiTypeOK, Owners, Fits, RequestNiNotify
  PROVE  Fits'
<1> DEFINE r == Head(niQueue).request
<1>1. /\ UNCHANGED <<userSaid, niAnswer>> /\ niQueue # <<>> /\ niQueue' = Tail(niQueue)
      /\ niKind[r] \in SessionNames
  BY NotifyEffect DEF RequestNiNotify, outsideVars
<1>2. InformsFit(niQueue', userSaid)
  BY <1>1, FitQueues, NiTypeParts DEF Fits
<1>3. CASE UNCHANGED <<ni, niThread, idCounter, niId>>
  BY <1>1, <1>2, <1>3, FitsStay
<1>4. CASE ~UNCHANGED <<ni, niThread, idCounter, niId>>
  <2>1. /\ ni[niKind[r]].rawRequest = NoRequest
        /\ \A s \in SessionNames :
             /\ ni'[s].rawRequest = IF s = niKind[r] THEN r ELSE ni[s].rawRequest
             /\ ni'[s].respRecvd = ni[s].respRecvd /\ ni'[s].resp = ni[s].resp
        /\ \A t \in Requests :
             /\ niThread'[t].request = niThread[t].request
             /\ niThread'[t].response = niThread[t].response
    BY <1>4, NotifyEffect
  <2> HIDE DEF r
  <2>2. ~ni[niKind[r]].respRecvd
    BY <1>1, <2>1 DEF Fits, NiSessionsFit
  <2>3. \A s \in SessionNames : ni'[s].respRecvd =>
          /\ ni[s].respRecvd
          /\ ni'[s].rawRequest = ni[s].rawRequest /\ ni'[s].resp = ni[s].resp
    BY <2>1, <2>2
  <2> QED BY <1>1, <1>2, <2>1, <2>3, FitsStay
<1> QED BY <1>3, <1>4

LEMMA StoreFits ==
  ASSUME NiTypeOK, Fits, NEW s \in SessionNames, NEW response, Store(s, response),
         ni[s].rawRequest # NoRequest,
         response = "IGNORE" \/ Own(userSaid, ni[s].rawRequest, response),
         UNCHANGED <<niThread, niQueue, userSaid, niAnswer>>
  PROVE  Fits'
<1>1. NiSessionsFit'
  <2>1. ASSUME NEW t \in SessionNames, ni'[t].respRecvd
        PROVE  /\ ni'[t].rawRequest # NoRequest
               /\ ni'[t].resp = "IGNORE" \/ Own(userSaid', ni'[t].rawRequest, ni'[t].resp)
    <3>1. /\ ni'[t].rawRequest = ni[t].rawRequest /\ userSaid' = userSaid
          /\ ni'[s].resp = response
          /\ t # s => ni'[t].respRecvd = ni[t].respRecvd /\ ni'[t].resp = ni[t].resp
      BY StoreEffect
    <3>2. CASE t = s
      BY <3>1, <3>2
    <3>3. CASE t # s
      BY <2>1, <3>1, <3>3 DEF Fits, NiSessionsFit
    <3> QED BY <3>2, <3>3
  <2> QED BY <2>1 DEF NiSessionsFit
<1>2. ThreadsAnswer' /\ NiAnswersFit'
  BY DEF Fits, ThreadsAnswer, NiAnswersFit
<1>3. InformsFit(niQueue', userSaid')
  BY DEF Fits
<1> QED BY <1>1, <1>2, <1>3 DEF Fits

LEMMA InformFits ==
  ASSUME NiTypeOK, Fits, InformNiResponse
  PROVE  Fits'
<1> DEFINE m == Head(niQueue)
<1>1. /\ niQueue # <<>> /\ m.kind = "inform" /\ niQueue' = Tail(niQueue)
      /\ niAnswer' = [niAnswer EXCEPT ![m.request] = m.response]
      /\ UNCHANGED <<ni, niThread, userSaid>>
  BY DEF InformNiResponse, Handles
<1>2. m.request \in Requests /\ Own(userSaid, m.request, m.response)
  BY <1>1, QueueTail, MessageFields, NiTypeParts DEF Fits, InformsFit
<1>3. InformsFit(Tail(niQueue), userSaid)
  BY <1>1, FitQueues, NiTypeParts DEF Fits
<1> HIDE DEF m
<1>4. NiAnswersFit'
  BY <1>1, <1>2, NiTypeParts DEF Fits, NiAnswersFit
<1>5. NiSessionsFit' /\ ThreadsAnswer'
  BY <1>1 DEF Fits, NiSessionsFit, ThreadsAnswer
<1> QED BY <1>1, <1>3, <1>4, <1>5 DEF Fits

LEMMA GivesUpFits ==
  ASSUME NiTypeOK, SessionIsWatched, Fits, NEW r \in Requests, NEW response,
         At(r, "starting") \/ At(r, "waiting"), GivesUpSession(r, response),
         response = "IGNORE" \/ Own(userSaid, r, response)
  PROVE  Fits'
<1>1. /\ niKind[r] \in SessionNames /\ ni[niKind[r]].rawRequest = r
      /\ \A s \in SessionNames :
           /\ ni'[s].rawRequest = IF s = niKind[r] THEN NoRequest ELSE ni[s].rawRequest
           /\ ni'[s].reqID = ni[s].reqID
           /\ s # niKind[r] =>
                ni'[s].respRecvd = ni[s].respRecvd /\ ni'[s].resp = ni[s].resp
      /\ ni'[niKind[r]].respRecvd = FALSE
      /\ payload' = [payload EXCEPT ![r] = IF response # "IGNORE" THEN "thread" ELSE "freed"]
      /\ niThread' = [niThread EXCEPT
                        ![r] = [at |-> "clearing", response |-> response,
                                request |-> IF response # "IGNORE" THEN r ELSE NoRequest]]
      /\ UNCHANGED <<requestVars, niQueue, handling, outsideVars, late>>
  BY GivesUpEffect, Zenon
<1>2. UNCHANGED <<niQueue, userSaid, niAnswer>>
  BY <1>1 DEF outsideVars
<1>3. NiSessionsFit'
  BY <1>1, <1>2 DEF Fits, NiSessionsFit
<1>4. ThreadsAnswer'
  <2>1. /\ \A t \in Requests : t # r => niThread'[t] = niThread[t]
        /\ niThread'[r].response = response
        /\ niThread'[r].request = IF response # "IGNORE" THEN r ELSE NoRequest
    BY <1>1, NiTypeParts
  <2>2. r # NoRequest
    BY DEF Requests, NoRequest
  <2> QED BY <1>2, <2>1, <2>2 DEF Fits, ThreadsAnswer
<1>5. NiAnswersFit' /\ InformsFit(niQueue', userSaid')
  BY <1>2 DEF Fits, NiAnswersFit
<1> QED BY <1>3, <1>4, <1>5 DEF Fits

LEMMA PostedFits ==
  ASSUME NiTypeOK, ThreadsFit, Fits, NEW r \in Requests, ResponsePosted(r)
  PROVE  Fits'
<1> DEFINE e == [kind |-> "inform", request |-> r, response |-> niThread[r].response]
<1>1. niThread[r].request = r
  BY DEF ResponsePosted, At, ThreadsFit
<1>2. /\ niQueue' = Append(niQueue, e) /\ Goto(r, "done")
      /\ UNCHANGED <<ni, userSaid, niAnswer>>
  BY <1>1 DEF ResponsePosted, outsideVars
<1>3. e \in NiMessages /\ e.request = r /\ e.response = niThread[r].response
  <2>1. niThread[r].response \in StoredResponses
    BY NiTypeParts DEF ThreadRecords
  <2> QED BY <2>1 DEF NiMessages
<1>4. Own(userSaid, r, niThread[r].response)
  BY <1>1 DEF Fits, ThreadsAnswer
<1> HIDE DEF e
<1>5. InformsFit(Append(niQueue, e), userSaid)
  BY <1>3, <1>4, QueueAppend, NiTypeParts DEF Fits, InformsFit
<1>6. \A t \in Requests :
        /\ niThread'[t].request = niThread[t].request
        /\ niThread'[t].response = niThread[t].response
  BY <1>2, GotoEffect
<1> QED BY <1>2, <1>5, <1>6, FitsStay

LEMMA NextFits ==
  ASSUME NiTypeOK, SessionIsWatched, ThreadsFit, Owners, HandlingFit, ~late => Fits,
         [NiNext]_niVars
  PROVE  ~late' => Fits'
<1> SUFFICES ASSUME ~late' PROVE Fits'
  OBVIOUS
<1>1. ~late
  BY DEF NiNext, AdapterStep, RequestNiNotify, ResponseChecked, OtherSessionChecked,
         OtherSessionIgnored, ResponseStored, InformNiResponse, ClientChanges, NiRequested,
         UserResponds, NiThreadStep, ThreadWaits, ResponseSeen, WaitTimesOut,
         GivesUpSession, ReqIdCleared, ResponsePosted, niVars
<1>2. ASSUME UNCHANGED <<ni, niThread, userSaid, niAnswer>>,
             InformsFit(niQueue', userSaid)
      PROVE  Fits'
  BY <1>1, <1>2, FitsStay
<1>3. CASE ResponseChecked
  <2>1. /\ niQueue # <<>> /\ niQueue' = Tail(niQueue)
        /\ UNCHANGED <<ni, niThread, userSaid, niAnswer>>
    BY <1>3 DEF ResponseChecked, Handles, outsideVars
  <2>2. InformsFit(Tail(niQueue), userSaid)
    BY <1>1, <2>1, FitQueues, NiTypeParts DEF Fits
  <2> QED BY <1>2, <2>1, <2>2
<1>4. CASE OtherSessionChecked \/ ClientChanges \/ UNCHANGED niVars
  <2>1. UNCHANGED <<ni, niThread, niQueue, userSaid, niAnswer>>
    BY <1>4 DEF OtherSessionChecked, ClientChanges, niVars, outsideVars
  <2>2. InformsFit(niQueue', userSaid)
    BY <1>1, <2>1 DEF Fits
  <2> QED BY <1>2, <2>1, <2>2
<1>5. CASE OtherSessionIgnored
  <2>1. /\ Store("session", "IGNORE") /\ "session" \in SessionNames
        /\ ni["session"].rawRequest # NoRequest
        /\ UNCHANGED <<niThread, niQueue, userSaid, niAnswer>>
    BY <1>1, <1>5 DEF OtherSessionIgnored, SessionNames, outsideVars
  <2> QED BY <1>1, <2>1, StoreFits
<1>6. CASE ResponseStored
  <2>1. /\ handling.session \in SessionNames /\ Store(handling.session, handling.response)
        /\ ni[handling.session].rawRequest = handling.request
        /\ UNCHANGED <<niThread, niQueue, userSaid, niAnswer>> /\ handling.at = "store"
    BY <1>6, NiTypeParts DEF HandlingRecords, ResponseStored, outsideVars
  <2>2. /\ handling.request \in Requests /\ handling.response \in UserResponses
        /\ userSaid[handling.request] = handling.response
    BY <2>1 DEF HandlingFit
  <2>3. handling.request # NoRequest
    BY <2>2 DEF Requests, NoRequest
  <2>4. Own(userSaid, ni[handling.session].rawRequest, handling.response)
    BY <2>1, <2>2 DEF Own
  <2> QED BY <1>1, <2>1, <2>3, <2>4, StoreFits
<1>7. ASSUME NEW r \in Requests, NiRequested(r)
      PROVE  Fits'
  <2> DEFINE e == [kind |-> "report", request |-> r]
  <2>1. e \in NiMessages /\ e.kind = "report"
    BY DEF NiMessages
  <2>2. niQueue' = Append(niQueue, e) /\ UNCHANGED <<ni, niThread, userSaid, niAnswer>>
    BY <1>7 DEF NiRequested, outsideVars
  <2> HIDE DEF e
  <2>3. InformsFit(Append(niQueue, e), userSaid)
    BY <1>1, <2>1, FitQueues, NiTypeParts DEF Fits
  <2> QED BY <1>2, <2>2, <2>3
<1>8. ASSUME NEW r \in Requests, NEW place, Goto(r, place),
             UNCHANGED <<niQueue, userSaid, niAnswer>>,
             \A s \in SessionNames :
               /\ ni'[s].rawRequest = ni[s].rawRequest
               /\ ni'[s].respRecvd = ni[s].respRecvd /\ ni'[s].resp = ni[s].resp
      PROVE  Fits'
  <2>1. \A t \in Requests :
          /\ niThread'[t].request = niThread[t].request
          /\ niThread'[t].response = niThread[t].response
    BY <1>8, GotoEffect
  <2>2. InformsFit(niQueue', userSaid)
    BY <1>1, <1>8 DEF Fits
  <2> QED BY <1>1, <1>8, <2>1, <2>2, FitsStay
<1>9. ASSUME NEW r \in Requests, NiThreadStep(r)
      PROVE  Fits'
  <2>1. CASE ThreadWaits(r)
    BY <1>8, <2>1 DEF ThreadWaits, outsideVars
  <2>2. CASE ResponseSeen(r)
    <3>1. niKind[r] \in SessionNames /\ ni[niKind[r]].rawRequest = r
      BY <2>2, WatchedNow, NiTypeParts DEF ResponseSeen, At, Watching
    <3>2. ni[niKind[r]].resp = "IGNORE" \/ Own(userSaid, r, ni[niKind[r]].resp)
      BY <1>1, <2>2, <3>1 DEF ResponseSeen, Fits, NiSessionsFit
    <3> QED BY <1>1, <2>2, <3>2, GivesUpFits DEF ResponseSeen
  <2>3. CASE WaitTimesOut(r)
    BY <1>1, <2>3, NoResponseIsOwn, GivesUpFits DEF WaitTimesOut
  <2>4. CASE ReqIdCleared(r)
    BY <1>8, <2>4, ClearEffect DEF ReqIdCleared, outsideVars
  <2>5. CASE ResponsePosted(r)
    BY <1>1, <2>5, PostedFits
  <2> QED BY <1>9, <2>1, <2>2, <2>3, <2>4, <2>5 DEF NiThreadStep
<1> QED
  BY <1>1, <1>3, <1>4, <1>5, <1>6, <1>7, <1>9, NotifyFits, InformFits, SaidFits
  DEF NiNext, AdapterStep

-----------------------------------------------------------------------------
(* Theorems.                                                               *)

(* What every step preserves, part by part.                                *)
NiInv ==
  /\ NiTypeOK /\ SessionIsWatched /\ ThreadsFit /\ Owners
  /\ IdsFit /\ RespondsFit(niQueue, niId, userSaid) /\ HandlingFit
  /\ ~late => Fits

LEMMA NiInitInv == NiInit => NiInv
<1> SUFFICES ASSUME NiInit PROVE NiInv
  OBVIOUS
<1>1. NiTypeOK /\ Owners
  BY NiInitTypes, InitOwners
<1>2. SessionIsWatched /\ ThreadsFit
  BY DEF NiInit, SessionIsWatched, ThreadsFit, NoThread, At
<1>3. IdsFit
  BY DEF NiInit, IdsFit
<1>4. RespondsFit(niQueue, niId, userSaid) /\ InformsFit(niQueue, userSaid)
  BY DEF NiInit, RespondsFit, InformsFit
<1>5. HandlingFit /\ NiSessionsFit /\ NiAnswersFit
  BY DEF NiInit, HandlingFit, Idle, NiSessionsFit, NiAnswersFit
<1>6. ThreadsAnswer
  BY DEF NiInit, ThreadsAnswer, NoThread, Requests, NoRequest
<1> QED BY <1>1, <1>2, <1>3, <1>4, <1>5, <1>6 DEF NiInv, Fits

LEMMA NextInv == NiInv /\ [NiNext]_niVars => NiInv'
<1> SUFFICES ASSUME NiInv, [NiNext]_niVars PROVE NiInv'
  OBVIOUS
<1>1. NiTypeOK'
  BY NiNextTypes DEF NiInv, ThreadsFit
<1>2. SessionIsWatched' /\ ThreadsFit'
  BY NextWatched DEF NiInv
<1>3. Owners'
  BY <1>1, NextOwners DEF NiInv
<1>4. IdsFit'
  BY NextIds DEF NiInv
<1>5. RespondsFit(niQueue', niId', userSaid')
  BY NextResponds DEF NiInv
<1>6. HandlingFit'
  BY NextHandling DEF NiInv
<1>7. ~late' => Fits'
  BY NextFits DEF NiInv
<1> QED BY <1>1, <1>2, <1>3, <1>4, <1>5, <1>6, <1>7 DEF NiInv

LEMMA NiSafe == NiSpec => []NiInv
BY NiInitInv, NextInv, PTL DEF NiSpec

(* Every variable keeps its type; in particular a thread that passes a     *)
(* response on has a request to pass it on for.                            *)
THEOREM NiTypeCorrect == NiSpec => []NiTypeOK
<1>1. NiInv => NiTypeOK
  BY DEF NiInv
<1> QED BY <1>1, NiSafe, PTL

(* A request in a session has a thread that waits and will end it, and no  *)
(* other thread will (requestNiNotify and niThreadProc).                   *)
THEOREM SessionsAreWatched == NiSpec => []SessionIsWatched
<1>1. NiInv => SessionIsWatched
  BY DEF NiInv
<1> QED BY <1>1, NiSafe, PTL

(* The raw data of a request is freed once, and not while the session, the *)
(* thread or a message still refers to it.                                 *)
THEOREM RequestsHaveOneOwner == NiSpec => []OneOwner
<1>1. NiInv => OneOwner
  BY OwnersNow DEF NiInv
<1> QED BY <1>1, NiSafe, PTL

(* Unless a response was stored for a request whose thread had just ended, *)
(* the modem is told what the user has responded to the same request.      *)
THEOREM AnswersAreTheUsers == NiSpec => []AnswersAreOwn
<1>1. NiInv => AnswersAreOwn
  BY DEF NiInv, AnswersAreOwn, Fits, NiAnswersFit, Own
<1> QED BY <1>1, NiSafe, PTL
=============================================================================
