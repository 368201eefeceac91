--------------------------- MODULE ApiClientProofs ---------------------------
(***************************************************************************)
(* Proofs about ApiClient, for any ids, sessions and requests: answers     *)
(* find the requests they are for, and sessions that run are known to the  *)
(* client, until a queue gets out of step with its answers.                *)
(*                                                                         *)
(* An answer carries a session and no request.  That the first request of  *)
(* the queue is the right one follows from the numbers: those of a queue   *)
(* and of an inbox increase, and the commands that will be answered are    *)
(* those of the requests that wait (CommandsWait, RequestsWait).  That the *)
(* commands of tracking sessions go to both adapters does not matter: the  *)
(* one that has not the session says nothing (AnswererOf).                 *)
(***************************************************************************)
EXTENDS ApiClient, SequenceTheorems, TLAPS

USE ClientAssumption

-----------------------------------------------------------------------------
(* The commands of an adapter: those it was sent, those of them that are   *)
(* for its sessions, those of these that it has not handled, or whose      *)
(* answer has not looked for its request; and those sent and that it is    *)
(* busy with, or with their answer.                                        *)
AnswererOf(c) == IF c.kind = "respond" THEN "gnss" ELSE home[c.session]

Posted(a) == Range(inbox[a])
Inbox(a) == {c \in Posted(a) : AnswererOf(c) = a}
Due(a) == Inbox(a) \cup IF answering[a].at = "answer" THEN {answering[a].command} ELSE {}
ClientBusy(a) == answering[a].at \in {"answer", "call"}
Commands(a) == Posted(a) \cup IF ClientBusy(a) THEN {answering[a].command} ELSE {}

Waiting(q) == Range(queue[q].requests)

(* The sessions that an id has, or will have again when the update that    *)
(* read them writes them back.                                             *)
KnownSessions == DictSessions \cup ({updating.session} \ {NoSession})

-----------------------------------------------------------------------------
(* Who sends what, and in which order.                                     *)

(* The numbers of some requests or commands, but for 0, increase.          *)
Increasing(seq) ==
  \A n, m \in 1..Len(seq) :
    n < m /\ seq[n].number > 0 /\ seq[m].number > 0 => seq[n].number < seq[m].number

(* Requests and commands are numbered in the order of the calls.           *)
InOrder ==
  /\ \A q \in Queues :
       /\ Increasing(queue[q].requests)
       /\ \A r \in Waiting(q) : r.number <= lastRequest
  /\ \A a \in Adapters :
       /\ Increasing(inbox[a])
       /\ \A c \in Commands(a) : c.number <= lastRequest
       /\ answering[a].at = "answer" =>
            \A c \in Posted(a) : c.number > 0 => answering[a].command.number < c.number

(* What an adapter is sent: GnssAdapter the responses, and each what is    *)
(* for its sessions, or for tracking sessions; the number is 0 for the     *)
(* stop of a session that was exchanged.                                   *)
CommandFits(a, c) ==
  /\ c.kind = "respond" => a = "gnss"
  /\ c.kind # "respond" => 0 < c.session /\ c.session <= lastSession
  /\ c.kind # "respond" /\ c.mode # "fix" => a = "flp" /\ home[c.session] = "flp"
  /\ c.kind # "respond" /\ c.session = queue["tracking"].session => c.mode = "fix"
  /\ c.kind = "start" => home[c.session] = a
  /\ c.kind \in {"start", "update"} => c.mode # "none"
  /\ c.number = 0 => /\ c.kind = "stop" /\ c.session \notin KnownSessions
                     /\ c.session # queue["tracking"].session

(* What an adapter is busy with is for a session of its own.               *)
CommandsFit ==
  \A a \in Adapters :
    /\ \A c \in Commands(a) : CommandFits(a, c)
    /\ ClientBusy(a) => AnswererOf(answering[a].command) = a

(* The sessions are those that were numbered, and an id has its own.       *)
ClientSessionsFit ==
  /\ queue["tracking"].session <= lastSession
  /\ queue["tracking"].session = NoSession => queue["tracking"].requests = <<>>
  /\ \A i \in Ids : dict[i] # NoEntity =>
       dict[i].session <= lastSession
       /\ (dict[i].mode # "fix" => home[dict[i].session] = "flp")
  /\ \A i, j \in Ids : dict[i].session = dict[j].session /\ dict[i] # NoEntity => i = j
  /\ \A s \in Sessions : s > lastSession => running[s] = "none"
  /\ \A s \in Sessions : running[s] \notin {"none", "fix"} => home[s] = "flp"

(* While an update has the mutex, its session is the id's, or no one's.    *)
UpdateFits ==
  ~MutexFree =>
    /\ updating.session <= lastSession
    /\ updating.mode # "fix" => home[updating.session] = "flp"
    /\ dict[updating.id].session \in {NoSession, updating.session}
    /\ \A i \in Ids : dict[i].session = updating.session => i = updating.id

(* The tracking session is none of those with an id.                       *)
Apart == queue["tracking"].session \notin KnownSessions

(* Only a session's request changes sessions.                              *)
KindsFit ==
  /\ \A r \in Waiting("ni") : r.kind = "respond"
  /\ \A a \in Adapters : answering[a].at = "call" =>
       answering[a].request.kind = "respond" \/ answering[a].command.session \in Sessions

(* A trip that is over does not run, and will not start.                   *)
TripsFit ==
  /\ answering["gnss"].at # "trip"
  /\ answering["flp"].at = "trip" =>
       LET s == answering["flp"].session IN
       /\ s <= lastSession /\ s # queue["tracking"].session /\ running[s] = "none"
       /\ home[s] = "flp"
       /\ \A c \in Posted("flp") : c.kind = "start" => c.session # s

(* The start of a session is the first command for it.                     *)
FirstIn(seq) ==
  \A n \in 1..Len(seq) : \A m \in 1..(n - 1) :
    seq[n].kind = "start" /\ seq[m].kind # "respond" => seq[m].session # seq[n].session

StartsFirst ==
  \A a \in Adapters :
    /\ FirstIn(inbox[a])
    /\ \A c \in Posted(a) : c.kind = "start" =>
         /\ running[c.session] = "none"
         /\ ClientBusy(a) /\ answering[a].command.kind # "respond" =>
              answering[a].command.session # c.session

(* What an answer says is so.                                              *)
ClientAnswersFit ==
  \A a \in Adapters : ClientBusy(a) =>
    LET c == answering[a].command IN
    /\ c.kind = "start" /\ answering[a].error => running[c.session] = "none"
    /\ c.kind = "stop" /\ ~answering[a].error => running[c.session] = "none"

-----------------------------------------------------------------------------
(* Requests and the commands that were sent for them.                      *)

(* The exchange of a session is one request, answered by the start of the  *)
(* new session.                                                            *)
KindFits(r, c) == r.kind = c.kind \/ (r.kind = "update" /\ c.kind = "start")

(* A request waits in the queue of its command's session.                  *)
Belongs(q, c) ==
  \/ q = "session" /\ c.kind # "respond" /\ c.session # queue["tracking"].session
  \/ q = "tracking" /\ c.kind # "respond" /\ c.session = queue["tracking"].session
  \/ q = "ni" /\ c.kind = "respond" /\ c.session = queue["ni"].session

NumbersFit ==
  \A a \in Adapters : \A q \in Queues : \A c \in Due(a) : \A r \in Waiting(q) :
    c.number = r.number => KindFits(r, c) /\ Belongs(q, c) /\ r.from = a

(* The answer that calls has found its request, ...                        *)
CallsFit ==
  \A a \in Adapters : answering[a].at = "call" =>
    LET r == answering[a].request
        c == answering[a].command IN
    r.number = c.number /\ KindFits(r, c)

(* ... for the request of an answer waits in the queue it looks in, ...    *)
Seeks(q, c) == Belongs(q, c) /\ (q = "session" => c.session \in KnownSessions)

CommandsWait ==
  \A a \in Adapters : \A c \in Due(a) : \A q \in Queues :
    c.number > 0 /\ Seeks(q, c) => \E r \in Waiting(q) : r.number = c.number

(* ... and is the first there, as those before it were answered, unless    *)
(* nothing more will be answered for the tracking session.                 *)
TrackingOver ==
  LET s == queue["tracking"].session IN
  /\ s \in Sessions => running[s] = "none"
  /\ \A a \in Adapters : \A c \in Posted(a) : c.kind = "start" => c.session # s
  /\ \A a \in Adapters : answering[a].at = "answer" =>
       answering[a].command.kind = "respond" \/ answering[a].command.session # s

RequestsWait ==
  /\ \A r \in Waiting("session") : \E c \in Due(r.from) : c.number = r.number
  /\ \A r, t \in Waiting("session") : r.from = t.from
  /\ TrackingOver \/
       \A r \in Waiting("tracking") :
         \E c \in Due(home[queue["tracking"].session]) : c.number = r.number
  /\ Len(queue["ni"].requests) <= 1

-----------------------------------------------------------------------------
(* Sessions at the client and at the adapter.                              *)

Starting(s) == \E a \in Adapters : \E c \in Posted(a) : c.kind = "start" /\ c.session = s

(* A stop of the session is on its way to the adapter that has it.         *)
Stopping(s) == \E c \in Inbox(home[s]) : c.kind = "stop" /\ c.session = s

RunningKnown ==
  \A s \in Sessions : running[s] # "none" \/ Starting(s) =>
    \/ s \in DictSessions
    \/ s = queue["tracking"].session /\ mTracking
    \/ Stopping(s) \/ s \in leftRunning

(* A command of an id's session decides its mode.                          *)
Changes(c, s) == c.kind \in {"start", "update"} /\ c.session = s
Changing(s) == \E c \in Inbox(home[s]) : Changes(c, s)

(* The answer in progress removes the session, or refuses its update.      *)
Ending(s) ==
  \/ answering["flp"].at = "trip" /\ answering["flp"].session = s
  \/ \E a \in Adapters :
       /\ ClientBusy(a) /\ answering[a].command.session = s
       /\ \/ answering[a].command.kind = "stop" /\ ~answering[a].error
          \/ answering[a].command.kind \in {"start", "update"} /\ answering[a].error

(* A session has its id's mode, or will have.                              *)
Served(i, s) ==
  /\ running[s] = dict[i].mode \/ Changing(s) \/ s \in updateRefused \/ Ending(s)
  /\ \A c \in Inbox(home[s]) : Changes(c, s) =>
       \/ c.mode = dict[i].mode
       \/ \E d \in Inbox(home[s]) : Changes(d, s) /\ d.number > c.number

IdsServed == \A i \in Ids : \A s \in Sessions : dict[i].session = s => Served(i, s)

-----------------------------------------------------------------------------
(* What holds always, ...                                                  *)
Base ==
  /\ ClientTypeOK /\ InOrder /\ CommandsFit /\ KindsFit /\ ClientSessionsFit /\ UpdateFits
  /\ TripsFit /\ Apart /\ StartsFirst /\ NumbersFit

(* ... until a queue is out of step with its answers, ...                  *)
Matching == CallsFit /\ CommandsWait /\ RequestsWait

(* ... and what follows of the sessions.                                   *)
Following == ClientAnswersFit /\ RunningKnown /\ IdsServed

-----------------------------------------------------------------------------
(* Sequences.                                                              *)

LEMMA RangeOf ==
  ASSUME NEW S, NEW seq \in Seq(S)
  PROVE  /\ Range(seq) \subseteq S
         /\ \A x : x \in Range(seq) <=> \E n \in 1..Len(seq) : x = seq[n]
<1>1. DOMAIN seq = 1..Len(seq) /\ seq \in [1..Len(seq) -> S]
  BY LenProperties
<1> QED BY <1>1 DEF Range

LEMMA AppendElements ==
  ASSUME NEW S, NEW seq \in Seq(S), NEW e \in S
  PROVE  /\ Append(seq, e) \in Seq(S) /\ Len(Append(seq, e)) = Len(seq) + 1
         /\ Len(seq) \in Nat /\ Append(seq, e)[Len(seq) + 1] = e
         /\ \A n \in 1..Len(seq) : Append(seq, e)[n] = seq[n]
         /\ Range(Append(seq, e)) = Range(seq) \cup {e}
<1>1. /\ Append(seq, e) \in Seq(S) /\ Len(Append(seq, e)) = Len(seq) + 1
      /\ Len(seq) \in Nat /\ Append(seq, e)[Len(seq) + 1] = e
      /\ \A n \in 1..Len(seq) : Append(seq, e)[n] = seq[n]
  BY LenProperties
<1> DEFINE new == Append(seq, e)
<1> HIDE DEF new
<1>2. \A x : x \in Range(new) <=> \E n \in 1..Len(new) : x = new[n]
  BY <1>1, RangeOf DEF new
<1>3. \A x : x \in Range(seq) <=> \E n \in 1..Len(seq) : x = seq[n]
  BY RangeOf
<1>4. \A x : x \in Range(new) <=> x \in Range(seq) \/ x = e
  BY <1>1, <1>2, <1>3 DEF new
<1> QED BY <1>1, <1>4 DEF new

LEMMA TailElements ==
  ASSUME NEW S, NEW seq \in Seq(S), seq # <<>>
  PROVE  /\ Head(seq) \in S /\ Tail(seq) \in Seq(S) /\ Len(Tail(seq)) = Len(seq) - 1
         /\ Len(seq) \in Nat /\ Len(seq) > 0 /\ seq[1] = Head(seq)
         /\ \A n \in 1..Len(Tail(seq)) : Tail(seq)[n] = seq[n + 1]
         /\ Range(seq) = Range(Tail(seq)) \cup {Head(seq)}
<1>1. /\ Head(seq) \in S /\ Tail(seq) \in Seq(S) /\ Len(Tail(seq)) = Len(seq) - 1
      /\ Len(seq) \in Nat /\ Len(seq) > 0 /\ seq[1] = Head(seq)
      /\ \A n \in 1..Len(Tail(seq)) : Tail(seq)[n] = seq[n + 1]
  BY HeadTailProperties, EmptySeq, LenProperties
<1> DEFINE new == Tail(seq)
<1> HIDE DEF new
<1>2. \A x : x \in Range(new) <=> \E n \in 1..Len(new) : x = new[n]
  BY <1>1, RangeOf, ZenonT(30) DEF new
<1>3. \A x : x \in Range(seq) <=> \E n \in 1..Len(seq) : x = seq[n]
  BY RangeOf
<1>4. ASSUME NEW x \in Range(seq)
      PROVE  x \in Range(new) \/ x = Head(seq)
  <2>1. PICK n \in 1..Len(seq) : x = seq[n]
    BY <1>3
  <2>2. CASE n = 1
    BY <1>1, <2>1, <2>2
  <2>3. CASE n # 1
    <3>1. n - 1 \in 1..Len(new) /\ new[n - 1] = seq[n]
      BY <1>1, <2>1, <2>3 DEF new
    <3> QED BY <1>2, <2>1, <3>1
  <2> QED BY <2>2, <2>3
<1>5. ASSUME NEW x, x \in Range(new) \/ x = Head(seq)
      PROVE  x \in Range(seq)
  <2>1. CASE x = Head(seq)
    BY <1>1, <1>3, <2>1
  <2>2. CASE x \in Range(new)
    <3>1. PICK n \in 1..Len(new) : x = new[n]
      BY <1>2, <2>2
    <3>2. n + 1 \in 1..Len(seq) /\ x = seq[n + 1]
      BY <1>1, <3>1 DEF new
    <3> QED BY <1>3, <3>2
  <2> QED BY <1>5, <2>1, <2>2
<1> QED BY <1>1, <1>4, <1>5 DEF new

LEMMA IncreasingAppend ==
  ASSUME NEW S, \A x \in S : x.number \in Nat, NEW seq \in Seq(S), NEW e \in S,
         Increasing(seq), e.number = 0 \/ \A x \in Range(seq) : x.number < e.number
  PROVE  Increasing(Append(seq, e))
<1> DEFINE new == Append(seq, e)
<1>1. /\ new \in Seq(S) /\ Len(new) = Len(seq) + 1 /\ Len(seq) \in Nat
      /\ new[Len(seq) + 1] = e /\ \A n \in 1..Len(seq) : new[n] = seq[n]
  BY AppendElements
<1>2. \A n \in 1..Len(seq) : seq[n] \in Range(seq) /\ seq[n] \in S
  BY RangeOf
<1> HIDE DEF new
<1>3. SUFFICES ASSUME NEW n \in 1..Len(new), NEW m \in 1..Len(new), n < m,
                      new[n].number > 0, new[m].number > 0
               PROVE  new[n].number < new[m].number
  BY DEF Increasing, new
<1>4. n \in 1..Len(seq) /\ new[n] = seq[n]
  BY <1>1, <1>3
<1>5. CASE m \in 1..Len(seq)
  <2>1. new[m] = seq[m]
    BY <1>1, <1>5
  <2> QED BY <1>3, <1>4, <1>5, <2>1 DEF Increasing
<1>6. CASE m = Len(seq) + 1
  BY <1>1, <1>2, <1>3, <1>4, <1>6
<1>7. m \in 1..Len(seq) \/ m = Len(seq) + 1
  BY <1>1, <1>3
<1> QED BY <1>5, <1>6, <1>7

LEMMA IncreasingTail ==
  ASSUME NEW S, \A x \in S : x.number \in Nat, NEW seq \in Seq(S), seq # <<>>, Increasing(seq)
  PROVE  /\ Increasing(Tail(seq))
         /\ \A x \in Range(Tail(seq)) :
              Head(seq).number > 0 /\ x.number > 0 => Head(seq).number < x.number
<1> DEFINE new == Tail(seq)
<1>1. /\ new \in Seq(S) /\ Len(new) = Len(seq) - 1 /\ Len(seq) \in Nat /\ Len(seq) > 0
      /\ seq[1] = Head(seq) /\ \A n \in 1..Len(new) : new[n] = seq[n + 1]
  BY TailElements
<1> HIDE DEF new
<1>2. \A x \in Range(new) : \E n \in 1..Len(new) : x = new[n]
  BY <1>1, RangeOf
<1>3. ASSUME NEW n \in 1..Len(new), NEW m \in 1..Len(new), n < m,
             new[n].number > 0, new[m].number > 0
      PROVE  new[n].number < new[m].number
  <2>1. /\ n + 1 \in 1..Len(seq) /\ m + 1 \in 1..Len(seq) /\ n + 1 < m + 1
        /\ new[n] = seq[n + 1] /\ new[m] = seq[m + 1]
    BY <1>1, <1>3
  <2> QED BY <1>3, <2>1 DEF Increasing
<1>4. ASSUME NEW x \in Range(new), Head(seq).number > 0, x.number > 0
      PROVE  Head(seq).number < x.number
  <2>1. PICK n \in 1..Len(new) : x = new[n]
    BY <1>2
  <2>2. 1 \in 1..Len(seq) /\ n + 1 \in 1..Len(seq) /\ 1 < n + 1 /\ x = seq[n + 1]
    BY <1>1, <2>1
  <2> QED BY <1>1, <1>4, <2>2 DEF Increasing
<1> QED BY <1>3, <1>4 DEF Increasing, new

LEMMA FirstAppend ==
  ASSUME NEW S, NEW seq \in Seq(S), NEW e \in S, FirstIn(seq),
         e.kind = "start" => \A x \in Range(seq) : x.kind # "respond" => x.session # e.session
  PROVE  FirstIn(Append(seq, e))
<1> DEFINE new == Append(seq, e)
<1>1. /\ new \in Seq(S) /\ Len(new) = Len(seq) + 1 /\ Len(seq) \in Nat
      /\ new[Len(seq) + 1] = e /\ \A n \in 1..Len(seq) : new[n] = seq[n]
  BY AppendElements
<1>2. \A n \in 1..Len(seq) : seq[n] \in Range(seq)
  BY RangeOf
<1> HIDE DEF new
<1>3. SUFFICES ASSUME NEW n \in 1..Len(new), NEW m \in 1..(n - 1),
                      new[n].kind = "start", new[m].kind # "respond"
               PROVE  new[m].session # new[n].session
  BY DEF FirstIn, new
<1>4. m \in 1..Len(seq) /\ new[m] = seq[m]
  BY <1>1, <1>3
<1>5. CASE n \in 1..Len(seq)
  <2>1. new[n] = seq[n]
    BY <1>1, <1>5
  <2> QED BY <1>3, <1>4, <1>5, <2>1 DEF FirstIn
<1>6. CASE n = Len(seq) + 1
  BY <1>1, <1>2, <1>3, <1>4, <1>6
<1> QED BY <1>1, <1>3, <1>5, <1>6

LEMMA FirstTail ==
  ASSUME NEW S, NEW seq \in Seq(S), seq # <<>>, FirstIn(seq)
  PROVE  /\ FirstIn(Tail(seq))
         /\ \A x \in Range(Tail(seq)) :
              x.kind = "start" /\ Head(seq).kind # "respond" => Head(seq).session # x.session
<1> DEFINE new == Tail(seq)
<1>1. /\ new \in Seq(S) /\ Len(new) = Len(seq) - 1 /\ Len(seq) \in Nat /\ Len(seq) > 0
      /\ seq[1] = Head(seq) /\ \A n \in 1..Len(new) : new[n] = seq[n + 1]
  BY TailElements
<1> HIDE DEF new
<1>2. \A x \in Range(new) : \E n \in 1..Len(new) : x = new[n]
  BY <1>1, RangeOf
<1>3. ASSUME NEW n \in 1..Len(new), NEW m \in 1..(n - 1),
             new[n].kind = "start", new[m].kind # "respond"
      PROVE  new[m].session # new[n].session
  <2>1. /\ n + 1 \in 1..Len(seq) /\ m + 1 \in 1..((n + 1) - 1) /\ m \in 1..Len(new)
        /\ new[n] = seq[n + 1] /\ new[m] = seq[m + 1]
    BY <1>1, <1>3
  <2> QED BY <1>3, <2>1 DEF FirstIn
<1>4. ASSUME NEW x \in Range(new), x.kind = "start", Head(seq).kind # "respond"
      PROVE  Head(seq).session # x.session
  <2>1. PICK n \in 1..Len(new) : x = new[n]
    BY <1>2
  <2>2. n + 1 \in 1..Len(seq) /\ 1 \in 1..((n + 1) - 1) /\ x = seq[n + 1]
    BY <1>1, <2>1
  <2> QED BY <1>1, <1>4, <2>2 DEF FirstIn
<1> QED BY <1>3, <1>4 DEF FirstIn, new

-----------------------------------------------------------------------------
(* Types.                                                                  *)

QueueRecords ==
  [session : Sessions \cup NiIds \cup {NoSession}, requests : Seq(RequestRecords)]
Entities == [session : Sessions, mode : Modes] \cup {NoEntity}
Updates == {NoUpdate} \cup [id : Ids, session : Sessions, mode : Modes]
AnsweringRecords ==
  {NotAnswering}
    \cup [at : {"answer"}, command : CommandRecords, error : BOOLEAN]
    \cup [at : {"call"}, command : CommandRecords, error : BOOLEAN, request : RequestRecords]
    \cup [at : {"trip"}, session : Sessions]

LEMMA ClientTypeParts ==
  ClientTypeOK <=>
    /\ mTracking \in BOOLEAN /\ outOfStep \in BOOLEAN
    /\ queue \in [Queues -> QueueRecords]
    /\ dict \in [Ids -> Entities]
    /\ updating \in Updates
    /\ inbox \in [Adapters -> Seq(CommandRecords)]
    /\ answering \in [Adapters -> AnsweringRecords]
    /\ home \in [Sessions -> Adapters]
    /\ running \in [Sessions -> Modes \cup {"fix", "none"}]
    /\ lastSession \in 0..MaxSessions /\ lastRequest \in 0..MaxRequests
    /\ leftRunning \in SUBSET Sessions /\ updateRefused \in SUBSET Sessions
BY DEF ClientTypeOK, QueueRecords, Entities, Updates, AnsweringRecords

LEMMA TypesNext ==
  ASSUME mTracking' \in BOOLEAN, outOfStep' \in BOOLEAN,
         queue' \in [Queues -> QueueRecords], dict' \in [Ids -> Entities],
         updating' \in Updates, inbox' \in [Adapters -> Seq(CommandRecords)],
         answering' \in [Adapters -> AnsweringRecords],
         home' \in [Sessions -> Adapters],
         running' \in [Sessions -> Modes \cup {"fix", "none"}],
         lastSession' \in 0..MaxSessions, lastRequest' \in 0..MaxRequests,
         leftRunning' \in SUBSET Sessions, updateRefused' \in SUBSET Sessions
  PROVE  ClientTypeOK'
BY DEF ClientTypeOK, QueueRecords, Entities, Updates, AnsweringRecords

LEMMA Constants ==
  /\ Adapters = {"gnss", "flp"} /\ Queues = {"tracking", "session", "ni"}
  /\ Sessions = 1..MaxSessions /\ NiIds \subseteq Nat /\ NoSession = 0
  /\ NoSession \notin Sessions /\ "none" \notin Modes
  /\ MaxSessions \in Nat /\ MaxRequests \in Nat
  /\ \A s \in Sessions \cup NiIds \cup {NoSession} : s \in Nat
  /\ \A s \in Sessions : s > 0
  /\ \A n \in 0..MaxRequests : n \in Nat
  /\ TrackingAdapters \subseteq Adapters
BY DEF Adapters, Queues, Sessions, NoSession

LEMMA CommandFields ==
  ASSUME NEW c \in CommandRecords
  PROVE  /\ c.kind \in {"start", "stop", "update", "respond"}
         /\ c.session \in Sessions \cup NiIds /\ c.session \in Nat
         /\ c.mode \in Modes \cup {"fix", "none"}
         /\ c.number \in 0..MaxRequests /\ c.number \in Nat
<1>1. /\ c.kind \in {"start", "stop", "update", "respond"}
      /\ c.session \in Sessions \cup NiIds
      /\ c.mode \in Modes \cup {"fix", "none"} /\ c.number \in 0..MaxRequests
  BY DEF CommandRecords
<1> QED BY <1>1, Constants

LEMMA RequestFields ==
  ASSUME NEW r \in RequestRecords
  PROVE  /\ r.kind \in {"start", "stop", "update", "respond"}
         /\ r.number \in 1..MaxRequests /\ r.number \in Nat /\ r.number > 0
         /\ r.from \in Adapters
BY Constants DEF RequestRecords

LEMMA AnsweringFields ==
  ASSUME NEW x \in AnsweringRecords
  PROVE  /\ x.at \in {"idle", "answer", "call", "trip"}
         /\ x.at = "idle" <=> x = NotAnswering
         /\ x.at \in {"answer", "call"} => x.command \in CommandRecords /\ x.error \in BOOLEAN
         /\ x.at = "call" => x.request \in RequestRecords
         /\ x.at = "trip" => x.session \in Sessions /\ x = [at |-> "trip", session |-> x.session]
BY DEF AnsweringRecords, NotAnswering

LEMMA EntityFields ==
  ASSUME NEW e \in Entities
  PROVE  /\ e.session \in Sessions \cup {NoSession} /\ e.session \in Nat
         /\ e = NoEntity <=> e.session = NoSession
         /\ e # NoEntity => e.session \in Sessions /\ e.mode \in Modes
BY Constants DEF Entities, NoEntity

LEMMA UpdateFields ==
  ASSUME NEW u \in Updates
  PROVE  /\ u.session \in Sessions \cup {NoSession} /\ u.session \in Nat
         /\ u = NoUpdate <=> u.session = NoSession
         /\ u # NoUpdate => u.id \in Ids /\ u.session \in Sessions /\ u.mode \in Modes
BY Constants DEF Updates, NoUpdate

(* What is in the queues, inboxes and callbacks.                           *)
Typed ==
  /\ \A a \in Adapters :
       /\ inbox[a] \in Seq(CommandRecords) /\ answering[a] \in AnsweringRecords
       /\ Commands(a) \subseteq CommandRecords
       /\ Inbox(a) \subseteq Due(a) /\ Due(a) \subseteq Commands(a)
       /\ Inbox(a) \subseteq Posted(a) /\ Posted(a) \subseteq Commands(a)
       /\ ClientBusy(a) => answering[a].command \in Commands(a)
       /\ answering[a].at = "answer" => answering[a].command \in Due(a) /\ ClientBusy(a)
  /\ \A q \in Queues :
       /\ queue[q] \in QueueRecords /\ queue[q].requests \in Seq(RequestRecords)
       /\ Waiting(q) \subseteq RequestRecords /\ queue[q].session \in Nat
       /\ queue[q].session \in Sessions \cup NiIds \cup {NoSession}
  /\ lastSession \in 0..MaxSessions /\ lastRequest \in 0..MaxRequests
  /\ lastSession \in Nat /\ lastRequest \in Nat
  /\ \A i \in Ids : dict[i] \in Entities
  /\ updating \in Updates
  /\ \A s \in DictSessions : s \in Sessions /\ \E i \in Ids : dict[i].session = s
  /\ \A i \in Ids : dict[i] # NoEntity => dict[i].session \in DictSessions
  /\ \A s \in KnownSessions : s \in Sessions
  /\ \A s \in Sessions : home[s] \in Adapters

LEMMA TypesHold == ClientTypeOK => Typed
<1> SUFFICES ASSUME ClientTypeOK PROVE Typed
  OBVIOUS
<1>1. ASSUME NEW a \in Adapters
      PROVE  /\ inbox[a] \in Seq(CommandRecords) /\ answering[a] \in AnsweringRecords
             /\ Commands(a) \subseteq CommandRecords
             /\ Inbox(a) \subseteq Due(a) /\ Due(a) \subseteq Commands(a)
             /\ Inbox(a) \subseteq Posted(a) /\ Posted(a) \subseteq Commands(a)
             /\ ClientBusy(a) => answering[a].command \in Commands(a)
             /\ answering[a].at = "answer" => answering[a].command \in Due(a) /\ ClientBusy(a)
  <2>1. inbox[a] \in Seq(CommandRecords) /\ answering[a] \in AnsweringRecords
    BY ClientTypeParts
  <2>2. Posted(a) \subseteq CommandRecords
    BY <2>1, RangeOf DEF Posted
  <2>3. ClientBusy(a) => answering[a].command \in CommandRecords
    BY <2>1, AnsweringFields DEF ClientBusy
  <2> QED BY <2>1, <2>2, <2>3 DEF Commands, Inbox, Due, ClientBusy
<1>2. ASSUME NEW q \in Queues
      PROVE  /\ queue[q] \in QueueRecords /\ queue[q].requests \in Seq(RequestRecords)
             /\ Waiting(q) \subseteq RequestRecords /\ queue[q].session \in Nat
             /\ queue[q].session \in Sessions \cup NiIds \cup {NoSession}
  <2>1. queue[q] \in QueueRecords
    BY ClientTypeParts
  <2>2. /\ queue[q].requests \in Seq(RequestRecords)
        /\ queue[q].session \in Sessions \cup NiIds \cup {NoSession}
    BY <2>1 DEF QueueRecords
  <2>3. queue[q].session \in Nat
    BY <2>2, Constants
  <2>4. Waiting(q) \subseteq RequestRecords
    BY <2>2, RangeOf DEF Waiting
  <2> QED BY <2>1, <2>2, <2>3, <2>4
<1>3. /\ lastSession \in 0..MaxSessions /\ lastRequest \in 0..MaxRequests
      /\ lastSession \in Nat /\ lastRequest \in Nat /\ \A i \in Ids : dict[i] \in Entities
      /\ updating \in Updates /\ \A s \in Sessions : home[s] \in Adapters
  BY ClientTypeParts, Constants
<1>4. /\ \A s \in DictSessions : s \in Sessions /\ \E i \in Ids : dict[i].session = s
      /\ \A i \in Ids : dict[i] # NoEntity => dict[i].session \in DictSessions
  BY <1>3, EntityFields DEF DictSessions
<1>5. \A s \in KnownSessions : s \in Sessions
  BY <1>3, <1>4, UpdateFields DEF KnownSessions
<1> QED BY <1>1, <1>2, <1>3, <1>4, <1>5 DEF Typed

LEMMA TypesHoldNext == ClientTypeOK' => Typed'
BY TypesHold, PTL

(* What follows of the types and the commands.                             *)
LEMMA SessionsOfCommands ==
  ASSUME Base, NEW b \in Adapters, NEW d \in Commands(b)
  PROVE  /\ d \in CommandRecords /\ CommandFits(b, d) /\ AnswererOf(d) \in Adapters
         /\ d.kind # "respond" => d.session \in Sessions /\ d.session <= lastSession
         /\ d.kind = "respond" => AnswererOf(d) = b
<1>1. d \in CommandRecords /\ CommandFits(b, d) /\ lastSession \in 0..MaxSessions
      /\ \A s \in Sessions : home[s] \in Adapters
  BY TypesHold DEF Base, Typed, CommandsFit
<1>2. d.kind # "respond" => d.session \in Sessions /\ d.session <= lastSession
  BY <1>1, CommandFields, Constants DEF CommandFits
<1> QED BY <1>1, <1>2, Constants DEF AnswererOf, CommandFits

LEMMA DueAreOwn ==
  ASSUME Base, NEW b \in Adapters, NEW d \in Due(b)
  PROVE  AnswererOf(d) = b /\ d \in Commands(b)
BY TypesHold DEF Base, Typed, CommandsFit, Due, Inbox, ClientBusy

LEMMA KnownAreNumbered ==
  ASSUME Base, NEW s \in KnownSessions
  PROVE  s \in Sessions /\ s > 0 /\ s <= lastSession /\ s # queue["tracking"].session
<1>1. Typed /\ ClientSessionsFit /\ UpdateFits /\ Apart
  BY TypesHold DEF Base
<1>2. s \in Sessions /\ s > 0 /\ s # queue["tracking"].session
  BY <1>1, Constants DEF Typed, Apart
<1>3. CASE s \in DictSessions
  BY <1>1, <1>2, <1>3, Constants, SMTT(30) DEF Typed, ClientSessionsFit, NoEntity
<1>4. CASE s = updating.session
  BY <1>1, <1>2, <1>4, Constants DEF UpdateFits, MutexFree
<1> QED BY <1>2, <1>3, <1>4 DEF KnownSessions

-----------------------------------------------------------------------------
(* What the calls do.                                                      *)

(* The command c is sent to the adapter a that answers it, and to the      *)
(* other one, perhaps behind the stop of the session that it is exchanged  *)
(* for, ...                                                                *)
ExchangedStop(b, c, x) ==
  /\ c.kind = "start"
  /\ x \in CommandRecords /\ x.kind = "stop" /\ x.number = 0
  /\ x.session \in KnownSessions /\ x.session \notin KnownSessions'
  /\ x.mode # "fix" => b = "flp" /\ home[x.session] = "flp"

Gets(b, a, c) == b = a \/ (c.kind \in {"stop", "update"} /\ c.mode = "fix")

PostsTo(a, c) ==
  \A b \in Adapters : \E mid \in Seq(CommandRecords) :
    /\ mid = inbox[b] \/ \E x : ExchangedStop(b, c, x) /\ mid = Append(inbox[b], x)
    /\ \/ Gets(b, a, c) /\ inbox'[b] = Append(mid, c)
       \/ b # a /\ inbox'[b] = mid

(* ... and the request r waits in the queue q, behind the others, ...      *)
Pushed(q, r) ==
  /\ queue'[q].session = queue[q].session
  /\ queue'[q].requests = Append(queue[q].requests, r)

(* ... or alone, with a new session.                                       *)
Replaced(q, r, session) ==
  queue'[q].session = session /\ queue'[q].requests = <<r>>

(* The three queues and their callers.                                     *)
TrackingCall(c, r) ==
  /\ c.kind \in {"start", "stop", "update"} /\ c.mode = "fix" /\ dict' = dict
  /\ queue'["tracking"].session = c.session /\ c.session > 0
  /\ \/ /\ c.kind = "start" /\ Replaced("tracking", r, c.session)
        /\ ~mTracking /\ mTracking'
     \/ /\ c.kind # "start" /\ Pushed("tracking", r)
        /\ mTracking' = (mTracking /\ c.kind # "stop")

SessionCall(a, c, r) ==
  /\ c.kind \in {"start", "stop", "update"} /\ Pushed("session", r) /\ mTracking' = mTracking
  /\ ~outOfStep' => \A t \in Waiting("session") : t.from = a
  /\ \E i \in Ids :
       /\ \A j \in Ids : j # i => dict'[j] = dict[j]
       /\ dict'[i].session = c.session /\ c.session > 0
       /\ c.kind # "start" =>
            /\ c.session \in KnownSessions /\ dict[i].session \in {NoSession, c.session}
            /\ \A j \in Ids : dict[j].session = c.session => j = i
       /\ IF c.kind = "stop" THEN dict'[i] = dict[i] ELSE dict'[i].mode = c.mode
       /\ c.kind = "start" /\ dict[i] # NoEntity =>
            \E x \in Range(inbox'[home[dict[i].session]]) :
              x.kind = "stop" /\ x.session = dict[i].session

NiCall(c, r) ==
  /\ c.kind = "respond" /\ dict' = dict /\ mTracking' = mTracking
  /\ Replaced("ni", r, c.session)
  /\ ~outOfStep' => \A d \in Due("gnss") : d.kind = "respond" => d.session # c.session

Called(a, q, c, r) ==
  /\ c.number = lastRequest + 1 /\ r.number = lastRequest + 1 /\ r.from = a
  /\ lastRequest' = lastRequest + 1 /\ KindFits(r, c)
  /\ IF c.kind = "start"
     THEN /\ c.session = lastSession + 1 /\ lastSession' = lastSession + 1
          /\ \A s \in Sessions : s # c.session => home'[s] = home[s]
     ELSE UNCHANGED <<lastSession, home>>
  /\ IF c.kind = "respond" THEN a = "gnss" ELSE a = home'[c.session]
  /\ c.kind \in {"start", "update"} => c.mode # "none"
  /\ c.kind # "respond" /\ c.mode # "fix" => a = "flp"
  /\ PostsTo(a, c)
  /\ \A p \in Queues : p # q => queue'[p] = queue[p]
  /\ \/ q = "tracking" /\ TrackingCall(c, r)
     \/ q = "session" /\ SessionCall(a, c, r)
     \/ q = "ni" /\ NiCall(c, r)
  /\ updating' = NoUpdate /\ (outOfStep => outOfStep')
  /\ UNCHANGED adapterVars

SomeCall ==
  \E a \in Adapters, q \in Queues, c \in CommandRecords, r \in RequestRecords :
    Called(a, q, c, r)

LEMMA SentResult ==
  ASSUME NEW inboxes \in [Adapters -> Seq(CommandRecords)], NEW to \in SUBSET Adapters,
         NEW c \in CommandRecords
  PROVE  /\ Sent(inboxes, to, c) \in [Adapters -> Seq(CommandRecords)]
         /\ \A b \in Adapters :
              Sent(inboxes, to, c)[b] = IF b \in to THEN Append(inboxes[b], c) ELSE inboxes[b]
<1>1. \A b \in Adapters : /\ inboxes[b] \in Seq(CommandRecords)
                          /\ Append(inboxes[b], c) \in Seq(CommandRecords)
  BY AppendElements
<1> QED BY <1>1 DEF Sent

LEMMA SentToOne ==
  ASSUME NEW inboxes \in [Adapters -> Seq(CommandRecords)], NEW a \in Adapters,
         NEW c \in CommandRecords
  PROVE  /\ Sent(inboxes, {a}, c) \in [Adapters -> Seq(CommandRecords)]
         /\ \A b \in Adapters :
              Sent(inboxes, {a}, c)[b] = IF b = a THEN Append(inboxes[b], c) ELSE inboxes[b]
<1>1. \A b \in Adapters : /\ inboxes[b] \in Seq(CommandRecords)
                          /\ Append(inboxes[b], c) \in Seq(CommandRecords)
  BY AppendElements
<1> QED BY <1>1 DEF Sent

LEMMA PostsOne ==
  ASSUME ClientTypeOK, NEW a \in Adapters, NEW c \in CommandRecords,
         NEW to \in SUBSET Adapters, a \in to, \A b \in to : Gets(b, a, c),
         inbox' = Sent(inbox, to, c)
  PROVE  inbox' \in [Adapters -> Seq(CommandRecords)] /\ PostsTo(a, c)
<1>1. inbox \in [Adapters -> Seq(CommandRecords)]
  BY ClientTypeParts
<1>2. /\ inbox' \in [Adapters -> Seq(CommandRecords)]
      /\ \A b \in Adapters : inbox'[b] = IF b \in to THEN Append(inbox[b], c) ELSE inbox[b]
  <2> DEFINE new == Sent(inbox, to, c)
  <2>1. /\ new \in [Adapters -> Seq(CommandRecords)]
        /\ \A b \in Adapters : new[b] = IF b \in to THEN Append(inbox[b], c) ELSE inbox[b]
    BY <1>1, SentResult
  <2>2. inbox' = new
    OBVIOUS
  <2> HIDE DEF new
  <2> QED BY <2>1, <2>2
<1>3. ASSUME NEW b \in Adapters
      PROVE  \E mid \in Seq(CommandRecords) :
               /\ mid = inbox[b] \/ \E x : ExchangedStop(b, c, x) /\ mid = Append(inbox[b], x)
               /\ \/ Gets(b, a, c) /\ inbox'[b] = Append(mid, c)
                  \/ b # a /\ inbox'[b] = mid
  <2>1. inbox[b] \in Seq(CommandRecords)
    BY <1>1
  <2>2. \/ Gets(b, a, c) /\ inbox'[b] = Append(inbox[b], c)
        \/ b # a /\ inbox'[b] = inbox[b]
    BY <1>2
  <2> WITNESS inbox[b] \in Seq(CommandRecords)
  <2> QED BY <2>2
<1> QED BY <1>2, <1>3 DEF PostsTo

LEMMA PostsTwo ==
  ASSUME ClientTypeOK, NEW a \in Adapters, NEW c \in CommandRecords, NEW x \in CommandRecords,
         NEW to \in SUBSET Adapters, \A b \in to : ExchangedStop(b, c, x),
         inbox' = Sent(Sent(inbox, to, x), {a}, c)
  PROVE  /\ inbox' \in [Adapters -> Seq(CommandRecords)] /\ PostsTo(a, c)
         /\ \A b \in to : x \in Range(inbox'[b])
<1> DEFINE mids == Sent(inbox, to, x)
<1>1. inbox \in [Adapters -> Seq(CommandRecords)]
  BY ClientTypeParts
<1>2. /\ mids \in [Adapters -> Seq(CommandRecords)]
      /\ \A b \in Adapters : mids[b] = IF b \in to THEN Append(inbox[b], x) ELSE inbox[b]
  BY <1>1, SentResult
<1> HIDE DEF mids
<1>3. /\ inbox' \in [Adapters -> Seq(CommandRecords)]
      /\ \A b \in Adapters : inbox'[b] = IF b = a THEN Append(mids[b], c) ELSE mids[b]
  <2> DEFINE new == Sent(mids, {a}, c)
  <2>1. inbox' = new
    BY DEF mids
  <2>2. /\ new \in [Adapters -> Seq(CommandRecords)]
        /\ \A b \in Adapters : new[b] = IF b = a THEN Append(mids[b], c) ELSE mids[b]
    BY <1>2, SentToOne, ZenonT(30)
  <2> HIDE DEF new
  <2> QED BY <2>1, <2>2
<1>4. ASSUME NEW b \in Adapters
      PROVE  \E mid \in Seq(CommandRecords) :
               /\ mid = inbox[b] \/ \E y : ExchangedStop(b, c, y) /\ mid = Append(inbox[b], y)
               /\ \/ Gets(b, a, c) /\ inbox'[b] = Append(mid, c)
                  \/ b # a /\ inbox'[b] = mid
  <2>1. mids[b] \in Seq(CommandRecords)
    BY <1>2
  <2>2. \/ mids[b] = inbox[b]
        \/ \E y : ExchangedStop(b, c, y) /\ mids[b] = Append(inbox[b], y)
    BY <1>2
  <2>3. \/ Gets(b, a, c) /\ inbox'[b] = Append(mids[b], c)
        \/ b # a /\ inbox'[b] = mids[b]
    BY <1>3 DEF Gets
  <2> WITNESS mids[b] \in Seq(CommandRecords)
  <2> QED BY <2>2, <2>3
<1>5. ASSUME NEW b \in to
      PROVE  x \in Range(inbox'[b])
  <2>1. inbox[b] \in Seq(CommandRecords) /\ mids[b] = Append(inbox[b], x) /\ b \in Adapters
    BY <1>1, <1>2
  <2>2. mids[b] \in Seq(CommandRecords) /\ x \in Range(mids[b])
    BY <2>1, AppendElements
  <2>3. Range(Append(mids[b], c)) = Range(mids[b]) \cup {c}
    BY <2>2, AppendElements
  <2> QED BY <1>3, <2>1, <2>2, <2>3
<1> QED BY <1>3, <1>4, <1>5 DEF PostsTo

Pushes(q, kind, a) == queue' = [queue EXCEPT ![q] = Push(q, kind, a)]

LEMMA PushResult ==
  ASSUME ClientTypeOK, NEW q \in Queues, NEW kind \in {"start", "stop", "update", "respond"},
         NEW a \in Adapters, NewRequest, Pushes(q, kind, a)
  PROVE  LET r == Request(kind, a) IN
         /\ r \in RequestRecords /\ queue' \in [Queues -> QueueRecords]
         /\ r.kind = kind /\ r.number = lastRequest + 1 /\ r.from = a
         /\ Pushed(q, r) /\ \A p \in Queues : p # q => queue'[p] = queue[p]
<1> DEFINE r == Request(kind, a)
           old == queue[q].requests
<1>1. r \in RequestRecords /\ r.kind = kind /\ r.number = lastRequest + 1 /\ r.from = a
  BY ClientTypeParts, Constants DEF RequestRecords, NewRequest, Request
<1> HIDE DEF r
<1>2. old \in Seq(RequestRecords) /\ queue[q] \in QueueRecords /\ queue \in [Queues -> QueueRecords]
  BY TypesHold, ClientTypeParts DEF Typed
<1>3. Append(old, r) \in Seq(RequestRecords)
  BY <1>1, <1>2, AppendElements
<1>4. Push(q, kind, a) = [queue[q] EXCEPT !.requests = Append(old, r)]
  BY DEF Push, r
<1>5. /\ Push(q, kind, a) \in QueueRecords /\ Push(q, kind, a).session = queue[q].session
      /\ Push(q, kind, a).requests = Append(old, r)
  BY <1>2, <1>3, <1>4 DEF QueueRecords
<1>6. queue' \in [Queues -> QueueRecords] /\ queue'[q] = Push(q, kind, a)
      /\ \A p \in Queues : p # q => queue'[p] = queue[p]
  BY <1>2, <1>5 DEF Pushes
<1>7. Pushed(q, r)
  BY <1>3, <1>5, <1>6 DEF Pushed
<1> QED BY <1>1, <1>6, <1>7 DEF r

Resets(q, kind, session, a) == queue' = [queue EXCEPT ![q] = Reset(kind, session, a)]

LEMMA ResetResult ==
  ASSUME ClientTypeOK, NEW q \in Queues, NEW kind \in {"start", "stop", "update", "respond"},
         NEW session \in Sessions \cup NiIds, NEW a \in Adapters,
         NewRequest, Resets(q, kind, session, a)
  PROVE  LET r == Request(kind, a) IN
         /\ r \in RequestRecords /\ queue' \in [Queues -> QueueRecords]
         /\ r.kind = kind /\ r.number = lastRequest + 1 /\ r.from = a
         /\ Replaced(q, r, session) /\ \A p \in Queues : p # q => queue'[p] = queue[p]
<1> DEFINE r == Request(kind, a)
<1>1. r \in RequestRecords /\ r.kind = kind /\ r.number = lastRequest + 1 /\ r.from = a
  BY ClientTypeParts, Constants DEF RequestRecords, NewRequest, Request
<1>2. Reset(kind, session, a) = [session |-> session, requests |-> <<r>>]
  BY DEF Reset
<1> HIDE DEF r
<1>3. <<r>> \in Seq(RequestRecords)
  BY <1>1
<1>4. queue \in [Queues -> QueueRecords] /\ Reset(kind, session, a) \in QueueRecords
  BY <1>2, <1>3, ClientTypeParts DEF QueueRecords
<1>5. queue' \in [Queues -> QueueRecords] /\ queue'[q] = Reset(kind, session, a)
      /\ \A p \in Queues : p # q => queue'[p] = queue[p]
  BY <1>4 DEF Resets
<1>6. Replaced(q, r, session)
  BY <1>2, <1>3, <1>5 DEF Replaced
<1> QED BY <1>1, <1>5, <1>6 DEF r

(* A command that is sent has the kind, session, mode and number given.    *)
LEMMA CommandMade ==
  ASSUME ClientTypeOK, lastRequest < MaxRequests,
         NEW kind \in {"start", "stop", "update", "respond"},
         NEW session \in Sessions \cup NiIds, NEW mode \in Modes \cup {"fix", "none"},
         NEW number \in {0, lastRequest + 1}
  PROVE  LET c == Command(kind, session, mode, number) IN
         /\ c \in CommandRecords
         /\ c.kind = kind /\ c.session = session /\ c.mode = mode /\ c.number = number
<1>1. number \in 0..MaxRequests
  BY ClientTypeParts, Constants
<1> QED BY <1>1 DEF Command, CommandRecords

(* A session that is started has the next number, and its adapter is noted.*)
LEMMA SessionMade ==
  ASSUME ClientTypeOK, NEW a \in Adapters, NewSession(a)
  PROVE  /\ lastSession + 1 \in Sessions /\ lastSession + 1 > 0
         /\ lastSession' = lastSession + 1 /\ lastSession' \in 0..MaxSessions
         /\ home' \in [Sessions -> Adapters] /\ home'[lastSession + 1] = a
         /\ \A s \in Sessions : s # lastSession + 1 => home'[s] = home[s]
<1>1. lastSession \in 0..MaxSessions /\ home \in [Sessions -> Adapters]
  BY ClientTypeParts
<1>2. lastSession + 1 \in Sessions /\ lastSession + 1 > 0 /\ lastSession + 1 \in 0..MaxSessions
  BY <1>1, Constants DEF NewSession
<1> QED BY <1>1, <1>2 DEF NewSession

(* What a call asks for is out of order only for a reason.                 *)
LEMMA SessionPushed ==
  ASSUME ClientTypeOK, NEW a \in Adapters, NEW kind \in {"start", "stop", "update"},
         NewRequest, PushSession(kind, a)
  PROVE  LET r == Request(kind, a) IN
         /\ r \in RequestRecords /\ queue' \in [Queues -> QueueRecords]
         /\ r.kind = kind /\ r.number = lastRequest + 1 /\ r.from = a
         /\ Pushed("session", r) /\ \A p \in Queues : p # "session" => queue'[p] = queue[p]
         /\ outOfStep' \in BOOLEAN /\ (outOfStep => outOfStep')
         /\ ~outOfStep' => \A t \in Waiting("session") : t.from = a
<1>1. Pushes("session", kind, a)
  BY DEF PushSession, Pushes
<1>2. /\ outOfStep' \in BOOLEAN /\ (outOfStep => outOfStep')
      /\ ~outOfStep' => \A t \in Waiting("session") : t.from = a
  BY ClientTypeParts DEF PushSession, Waiting
<1>3. "session" \in Queues /\ kind \in {"start", "stop", "update", "respond"}
  BY Constants
<1>4. LET r == Request(kind, a) IN
      /\ r \in RequestRecords /\ queue' \in [Queues -> QueueRecords]
      /\ r.kind = kind /\ r.number = lastRequest + 1 /\ r.from = a
      /\ Pushed("session", r) /\ \A p \in Queues : p # "session" => queue'[p] = queue[p]
  BY <1>1, <1>3, PushResult
<1> QED BY <1>2, <1>4

LEMMA MutexFreeUpdate ==
  ASSUME ClientTypeOK, MutexFree
  PROVE  updating = NoUpdate
BY TypesHold, UpdateFields DEF Typed, MutexFree

(* The calls of tracking sessions.                                         *)
LEMMA StartTrackingCalls ==
  ASSUME Base, NEW a \in TrackingAdapters, LocAPIStartTracking(a)
  PROVE  ClientTypeOK' /\ SomeCall
<1>1. /\ ClientTypeOK /\ NewRequest /\ NewSession(a) /\ ~mTracking /\ mTracking' = TRUE
      /\ dict' = dict /\ outOfStep' = outOfStep /\ updating' = updating /\ updating = NoUpdate
      /\ a \in Adapters
  BY MutexFreeUpdate, Constants DEF Base, LocAPIStartTracking
<1>2. /\ lastSession + 1 \in Sessions /\ lastSession + 1 > 0
      /\ lastSession' = lastSession + 1 /\ lastSession' \in 0..MaxSessions
      /\ home' \in [Sessions -> Adapters] /\ home'[lastSession + 1] = a
      /\ \A s \in Sessions : s # lastSession + 1 => home'[s] = home[s]
  BY <1>1, SessionMade
<1> DEFINE c == Command("start", lastSession + 1, "fix", lastRequest + 1)
           r == Request("start", a)
<1>3. /\ c \in CommandRecords /\ c.kind = "start" /\ c.session = lastSession + 1
      /\ c.mode = "fix" /\ c.number = lastRequest + 1
  BY <1>1, <1>2, CommandMade DEF NewRequest
<1>4. Resets("tracking", "start", lastSession + 1, a)
  BY DEF LocAPIStartTracking, Resets
<1>5. /\ r \in RequestRecords /\ queue' \in [Queues -> QueueRecords]
      /\ r.kind = "start" /\ r.number = lastRequest + 1 /\ r.from = a
      /\ Replaced("tracking", r, lastSession + 1)
      /\ \A p \in Queues : p # "tracking" => queue'[p] = queue[p]
  BY <1>1, <1>2, <1>4, ResetResult, Constants
<1>6. inbox' \in [Adapters -> Seq(CommandRecords)] /\ PostsTo(a, c)
  <2> DEFINE to == {a}
  <2>1. to \in SUBSET Adapters /\ a \in to /\ \A b \in to : Gets(b, a, c)
    BY <1>1 DEF Gets
  <2>2. inbox' = Sent(inbox, to, c)
    BY DEF LocAPIStartTracking
  <2> HIDE DEF to, c
  <2> QED BY <1>1, <1>3, <2>1, <2>2, PostsOne
<1> HIDE DEF c, r
<1>7. ClientTypeOK'
  <2>1. lastRequest' \in 0..MaxRequests
    BY <1>1, ClientTypeParts, Constants DEF NewRequest
  <2> QED BY <1>1, <1>2, <1>5, <1>6, <2>1, ClientTypeParts, TypesNext DEF NewRequest, adapterVars
<1>8. TrackingCall(c, r)
  BY <1>1, <1>2, <1>3, <1>5 DEF TrackingCall, Replaced
<1>9. Called(a, "tracking", c, r)
  BY <1>1, <1>2, <1>3, <1>5, <1>6, <1>8 DEF Called, KindFits, NewRequest
<1> QED BY <1>1, <1>3, <1>5, <1>7, <1>9, Constants DEF SomeCall

LEMMA StopOrUpdateTrackingCalls ==
  ASSUME Base, NEW kind \in {"stop", "update"}, LocAPIStopOrUpdateTracking(kind)
  PROVE  ClientTypeOK' /\ SomeCall
<1> DEFINE session == queue["tracking"].session
           a == home[session]
           c == Command(kind, session, "fix", lastRequest + 1)
           r == Request(kind, a)
<1>1. /\ ClientTypeOK /\ NewRequest /\ session # NoSession
      /\ UNCHANGED <<dict, lastSession, home, updating, outOfStep>> /\ updating = NoUpdate
      /\ mTracking' = (mTracking /\ kind # "stop")
  BY MutexFreeUpdate DEF Base, LocAPIStopOrUpdateTracking
<1>2. session \in Sessions /\ session > 0 /\ a \in Adapters
  BY <1>1, TypesHold, ClientTypeParts, Constants DEF Typed, Base, ClientSessionsFit
<1>3. /\ c \in CommandRecords /\ c.kind = kind /\ c.session = session
      /\ c.mode = "fix" /\ c.number = lastRequest + 1
  BY <1>1, <1>2, CommandMade DEF NewRequest
<1>4. Pushes("tracking", kind, a)
  BY DEF LocAPIStopOrUpdateTracking, Pushes
<1>5. inbox' = Sent(inbox, GoesTo("fix"), c) /\ GoesTo("fix") = Adapters
  BY DEF LocAPIStopOrUpdateTracking, GoesTo
<1>6. /\ r \in RequestRecords /\ queue' \in [Queues -> QueueRecords]
      /\ r.kind = kind /\ r.number = lastRequest + 1 /\ r.from = a
      /\ Pushed("tracking", r) /\ \A p \in Queues : p # "tracking" => queue'[p] = queue[p]
  <2> HIDE DEF a
  <2> QED BY <1>1, <1>2, <1>4, PushResult, Constants
<1> HIDE DEF a, c, r
<1>7. inbox' \in [Adapters -> Seq(CommandRecords)] /\ PostsTo(a, c)
  <2>1. Adapters \in SUBSET Adapters /\ \A b \in Adapters : Gets(b, a, c)
    BY <1>3 DEF Gets
  <2> QED BY <1>1, <1>2, <1>3, <1>5, <2>1, PostsOne
<1>8. ClientTypeOK'
  <2>1. lastRequest' \in 0..MaxRequests /\ mTracking' \in BOOLEAN
    BY <1>1, ClientTypeParts, Constants DEF NewRequest
  <2> QED BY <1>1, <1>6, <1>7, <2>1, ClientTypeParts, TypesNext DEF NewRequest, adapterVars
<1>9. TrackingCall(c, r)
  BY <1>1, <1>2, <1>3, <1>6 DEF TrackingCall, Pushed
<1>10. Called(a, "tracking", c, r)
  BY <1>1, <1>3, <1>6, <1>7, <1>9 DEF Called, KindFits, NewRequest, a
<1> QED BY <1>2, <1>3, <1>6, <1>8, <1>10, Constants DEF SomeCall

(* The calls of an id's sessions.                                          *)
LEMMA StartSessionCalls ==
  ASSUME Base, NEW i \in Ids, NEW mode \in Modes, NEW a \in StartsOn(mode),
         LocAPIStartSession(i, mode, a)
  PROVE  ClientTypeOK' /\ SomeCall
<1> DEFINE session == lastSession + 1
           c == Command("start", session, mode, lastRequest + 1)
           r == Request("start", a)
<1>1. /\ ClientTypeOK /\ NewRequest /\ NewSession(a) /\ dict[i] = NoEntity
      /\ PushSession("start", a) /\ mTracking' = mTracking
      /\ updating' = updating /\ updating = NoUpdate
      /\ dict' = [dict EXCEPT ![i] = [session |-> session, mode |-> mode]]
      /\ a \in Adapters /\ (mode # "fix" => a = "flp")
  BY MutexFreeUpdate, Constants DEF Base, LocAPIStartSession, StartsOn
<1>2. /\ session \in Sessions /\ session > 0
      /\ lastSession' = session /\ lastSession' \in 0..MaxSessions
      /\ home' \in [Sessions -> Adapters] /\ home'[session] = a
      /\ \A s \in Sessions : s # session => home'[s] = home[s]
  BY <1>1, SessionMade
<1>3. /\ c \in CommandRecords /\ c.kind = "start" /\ c.session = session
      /\ c.mode = mode /\ c.number = lastRequest + 1 /\ mode # "none"
  BY <1>1, <1>2, CommandMade, Constants DEF NewRequest
<1>4. /\ r \in RequestRecords /\ queue' \in [Queues -> QueueRecords]
      /\ r.kind = "start" /\ r.number = lastRequest + 1 /\ r.from = a
      /\ Pushed("session", r) /\ \A p \in Queues : p # "session" => queue'[p] = queue[p]
      /\ outOfStep' \in BOOLEAN /\ (outOfStep => outOfStep')
      /\ ~outOfStep' => \A t \in Waiting("session") : t.from = a
  BY <1>1, SessionPushed
<1>5. inbox' \in [Adapters -> Seq(CommandRecords)] /\ PostsTo(a, c)
  <2> DEFINE to == {a}
  <2>1. to \in SUBSET Adapters /\ a \in to /\ \A b \in to : Gets(b, a, c)
    BY <1>1 DEF Gets
  <2>2. inbox' = Sent(inbox, to, c)
    BY DEF LocAPIStartSession
  <2> HIDE DEF to, c
  <2> QED BY <1>1, <1>3, <2>1, <2>2, PostsOne
<1>6. /\ dict' \in [Ids -> Entities] /\ dict'[i].session = session /\ dict'[i].mode = mode
      /\ \A j \in Ids : j # i => dict'[j] = dict[j]
  <2>1. dict \in [Ids -> Entities] /\ [session |-> session, mode |-> mode] \in Entities
    BY <1>1, <1>2, ClientTypeParts DEF Entities
  <2> QED BY <1>1, <2>1
<1> HIDE DEF c, r
<1>7. ClientTypeOK'
  <2>1. lastRequest' \in 0..MaxRequests
    BY <1>1, ClientTypeParts, Constants DEF NewRequest
  <2> QED BY <1>1, <1>2, <1>4, <1>5, <1>6, <2>1, ClientTypeParts, TypesNext
             DEF NewRequest, adapterVars
<1>8. SessionCall(a, c, r)
  BY <1>1, <1>2, <1>3, <1>4, <1>6 DEF SessionCall
<1>9. Called(a, "session", c, r)
  BY <1>1, <1>2, <1>3, <1>4, <1>5, <1>8, Constants DEF Called, KindFits, NewRequest
<1> QED BY <1>1, <1>3, <1>4, <1>7, <1>9, Constants DEF SomeCall

LEMMA StopSessionCalls ==
  ASSUME Base, NEW i \in Ids, LocAPIStopSession(i)
  PROVE  ClientTypeOK' /\ SomeCall
<1> DEFINE session == dict[i].session
           mode == dict[i].mode
           a == home[session]
           c == Command("stop", session, mode, lastRequest + 1)
           r == Request("stop", a)
<1>1. /\ ClientTypeOK /\ NewRequest /\ dict[i] # NoEntity /\ PushSession("stop", a)
      /\ UNCHANGED <<dict, mTracking, lastSession, home, updating>> /\ updating = NoUpdate
      /\ inbox' = Sent(inbox, GoesTo(mode), c)
  BY MutexFreeUpdate DEF Base, LocAPIStopSession
<1>2. /\ session \in Sessions /\ session > 0 /\ mode \in Modes
      /\ session \in KnownSessions /\ a \in Adapters
  BY <1>1, TypesHold, EntityFields, Constants DEF Typed, KnownSessions
<1>3. /\ c \in CommandRecords /\ c.kind = "stop" /\ c.session = session
      /\ c.mode = mode /\ c.number = lastRequest + 1
  <2> HIDE DEF session, mode
  <2> QED BY <1>1, <1>2, CommandMade DEF NewRequest
<1>4. /\ mode # "fix" => a = "flp"
      /\ \A j \in Ids : dict[j].session = session => j = i
  BY <1>1, <1>2 DEF Base, ClientSessionsFit
<1> HIDE DEF a
<1>5. /\ r \in RequestRecords /\ queue' \in [Queues -> QueueRecords]
      /\ r.kind = "stop" /\ r.number = lastRequest + 1 /\ r.from = a
      /\ Pushed("session", r) /\ \A p \in Queues : p # "session" => queue'[p] = queue[p]
      /\ outOfStep' \in BOOLEAN /\ (outOfStep => outOfStep')
      /\ ~outOfStep' => \A t \in Waiting("session") : t.from = a
  BY <1>1, <1>2, SessionPushed
<1> HIDE DEF c, r
<1>6. inbox' \in [Adapters -> Seq(CommandRecords)] /\ PostsTo(a, c)
  <2>1. /\ GoesTo(mode) \in SUBSET Adapters /\ a \in GoesTo(mode)
        /\ \A b \in GoesTo(mode) : Gets(b, a, c)
    BY <1>2, <1>3, <1>4, Constants DEF Gets, GoesTo
  <2> QED BY <1>1, <1>2, <1>3, <2>1, PostsOne
<1>7. ClientTypeOK'
  <2>1. lastRequest' \in 0..MaxRequests
    BY <1>1, ClientTypeParts, Constants DEF NewRequest
  <2> QED BY <1>1, <1>5, <1>6, <2>1, ClientTypeParts, TypesNext DEF NewRequest, adapterVars
<1>8. SessionCall(a, c, r)
  BY <1>1, <1>2, <1>3, <1>4, <1>5 DEF SessionCall
<1>9. Called(a, "session", c, r)
  BY <1>1, <1>3, <1>4, <1>5, <1>6, <1>8, Constants DEF Called, KindFits, NewRequest, a
<1> QED BY <1>2, <1>3, <1>5, <1>7, <1>9, Constants DEF SomeCall

(* An update that has the mutex has the entity of its id.                  *)
LEMMA UpdatingFields ==
  ASSUME Base, ~MutexFree
  PROVE  /\ updating.id \in Ids /\ updating.session \in Sessions /\ updating.mode \in Modes
         /\ updating.session > 0 /\ updating.session \in KnownSessions
         /\ updating.session <= lastSession /\ home[updating.session] \in Adapters
         /\ updating.mode # "fix" => home[updating.session] = "flp"
         /\ dict[updating.id].session \in {NoSession, updating.session}
         /\ \A j \in Ids : dict[j].session = updating.session => j = updating.id
<1>1. /\ updating.id \in Ids /\ updating.session \in Sessions /\ updating.mode \in Modes
      /\ updating.session > 0 /\ updating.session \in KnownSessions
      /\ home[updating.session] \in Adapters
  BY TypesHold, UpdateFields, Constants DEF Base, Typed, MutexFree, KnownSessions
<1> QED BY <1>1 DEF Base, UpdateFits

LEMMA SessionUpdatedCalls ==
  ASSUME Base, NEW mode \in Modes, SessionUpdated(mode)
  PROVE  ClientTypeOK' /\ SomeCall
<1> DEFINE i == updating.id
           session == updating.session
           a == home[session]
           c == Command("update", session, mode, lastRequest + 1)
           r == Request("update", a)
<1>1. /\ ClientTypeOK /\ NewRequest /\ ~MutexFree /\ PushSession("update", a)
      /\ (mode = "fix") = (updating.mode = "fix")
      /\ UNCHANGED <<mTracking, lastSession, home>> /\ updating' = NoUpdate
      /\ dict' = [dict EXCEPT ![i] = [session |-> session, mode |-> mode]]
      /\ inbox' = Sent(inbox, GoesTo(mode), c)
  BY DEF Base, SessionUpdated
<1>2. /\ i \in Ids /\ session \in Sessions /\ session > 0 /\ session \in KnownSessions
      /\ a \in Adapters /\ (updating.mode # "fix" => a = "flp")
      /\ dict[i].session \in {NoSession, session}
      /\ \A j \in Ids : dict[j].session = session => j = i
  BY <1>1, UpdatingFields
<1>3. /\ c \in CommandRecords /\ c.kind = "update" /\ c.session = session
      /\ c.mode = mode /\ c.number = lastRequest + 1 /\ mode # "none"
  BY <1>1, <1>2, CommandMade, Constants DEF NewRequest
<1>4. mode # "fix" => a = "flp"
  BY <1>1, <1>2
<1>5. /\ dict' \in [Ids -> Entities] /\ dict'[i].session = session /\ dict'[i].mode = mode
      /\ \A j \in Ids : j # i => dict'[j] = dict[j]
  <2>1. dict \in [Ids -> Entities] /\ [session |-> session, mode |-> mode] \in Entities
    BY <1>1, <1>2, ClientTypeParts DEF Entities
  <2> QED BY <1>1, <1>2, <2>1
<1> HIDE DEF a, i, session
<1>6. /\ r \in RequestRecords /\ queue' \in [Queues -> QueueRecords]
      /\ r.kind = "update" /\ r.number = lastRequest + 1 /\ r.from = a
      /\ Pushed("session", r) /\ \A p \in Queues : p # "session" => queue'[p] = queue[p]
      /\ outOfStep' \in BOOLEAN /\ (outOfStep => outOfStep')
      /\ ~outOfStep' => \A t \in Waiting("session") : t.from = a
  BY <1>1, <1>2, SessionPushed
<1> HIDE DEF c, r
<1>7. inbox' \in [Adapters -> Seq(CommandRecords)] /\ PostsTo(a, c)
  <2>1. /\ GoesTo(mode) \in SUBSET Adapters /\ a \in GoesTo(mode)
        /\ \A b \in GoesTo(mode) : Gets(b, a, c)
    BY <1>2, <1>3, <1>4, Constants DEF Gets, GoesTo
  <2> QED BY <1>1, <1>2, <1>3, <2>1, PostsOne
<1>8. ClientTypeOK'
  <2>1. lastRequest' \in 0..MaxRequests /\ updating' \in Updates
    BY <1>1, ClientTypeParts, Constants DEF NewRequest, Updates
  <2> QED BY <1>1, <1>5, <1>6, <1>7, <2>1, ClientTypeParts, TypesNext DEF NewRequest, adapterVars
<1>9. SessionCall(a, c, r)
  BY <1>1, <1>2, <1>3, <1>5, <1>6 DEF SessionCall
<1>10. Called(a, "session", c, r)
  BY <1>1, <1>3, <1>4, <1>6, <1>7, <1>9, Constants DEF Called, KindFits, NewRequest, a
<1> QED BY <1>2, <1>3, <1>6, <1>8, <1>10, Constants DEF SomeCall

LEMMA SessionExchangedCalls ==
  ASSUME Base, NEW mode \in Modes, NEW a \in StartsOn(mode), SessionExchanged(mode, a)
  PROVE  ClientTypeOK' /\ SomeCall
<1> DEFINE i == updating.id
           old == updating.session
           to == GoesTo(updating.mode)
           session == lastSession + 1
           x == Command("stop", old, updating.mode, 0)
           c == Command("start", session, mode, lastRequest + 1)
           r == Request("update", a)
<1>1. /\ ClientTypeOK /\ NewRequest /\ NewSession(a) /\ ~MutexFree /\ PushSession("update", a)
      /\ mTracking' = mTracking /\ updating' = NoUpdate
      /\ dict' = [dict EXCEPT ![i] = [session |-> session, mode |-> mode]]
      /\ inbox' = Sent(Sent(inbox, to, x), {a}, c)
      /\ a \in Adapters /\ (mode # "fix" => a = "flp")
  BY Constants DEF Base, SessionExchanged, StartsOn
<1>2. /\ i \in Ids /\ old \in Sessions /\ old > 0 /\ old \in KnownSessions
      /\ old <= lastSession /\ home[old] \in Adapters /\ updating.mode \in Modes
      /\ updating.mode # "fix" => home[old] = "flp"
      /\ dict[i].session \in {NoSession, old}
      /\ \A j \in Ids : dict[j].session = old => j = i
  BY <1>1, UpdatingFields
<1>3. /\ session \in Sessions /\ session > 0 /\ session > lastSession
      /\ lastSession' = session /\ lastSession' \in 0..MaxSessions
      /\ home' \in [Sessions -> Adapters] /\ home'[session] = a
      /\ \A s \in Sessions : s # session => home'[s] = home[s]
  BY <1>1, SessionMade, ClientTypeParts
<1>4. /\ c \in CommandRecords /\ c.kind = "start" /\ c.session = session
      /\ c.mode = mode /\ c.number = lastRequest + 1 /\ mode # "none"
  BY <1>1, <1>3, CommandMade, Constants DEF NewRequest
<1>5. /\ x \in CommandRecords /\ x.kind = "stop" /\ x.session = old
      /\ x.mode = updating.mode /\ x.number = 0
  <2> DEFINE was == updating.mode
  <2>1. old \in Sessions \cup NiIds /\ was \in Modes \cup {"fix", "none"}
    BY <1>2
  <2> HIDE DEF old, was
  <2>2. LET y == Command("stop", old, was, 0) IN
        y \in CommandRecords /\ y.kind = "stop" /\ y.session = old
        /\ y.mode = was /\ y.number = 0
    BY <1>1, <2>1, CommandMade DEF NewRequest
  <2> QED BY <2>2 DEF was
<1>6. /\ dict' \in [Ids -> Entities] /\ dict'[i].session = session /\ dict'[i].mode = mode
      /\ \A j \in Ids : j # i => dict'[j] = dict[j]
  <2>1. dict \in [Ids -> Entities] /\ [session |-> session, mode |-> mode] \in Entities
    BY <1>1, <1>3, ClientTypeParts DEF Entities
  <2> QED BY <1>1, <1>2, <2>1
<1>7. old # session
  <2>1. lastSession \in Nat /\ old \in Nat /\ old <= lastSession
    BY <1>1, <1>2, TypesHold, Constants DEF Typed
  <2> HIDE DEF old
  <2> QED BY <2>1
<1>8. to \in SUBSET Adapters /\ home[old] \in to
      /\ \A b \in to : updating.mode # "fix" => b = "flp"
  BY <1>2, Constants DEF GoesTo
<1> HIDE DEF i, old, to, session
<1>9. old \notin KnownSessions'
  <2>1. ASSUME NEW j \in Ids PROVE dict'[j].session # old
    BY <1>2, <1>6, <1>7, <2>1
  <2> QED BY <1>1, <1>2, <2>1, Constants DEF KnownSessions, DictSessions, NoUpdate
<1>10. /\ r \in RequestRecords /\ queue' \in [Queues -> QueueRecords]
       /\ r.kind = "update" /\ r.number = lastRequest + 1 /\ r.from = a
       /\ Pushed("session", r) /\ \A p \in Queues : p # "session" => queue'[p] = queue[p]
       /\ outOfStep' \in BOOLEAN /\ (outOfStep => outOfStep')
       /\ ~outOfStep' => \A t \in Waiting("session") : t.from = a
  BY <1>1, SessionPushed
<1> HIDE DEF c, r, x
<1>11. \A b \in to : ExchangedStop(b, c, x)
  BY <1>2, <1>4, <1>5, <1>8, <1>9 DEF ExchangedStop
<1>12. /\ inbox' \in [Adapters -> Seq(CommandRecords)] /\ PostsTo(a, c)
       /\ \A b \in to : x \in Range(inbox'[b])
  BY <1>1, <1>4, <1>5, <1>8, <1>11, PostsTwo, ZenonT(30)
<1>13. ClientTypeOK'
  <2>1. lastRequest' \in 0..MaxRequests /\ updating' \in Updates
    BY <1>1, ClientTypeParts, Constants DEF NewRequest, Updates
  <2> QED BY <1>1, <1>3, <1>6, <1>10, <1>12, <2>1, ClientTypeParts, TypesNext
             DEF NewRequest, adapterVars
<1>14. SessionCall(a, c, r)
  <2>1. dict[i] # NoEntity => \E y \in Range(inbox'[home[dict[i].session]]) :
                                y.kind = "stop" /\ y.session = dict[i].session
    <3>1. dict[i] # NoEntity => dict[i].session = old
      BY <1>1, <1>2, TypesHold, EntityFields DEF Typed
    <3> QED BY <1>5, <1>8, <1>12, <3>1
  <2> QED BY <1>1, <1>2, <1>3, <1>4, <1>6, <1>10, <2>1 DEF SessionCall
<1>15. Called(a, "session", c, r)
  BY <1>1, <1>3, <1>4, <1>10, <1>12, <1>14, Constants
    DEF Called, KindFits, NewRequest, session
<1> QED BY <1>1, <1>4, <1>10, <1>13, <1>15, Constants DEF SomeCall

(* The responses to network requests.                                      *)
LEMMA NiResponseCalls ==
  ASSUME Base, NEW id \in NiIds, LocAPIGnssNiResponse(id)
  PROVE  ClientTypeOK' /\ SomeCall
<1> DEFINE c == Command("respond", id, "none", lastRequest + 1)
           r == Request("respond", "gnss")
<1>1. /\ ClientTypeOK /\ NewRequest /\ updating = NoUpdate
      /\ UNCHANGED <<dict, mTracking, updating, home, lastSession>>
      /\ outOfStep' = (outOfStep \/ \E d \in Outstanding("gnss") :
                                      d.kind = "respond" /\ d.session = id)
  BY MutexFreeUpdate DEF Base, LocAPIGnssNiResponse
<1>2. /\ c \in CommandRecords /\ c.kind = "respond" /\ c.session = id
      /\ c.number = lastRequest + 1
  BY <1>1, CommandMade DEF NewRequest
<1>3. Resets("ni", "respond", id, "gnss")
  BY DEF LocAPIGnssNiResponse, Resets
<1>4. /\ r \in RequestRecords /\ queue' \in [Queues -> QueueRecords]
      /\ r.kind = "respond" /\ r.number = lastRequest + 1 /\ r.from = "gnss"
      /\ Replaced("ni", r, id) /\ \A p \in Queues : p # "ni" => queue'[p] = queue[p]
  BY <1>1, <1>3, ResetResult, Constants
<1>5. inbox' \in [Adapters -> Seq(CommandRecords)] /\ PostsTo("gnss", c)
  <2> DEFINE to == {"gnss"}
  <2>1. /\ to \in SUBSET Adapters /\ "gnss" \in to /\ "gnss" \in Adapters
        /\ \A b \in to : Gets(b, "gnss", c)
    BY Constants DEF Gets
  <2>2. inbox' = Sent(inbox, to, c)
    BY DEF LocAPIGnssNiResponse
  <2> HIDE DEF to, c
  <2> QED BY <1>1, <1>2, <2>1, <2>2, PostsOne
<1> HIDE DEF c, r
<1>6. ClientTypeOK'
  <2>1. lastRequest' \in 0..MaxRequests /\ outOfStep' \in BOOLEAN
    BY <1>1, ClientTypeParts, Constants DEF NewRequest
  <2> QED BY <1>1, <1>4, <1>5, <2>1, ClientTypeParts, TypesNext DEF NewRequest, adapterVars
<1>7. ~outOfStep' => \A d \in Due("gnss") : d.kind = "respond" => d.session # id
  BY <1>1 DEF Due, Inbox, Posted, Outstanding
<1>8. Called("gnss", "ni", c, r)
  BY <1>1, <1>2, <1>4, <1>5, <1>7 DEF Called, NiCall, KindFits, NewRequest
<1> QED BY <1>2, <1>4, <1>6, <1>8, Constants DEF SomeCall

(* An update takes the mutex.                                              *)
UpdateBegins ==
  /\ \E i \in Ids : dict[i] # NoEntity
                    /\ updating' = [id |-> i, session |-> dict[i].session, mode |-> dict[i].mode]
  /\ updating = NoUpdate
  /\ UNCHANGED <<mTracking, queue, dict, inbox, answering, home, running, lastSession,
                 lastRequest, outOfStep, leftRunning, updateRefused>>

LEMMA UpdateBeginsTyped ==
  ASSUME Base, NEW i \in Ids, LocAPIUpdateSessionOptions(i)
  PROVE  ClientTypeOK' /\ UpdateBegins
<1>1. /\ ClientTypeOK /\ updating = NoUpdate /\ dict[i] # NoEntity
      /\ updating' = [id |-> i, session |-> dict[i].session, mode |-> dict[i].mode]
      /\ UNCHANGED <<mTracking, queue, dict, inbox, answering, home, running, lastSession,
                     lastRequest, outOfStep, leftRunning, updateRefused>>
  BY MutexFreeUpdate DEF Base, LocAPIUpdateSessionOptions, adapterVars
<1>2. updating' \in Updates
  BY <1>1, TypesHold, EntityFields DEF Typed, Updates
<1> QED BY <1>1, <1>2, ClientTypeParts, TypesNext DEF UpdateBegins
-----------------------------------------------------------------------------
(* What the adapters do.                                                   *)

(* The answer to c begins, and the session ran before and runs after as    *)
(* the command and the error say, ...                                      *)
Answered(a, c, error) ==
  /\ AnswererOf(c) = a
  /\ answering'[a].at = "answer" /\ answering'[a].command = c /\ answering'[a].error = error
  /\ \A s \in Sessions :
       running'[s] = IF s = c.session /\ c.kind # "respond" /\ ~error
                     THEN IF c.kind = "stop" THEN "none" ELSE c.mode
                     ELSE running[s]
  /\ c.kind \in {"stop", "update"} /\ running[c.session] = "none" => error /\ c.mode # "fix"
  /\ c.kind = "stop" /\ error /\ c.session \notin DictSessions /\ running[c.session] # "none" =>
       c.session \in leftRunning'
  /\ \A s \in leftRunning : s \in leftRunning'
  /\ outOfStep' = outOfStep

(* ... or the adapter, which does not have the session, says nothing.      *)
Unanswered(a, c) ==
  /\ c.kind \in {"stop", "update"}
  /\ home[c.session] = a =>
       running[c.session] = "none" /\ (WaitsForSession(c) => outOfStep')
  /\ outOfStep => outOfStep'
  /\ UNCHANGED <<answering, running, leftRunning>>

Handled(a, c) ==
  /\ inbox[a] # <<>> /\ c = Head(inbox[a]) /\ inbox'[a] = Tail(inbox[a])
  /\ answering[a].at = "idle"
  /\ \A b \in Adapters : b # a => inbox'[b] = inbox[b] /\ answering'[b] = answering[b]
  /\ Unanswered(a, c) \/ \E error \in BOOLEAN : Answered(a, c, error)
  /\ UNCHANGED <<mTracking, queue, dict, updating, home, lastSession, lastRequest, updateRefused>>

LEMMA HandledEffect ==
  ASSUME Base, NEW a \in Adapters, CommandHandled(a)
  PROVE  ClientTypeOK' /\ \E c \in Posted(a) : Handled(a, c)
<1> DEFINE c == Head(inbox[a])
<1>1. /\ ClientTypeOK /\ inbox[a] # <<>> /\ answering[a] = NotAnswering
      /\ inbox' = [inbox EXCEPT ![a] = Tail(inbox[a])]
      /\ UNCHANGED <<mTracking, queue, dict, updating, home, lastSession, lastRequest,
                     updateRefused>>
  BY DEF Base, CommandHandled
<1>2. /\ inbox \in [Adapters -> Seq(CommandRecords)] /\ inbox[a] \in Seq(CommandRecords)
      /\ answering \in [Adapters -> AnsweringRecords] /\ outOfStep \in BOOLEAN
      /\ running \in [Sessions -> Modes \cup {"fix", "none"}] /\ leftRunning \subseteq Sessions
  BY <1>1, ClientTypeParts
<1>3. /\ c \in CommandRecords /\ Tail(inbox[a]) \in Seq(CommandRecords) /\ c \in Posted(a)
  BY <1>1, <1>2, TailElements DEF Posted
<1>4. /\ inbox' \in [Adapters -> Seq(CommandRecords)] /\ inbox'[a] = Tail(inbox[a])
      /\ \A b \in Adapters : b # a => inbox'[b] = inbox[b]
  BY <1>1, <1>2, <1>3
<1>5. /\ c \in Commands(a) /\ CommandFits(a, c)
      /\ c.kind # "respond" => c.session \in Sessions
  BY <1>3, SessionsOfCommands DEF Commands
<1>6. c.kind \in {"start", "stop", "update", "respond"} /\ c.mode \in Modes \cup {"fix", "none"}
  BY <1>3, CommandFields
<1> DEFINE known == /\ c.kind \in {"stop", "update"} /\ home[c.session] = a
                    /\ running[c.session] # "none"
<1>7. \/ /\ c.kind \in {"start", "respond"} \/ known
         /\ \E error \in BOOLEAN :
             /\ Answers(a, c, error)
             /\ running' = IF error \/ c.kind = "respond" THEN running
                           ELSE [running EXCEPT ![c.session] =
                                   IF c.kind = "stop" THEN "none" ELSE c.mode]
             /\ leftRunning' = IF error /\ c.kind = "stop" /\ c.session \notin DictSessions
                               THEN leftRunning \cup {c.session} ELSE leftRunning
         /\ outOfStep' = outOfStep
      \/ /\ c.kind \in {"stop", "update"} /\ ~known
         /\ outOfStep' = (outOfStep \/ (home[c.session] = a /\ WaitsForSession(c)))
         /\ UNCHANGED <<answering, running, leftRunning>>
      \/ /\ c.kind \in {"stop", "update"} /\ ~known /\ c.mode # "fix"
         /\ Answers(a, c, TRUE)
         /\ UNCHANGED <<running, leftRunning, outOfStep>>
  BY DEF CommandHandled
<1> HIDE DEF c
<1>8. ASSUME NEW error \in BOOLEAN, Answers(a, c, error)
      PROVE  /\ answering' \in [Adapters -> AnsweringRecords]
             /\ answering'[a].at = "answer" /\ answering'[a].command = c
             /\ answering'[a].error = error
             /\ \A b \in Adapters : b # a => answering'[b] = answering[b]
  <2> DEFINE x == [at |-> "answer", command |-> c, error |-> error]
  <2>1. x \in AnsweringRecords /\ x.at = "answer" /\ x.command = c /\ x.error = error
    BY <1>3 DEF AnsweringRecords
  <2>2. answering' = [answering EXCEPT ![a] = x]
    BY <1>8 DEF Answers
  <2> HIDE DEF x
  <2>3. answering' \in [Adapters -> AnsweringRecords] /\ answering'[a] = x
        /\ \A b \in Adapters : b # a => answering'[b] = answering[b]
    BY <1>2, <2>1, <2>2
  <2> QED BY <2>1, <2>3
<1>9. answering[a].at = "idle"
  BY <1>1 DEF NotAnswering
<1>10. CASE /\ c.kind \in {"stop", "update"} /\ ~known
            /\ outOfStep' = (outOfStep \/ (home[c.session] = a /\ WaitsForSession(c)))
            /\ UNCHANGED <<answering, running, leftRunning>>
  <2>1. Unanswered(a, c)
    BY <1>10 DEF Unanswered
  <2>2. ClientTypeOK'
    <3>1. outOfStep' \in BOOLEAN
      BY <1>2, <1>10
    <3> QED BY <1>1, <1>4, <1>10, <3>1, ClientTypeParts, TypesNext
  <2> QED BY <1>1, <1>3, <1>4, <1>9, <1>10, <2>1, <2>2 DEF Handled, c
<1>11. CASE /\ c.kind \in {"stop", "update"} /\ ~known /\ c.mode # "fix"
            /\ Answers(a, c, TRUE)
            /\ UNCHANGED <<running, leftRunning, outOfStep>>
  <2>1. /\ answering' \in [Adapters -> AnsweringRecords]
        /\ \A b \in Adapters : b # a => answering'[b] = answering[b]
    BY <1>8, <1>11
  <2>2. home[c.session] = a /\ running[c.session] = "none"
    BY <1>5, <1>11 DEF CommandFits
  <2>3. Answered(a, c, TRUE)
    BY <1>8, <1>11, <2>2 DEF Answered, AnswererOf
  <2>4. ClientTypeOK'
    BY <1>1, <1>4, <1>11, <2>1, ClientTypeParts, TypesNext
  <2> QED BY <1>1, <1>3, <1>4, <1>9, <2>1, <2>3, <2>4 DEF Handled, c
<1>12. ASSUME NEW error \in BOOLEAN, Answers(a, c, error),
              c.kind \in {"start", "respond"} \/ known,
              running' = IF error \/ c.kind = "respond" THEN running
                         ELSE [running EXCEPT ![c.session] =
                                 IF c.kind = "stop" THEN "none" ELSE c.mode],
              leftRunning' = IF error /\ c.kind = "stop" /\ c.session \notin DictSessions
                             THEN leftRunning \cup {c.session} ELSE leftRunning,
              outOfStep' = outOfStep
       PROVE  ClientTypeOK' /\ \E d \in Posted(a) : Handled(a, d)
  <2>1. /\ running' \in [Sessions -> Modes \cup {"fix", "none"}]
        /\ \A s \in Sessions :
             running'[s] = IF s = c.session /\ c.kind # "respond" /\ ~error
                           THEN IF c.kind = "stop" THEN "none" ELSE c.mode
                           ELSE running[s]
    <3>1. CASE error \/ c.kind = "respond"
      BY <1>2, <1>12, <3>1
    <3>2. CASE ~error /\ c.kind # "respond"
      <4> DEFINE m == IF c.kind = "stop" THEN "none" ELSE c.mode
      <4>1. m \in Modes \cup {"fix", "none"} /\ running' = [running EXCEPT ![c.session] = m]
        BY <1>6, <1>12, <3>2
      <4> HIDE DEF m
      <4>2. /\ running' \in [Sessions -> Modes \cup {"fix", "none"}]
            /\ \A s \in Sessions : running'[s] = IF s = c.session THEN m ELSE running[s]
        BY <1>2, <4>1
      <4> QED BY <3>2, <4>2 DEF m
    <3> QED BY <3>1, <3>2
  <2>2. leftRunning' \in SUBSET Sessions /\ \A s \in leftRunning : s \in leftRunning'
    BY <1>2, <1>5, <1>12
  <2>3. AnswererOf(c) = a
    BY <1>5, <1>12 DEF AnswererOf, CommandFits
  <2>4. Answered(a, c, error)
    BY <1>8, <1>12, <2>1, <2>2, <2>3 DEF Answered
  <2>5. ClientTypeOK'
    BY <1>1, <1>2, <1>4, <1>8, <1>12, <2>1, <2>2, ClientTypeParts, TypesNext
  <2> QED BY <1>1, <1>3, <1>4, <1>8, <1>9, <1>12, <2>4, <2>5 DEF Handled, c
<1> QED BY <1>7, <1>10, <1>11, <1>12

(* The answer finds no request, or the first of a queue.                   *)
FoundNone(a, c) ==
  /\ QueueOf(c.session) = {} /\ answering'[a] = NotAnswering /\ UNCHANGED queue

FoundIn(a, c, q) ==
  /\ q \in QueueOf(c.session) /\ queue[q].requests # <<>>
  /\ queue'[q].session = queue[q].session /\ queue'[q].requests = Tail(queue[q].requests)
  /\ \A p \in Queues : p # q => queue'[p] = queue[p]
  /\ answering'[a].at = "call" /\ answering'[a].command = c
  /\ answering'[a].error = answering[a].error
  /\ answering'[a].request = Head(queue[q].requests)

Found(a, c) ==
  /\ answering[a].at = "answer" /\ c = answering[a].command /\ updating = NoUpdate
  /\ outOfStep' = (outOfStep \/ Skips(c))
  /\ FoundNone(a, c) \/ \E q \in Queues : FoundIn(a, c, q)
  /\ \A b \in Adapters : b # a => answering'[b] = answering[b]
  /\ UNCHANGED <<mTracking, dict, inbox, updating, home, running, lastSession, lastRequest,
                 leftRunning, updateRefused>>

LEMMA FoundEffect ==
  ASSUME Base, NEW a \in Adapters, RequestFound(a)
  PROVE  ClientTypeOK' /\ \E c \in Due(a) : Found(a, c)
<1> DEFINE c == answering[a].command
<1>1. /\ ClientTypeOK /\ answering[a].at = "answer" /\ updating = NoUpdate
      /\ outOfStep' = (outOfStep \/ Skips(c))
      /\ UNCHANGED <<mTracking, dict, inbox, updating, home, running, lastSession, lastRequest,
                     leftRunning, updateRefused>>
  BY MutexFreeUpdate DEF Base, RequestFound
<1>2. /\ c \in Due(a) /\ c \in CommandRecords /\ answering[a].error \in BOOLEAN
      /\ answering \in [Adapters -> AnsweringRecords] /\ queue \in [Queues -> QueueRecords]
      /\ outOfStep' \in BOOLEAN
  <2>1. answering[a] \in AnsweringRecords
    BY <1>1, ClientTypeParts
  <2>2. outOfStep' \in BOOLEAN
    BY <1>1, ClientTypeParts DEF Skips
  <2> QED BY <1>1, <2>1, <2>2, TypesHold, ClientTypeParts, AnsweringFields DEF Typed
<1>3. \/ /\ QueueOf(c.session) = {} /\ answering' = [answering EXCEPT ![a] = NotAnswering]
         /\ UNCHANGED queue
      \/ \E q \in QueueOf(c.session) :
          /\ answering' = [answering EXCEPT ![a] =
                             [at |-> "call", command |-> c, error |-> answering[a].error,
                              request |-> Head(queue[q].requests)]]
          /\ queue' = [queue EXCEPT ![q].requests = Tail(@)]
  BY DEF RequestFound
<1> HIDE DEF c
<1>4. CASE /\ QueueOf(c.session) = {} /\ answering' = [answering EXCEPT ![a] = NotAnswering]
           /\ UNCHANGED queue
  <2>1. /\ answering' \in [Adapters -> AnsweringRecords] /\ answering'[a] = NotAnswering
        /\ \A b \in Adapters : b # a => answering'[b] = answering[b]
    BY <1>2, <1>4 DEF AnsweringRecords
  <2>2. ClientTypeOK'
    BY <1>1, <1>2, <1>4, <2>1, ClientTypeParts, TypesNext
  <2> QED BY <1>1, <1>2, <1>4, <2>1, <2>2 DEF Found, FoundNone, c
<1>5. ASSUME NEW q \in QueueOf(c.session),
             answering' = [answering EXCEPT ![a] =
                             [at |-> "call", command |-> c, error |-> answering[a].error,
                              request |-> Head(queue[q].requests)]],
             queue' = [queue EXCEPT ![q].requests = Tail(@)]
      PROVE  ClientTypeOK' /\ \E d \in Due(a) : Found(a, d)
  <2> DEFINE r == Head(queue[q].requests)
             x == [at |-> "call", command |-> c, error |-> answering[a].error, request |-> r]
             u == [queue[q] EXCEPT !.requests = Tail(queue[q].requests)]
  <2>1. q \in Queues /\ queue[q].requests # <<>>
    BY <1>5, Constants DEF QueueOf
  <2>2. queue[q] \in QueueRecords /\ queue[q].requests \in Seq(RequestRecords)
    BY <1>1, <2>1, TypesHold DEF Typed
  <2>3. r \in RequestRecords /\ Tail(queue[q].requests) \in Seq(RequestRecords)
    BY <2>1, <2>2, TailElements
  <2>4. /\ u \in QueueRecords /\ u.session = queue[q].session
        /\ u.requests = Tail(queue[q].requests)
    BY <2>2, <2>3 DEF QueueRecords
  <2>5. /\ x \in AnsweringRecords /\ x.at = "call" /\ x.command = c
        /\ x.error = answering[a].error /\ x.request = r
    BY <1>2, <2>3 DEF AnsweringRecords
  <2>6. answering' = [answering EXCEPT ![a] = x] /\ queue' = [queue EXCEPT ![q] = u]
    BY <1>5
  <2> HIDE DEF x, u, r
  <2>7. /\ answering' \in [Adapters -> AnsweringRecords] /\ answering'[a] = x
        /\ \A b \in Adapters : b # a => answering'[b] = answering[b]
    BY <1>2, <2>5, <2>6
  <2>8. /\ queue' \in [Queues -> QueueRecords] /\ queue'[q] = u
        /\ \A p \in Queues : p # q => queue'[p] = queue[p]
    BY <1>2, <2>1, <2>4, <2>6
  <2>9. ClientTypeOK'
    BY <1>1, <1>2, <2>7, <2>8, ClientTypeParts, TypesNext
  <2>10. FoundIn(a, c, q)
    BY <1>5, <2>1, <2>4, <2>5, <2>7, <2>8 DEF FoundIn, r
  <2> QED BY <1>1, <1>2, <2>1, <2>7, <2>9, <2>10 DEF Found, c
<1> QED BY <1>3, <1>4, <1>5

(* The request hears of the answer, and the session may go.                *)
Delivered(a, c, r) ==
  /\ answering[a].at = "call" /\ c = answering[a].command /\ r = answering[a].request
  /\ answering'[a] = NotAnswering
  /\ \A b \in Adapters : b # a => answering'[b] = answering[b]
  /\ \A i \in Ids :
       dict'[i] = IF RequestEnds(r, answering[a].error) /\ dict[i].session = c.session
                  THEN NoEntity ELSE dict[i]
  /\ \A s \in updateRefused : s \in updateRefused'
  /\ r.kind = "update" /\ answering[a].error => c.session \in updateRefused'
  /\ UNCHANGED <<mTracking, queue, inbox, updating, home, running, lastSession, lastRequest,
                 outOfStep, leftRunning>>

LEMMA WithoutEntities ==
  ASSUME ClientTypeOK, NEW s
  PROVE  /\ Without(s) \in [Ids -> Entities]
         /\ \A i \in Ids : Without(s)[i] = IF dict[i].session = s THEN NoEntity ELSE dict[i]
BY ClientTypeParts DEF Without, Entities

LEMMA DeliveredEffect ==
  ASSUME Base, NEW a \in Adapters, ResponseDelivered(a)
  PROVE  ClientTypeOK' /\ \E c \in Commands(a), r \in RequestRecords : Delivered(a, c, r)
<1> DEFINE c == answering[a].command
           r == answering[a].request
           error == answering[a].error
<1>1. /\ ClientTypeOK /\ answering[a].at = "call"
      /\ answering' = [answering EXCEPT ![a] = NotAnswering]
      /\ dict' = IF RequestEnds(r, error) THEN Without(c.session) ELSE dict
      /\ updateRefused' = IF r.kind = "update" /\ error
                          THEN updateRefused \cup {c.session} ELSE updateRefused
      /\ UNCHANGED <<mTracking, queue, inbox, updating, home, running, lastSession, lastRequest,
                     outOfStep, leftRunning>>
  BY DEF Base, ResponseDelivered
<1>2. c \in Commands(a) /\ r \in RequestRecords
  <2>1. answering[a] \in AnsweringRecords /\ ClientBusy(a)
    BY <1>1, ClientTypeParts DEF ClientBusy
  <2> QED BY <1>1, <2>1, TypesHold, AnsweringFields DEF Typed
<1>3. r.kind # "respond" => c.session \in Sessions
  BY <1>1 DEF Base, KindsFit
<1> HIDE DEF c, r, error
<1>4. /\ answering' \in [Adapters -> AnsweringRecords] /\ answering'[a] = NotAnswering
      /\ \A b \in Adapters : b # a => answering'[b] = answering[b]
  BY <1>1, ClientTypeParts DEF AnsweringRecords
<1>5. /\ dict' \in [Ids -> Entities]
      /\ \A i \in Ids : dict'[i] = IF RequestEnds(r, error) /\ dict[i].session = c.session
                                 THEN NoEntity ELSE dict[i]
  BY <1>1, WithoutEntities, ClientTypeParts
<1>6. /\ updateRefused' \in SUBSET Sessions /\ \A s \in updateRefused : s \in updateRefused'
      /\ r.kind = "update" /\ error => c.session \in updateRefused'
  BY <1>1, <1>3, ClientTypeParts
<1>7. ClientTypeOK'
  BY <1>1, <1>4, <1>5, <1>6, ClientTypeParts, TypesNext
<1>8. Delivered(a, c, r)
  BY <1>1, <1>4, <1>5, <1>6 DEF Delivered, c, r, error
<1> QED BY <1>2, <1>7, <1>8

(* The trip of a session ends, for an id that still has it, ...            *)
TripOver(s) ==
  /\ running[s] = "trip" /\ answering["flp"].at = "idle"
  /\ \A t \in Sessions : running'[t] = IF t = s THEN "none" ELSE running[t]
  /\ answering'["gnss"] = answering["gnss"]
  /\ \/ /\ answering'["flp"].at = "trip" /\ answering'["flp"].session = s
        /\ s \in DictSessions
     \/ /\ answering'["flp"] = answering["flp"]
        /\ \A i \in Ids : dict[i].session = s => dict[i].mode # "trip"
  /\ UNCHANGED <<mTracking, queue, dict, updating, home, inbox, lastSession, lastRequest,
                 outOfStep, leftRunning, updateRefused>>

LEMMA TripOverEffect ==
  ASSUME Base, NEW s \in Sessions, TripCompleted(s)
  PROVE  ClientTypeOK' /\ TripOver(s)
<1> DEFINE e == [session |-> s, mode |-> "trip"]
           x == [at |-> "trip", session |-> s]
<1>1. /\ ClientTypeOK /\ running[s] = "trip" /\ answering["flp"] = NotAnswering
      /\ running' = [running EXCEPT ![s] = "none"]
      /\ answering' = IF e \in {dict[i] : i \in Ids}
                      THEN [answering EXCEPT !["flp"] = x] ELSE answering
      /\ UNCHANGED <<mTracking, queue, dict, updating, home, inbox, lastSession, lastRequest,
                     outOfStep, leftRunning, updateRefused>>
  BY DEF Base, TripCompleted
<1>2. /\ running' \in [Sessions -> Modes \cup {"fix", "none"}]
      /\ \A t \in Sessions : running'[t] = IF t = s THEN "none" ELSE running[t]
  BY <1>1, ClientTypeParts
<1>3. answering["flp"].at = "idle" /\ answering \in [Adapters -> AnsweringRecords]
  BY <1>1, ClientTypeParts DEF NotAnswering
<1>4. CASE e \in {dict[i] : i \in Ids}
  <2>1. x \in AnsweringRecords /\ x.at = "trip" /\ x.session = s
    BY DEF AnsweringRecords
  <2>2. answering' = [answering EXCEPT !["flp"] = x]
    BY <1>1, <1>4
  <2> HIDE DEF x
  <2>3. /\ answering' \in [Adapters -> AnsweringRecords] /\ answering'["flp"] = x
        /\ answering'["gnss"] = answering["gnss"]
    BY <1>3, <2>1, <2>2, Constants
  <2>4. s \in DictSessions
    <3>1. PICK i \in Ids : dict[i] = e
      BY <1>4
    <3>2. dict[i].session = s
      BY <3>1
    <3> QED BY <3>2, Constants DEF DictSessions
  <2>5. ClientTypeOK'
    BY <1>1, <1>2, <2>3, ClientTypeParts, TypesNext
  <2> QED BY <1>1, <1>2, <1>3, <2>1, <2>3, <2>4, <2>5 DEF TripOver
<1>5. CASE e \notin {dict[i] : i \in Ids}
  <2>1. ASSUME NEW i \in Ids, dict[i].session = s, dict[i].mode = "trip"
        PROVE  FALSE
    <3>1. dict[i] \in [session : Sessions, mode : Modes]
      BY <1>1, <2>1, ClientTypeParts, EntityFields, Constants DEF Entities
    <3>2. dict[i] = e
      BY <2>1, <3>1
    <3> QED BY <1>5, <3>2
  <2>2. answering' = answering
    BY <1>1, <1>5
  <2>3. ClientTypeOK'
    BY <1>1, <1>2, <2>2, ClientTypeParts, TypesNext
  <2> QED BY <1>1, <1>2, <1>3, <2>1, <2>2, <2>3 DEF TripOver
<1> QED BY <1>4, <1>5

(* ... and the session goes.                                               *)
TripGone(s) ==
  /\ answering["flp"].at = "trip" /\ s = answering["flp"].session
  /\ answering'["flp"] = NotAnswering /\ answering'["gnss"] = answering["gnss"]
  /\ \A i \in Ids : dict'[i] = IF dict[i].session = s THEN NoEntity ELSE dict[i]
  /\ UNCHANGED <<mTracking, queue, inbox, updating, home, running, lastSession, lastRequest,
                 outOfStep, leftRunning, updateRefused>>

LEMMA TripGoneEffect ==
  ASSUME Base, TripRemoved
  PROVE  ClientTypeOK' /\ \E s \in Sessions : TripGone(s)
<1> DEFINE s == answering["flp"].session
<1>1. /\ ClientTypeOK /\ answering["flp"].at = "trip" /\ dict' = Without(s)
      /\ answering' = [answering EXCEPT !["flp"] = NotAnswering]
      /\ UNCHANGED <<mTracking, queue, inbox, updating, home, running, lastSession, lastRequest,
                     outOfStep, leftRunning, updateRefused>>
  BY DEF Base, TripRemoved
<1>2. answering["flp"] \in AnsweringRecords
  BY <1>1, ClientTypeParts, Constants
<1>3. s \in Sessions
  BY <1>1, <1>2, AnsweringFields
<1> HIDE DEF s
<1>4. /\ answering' \in [Adapters -> AnsweringRecords] /\ answering'["flp"] = NotAnswering
      /\ answering'["gnss"] = answering["gnss"]
  BY <1>1, ClientTypeParts, Constants DEF AnsweringRecords
<1>5. /\ dict' \in [Ids -> Entities]
      /\ \A i \in Ids : dict'[i] = IF dict[i].session = s THEN NoEntity ELSE dict[i]
  BY <1>1, WithoutEntities
<1>6. ClientTypeOK'
  BY <1>1, <1>4, <1>5, ClientTypeParts, TypesNext
<1>7. TripGone(s)
  BY <1>1, <1>4, <1>5 DEF TripGone, s
<1> QED BY <1>3, <1>6, <1>7

-----------------------------------------------------------------------------
(* Every step is one of these.                                             *)
LEMMA Steps ==
  ASSUME Base, ClientNext
  PROVE  /\ ClientTypeOK'
         /\ \/ SomeCall \/ UpdateBegins
            \/ \E a \in Adapters, c \in CommandRecords :
                 \/ c \in Posted(a) /\ Handled(a, c)
                 \/ c \in Due(a) /\ Found(a, c)
                 \/ c \in Commands(a) /\ \E r \in RequestRecords : Delivered(a, c, r)
            \/ \E s \in Sessions : TripOver(s) \/ TripGone(s)
<1>1. CASE \E a \in TrackingAdapters : LocAPIStartTracking(a)
  BY <1>1, StartTrackingCalls
<1>2. CASE \E kind \in {"stop", "update"} : LocAPIStopOrUpdateTracking(kind)
  BY <1>2, StopOrUpdateTrackingCalls
<1>3. CASE \E i \in Ids : \E mode \in Modes : \E a \in StartsOn(mode) :
             LocAPIStartSession(i, mode, a)
  BY <1>3, StartSessionCalls
<1>4. CASE \E i \in Ids : LocAPIStopSession(i) \/ LocAPIUpdateSessionOptions(i)
  BY <1>4, StopSessionCalls, UpdateBeginsTyped
<1>5. CASE \E mode \in Modes :
             SessionUpdated(mode) \/ \E a \in StartsOn(mode) : SessionExchanged(mode, a)
  BY <1>5, SessionUpdatedCalls, SessionExchangedCalls
<1>6. CASE \E id \in NiIds : LocAPIGnssNiResponse(id)
  BY <1>6, NiResponseCalls
<1>7. ASSUME NEW a \in Adapters, CommandHandled(a) \/ RequestFound(a) \/ ResponseDelivered(a)
      PROVE  /\ ClientTypeOK'
             /\ \E c \in CommandRecords :
                  \/ c \in Posted(a) /\ Handled(a, c)
                  \/ c \in Due(a) /\ Found(a, c)
                  \/ c \in Commands(a) /\ \E r \in RequestRecords : Delivered(a, c, r)
  <2>1. /\ Commands(a) \subseteq CommandRecords /\ Due(a) \subseteq CommandRecords
        /\ Posted(a) \subseteq CommandRecords
    BY TypesHold DEF Base, Typed
  <2> QED BY <1>7, <2>1, HandledEffect, FoundEffect, DeliveredEffect
<1>8. CASE \E s \in Sessions : TripCompleted(s)
  BY <1>8, TripOverEffect
<1>9. CASE TripRemoved
  BY <1>9, TripGoneEffect
<1> QED BY <1>1, <1>2, <1>3, <1>4, <1>5, <1>6, <1>7, <1>8, <1>9 DEF ClientNext

-----------------------------------------------------------------------------
(* Commands and requests before and after.                                 *)

(* A command that a call sends to the adapter b: the call's, or the stop   *)
(* of the session that it is exchanged for.                                *)
IsNew(b, a, c, d) == (d = c /\ Gets(b, a, c)) \/ ExchangedStop(b, c, d)
IsNewOwn(b, a, c, d) == (d = c /\ b = a) \/ ExchangedStop(b, c, d)

CallSets(a, q, c, r) ==
  /\ \A b \in Adapters :
       /\ answering'[b] = answering[b] /\ (ClientBusy(b)' <=> ClientBusy(b))
       /\ Posted(b) \subseteq Posted(b)' /\ Inbox(b) \subseteq Inbox(b)'
       /\ Due(b) \subseteq Due(b)' /\ Commands(b) \subseteq Commands(b)'
       /\ \A d \in Posted(b)' : d \in Posted(b) \/ IsNew(b, a, c, d)
       /\ \A d \in Commands(b)' : d \in Commands(b) \/ IsNew(b, a, c, d)
       /\ \A d \in Inbox(b)' : d \in Inbox(b) \/ IsNewOwn(b, a, c, d)
       /\ \A d \in Due(b)' : d \in Due(b) \/ IsNewOwn(b, a, c, d)
       /\ \A d \in Commands(b) : AnswererOf(d)' = AnswererOf(d)
  /\ c \in Posted(a)' /\ c \in Inbox(a)' /\ c \in Due(a)'
  /\ r \in Waiting(q)' /\ \A x \in Waiting(q)' : x \in Waiting(q) \/ x = r
  /\ \A p \in Queues : p # q => Waiting(p)' = Waiting(p)
  /\ Pushed(q, r) => Waiting(q) \subseteq Waiting(q)'
  /\ queue'[q].requests = <<r>> => Waiting(q)' = {r}
  /\ \A s \in KnownSessions' :
       s \in KnownSessions \/ (q = "session" /\ c.kind = "start" /\ c.session = s)
  /\ \A s \in Sessions : s <= lastSession => home'[s] = home[s]

(* The session that a call is for.                                         *)
CallFits(a, q, c) ==
  /\ lastSession <= lastSession' /\ lastSession' \in Nat
  /\ c.kind = "start" => c.session = lastSession + 1 /\ lastSession' = lastSession + 1
  /\ c.kind # "respond" =>
       c.session \in Sessions /\ 0 < c.session /\ c.session <= lastSession'
  /\ q = "tracking" => /\ c.kind # "respond" /\ c.session = queue'["tracking"].session
                       /\ c.mode = "fix"
  /\ q = "session" => /\ c.kind # "respond"
                      /\ c.kind # "start" => c.session \in KnownSessions
  /\ q = "ni" <=> c.kind = "respond"
  /\ q = "ni" => c.session = queue'["ni"].session
  /\ q # "session" => dict' = dict
  /\ queue'["tracking"].session =
       IF q = "tracking" /\ c.kind = "start" THEN lastSession + 1
       ELSE queue["tracking"].session

LEMMA CallSession ==
  ASSUME Base, ClientTypeOK', NEW a \in Adapters, NEW q \in Queues,
         NEW c \in CommandRecords, NEW r \in RequestRecords, Called(a, q, c, r)
  PROVE  CallFits(a, q, c)
<1>1. Typed /\ Typed' /\ c.session \in Nat
  BY TypesHold, TypesHoldNext, CommandFields DEF Base
<1>2. lastSession \in Nat /\ lastSession' \in 0..MaxSessions /\ lastSession <= lastSession'
      /\ lastSession' \in Nat
  <2>1. lastSession \in Nat /\ lastSession' \in 0..MaxSessions
    BY <1>1 DEF Typed, ClientTypeOK
  <2> QED BY <2>1, Constants DEF Called
<1>3. c.kind = "start" =>
        /\ c.session = lastSession + 1 /\ c.session \in Sessions /\ lastSession' = lastSession + 1
  BY <1>2, Constants DEF Called
<1>4. queue["tracking"].session <= lastSession
  BY DEF Base, ClientSessionsFit
<1>5. CASE q = "tracking" /\ TrackingCall(c, r)
  <2>1. queue'["tracking"].session =
          IF c.kind = "start" THEN lastSession + 1 ELSE queue["tracking"].session
    BY <1>3, <1>5 DEF TrackingCall, Pushed
  <2>2. c.session <= lastSession' /\ 0 < c.session
    BY <1>1, <1>2, <1>3, <1>4, <1>5, <2>1 DEF TrackingCall, Called
  <2>3. c.session \in Sessions
    BY <1>1, <1>2, <2>2, Constants
  <2> QED BY <1>2, <1>3, <1>5, <2>1, <2>2, <2>3 DEF CallFits, TrackingCall
<1>6. CASE q = "session" /\ SessionCall(a, c, r)
  <2>1. queue'["tracking"].session = queue["tracking"].session
    BY <1>6, Constants DEF Called
  <2>2. 0 < c.session /\ c.kind # "respond" /\ (c.kind # "start" => c.session \in KnownSessions)
    BY <1>6 DEF SessionCall
  <2>3. c.session <= lastSession' /\ c.session \in Sessions
    <3>1. CASE c.kind = "start"
      BY <1>2, <1>3, <3>1 DEF Called
    <3>2. CASE c.kind # "start"
      <4>1. c.session \in Sessions /\ c.session <= lastSession
        BY <2>2, <3>2, KnownAreNumbered
      <4> QED BY <1>1, <1>2, <4>1
    <3> QED BY <3>1, <3>2
  <2> QED BY <1>2, <1>3, <1>6, <2>1, <2>2, <2>3 DEF CallFits
<1>7. CASE q = "ni" /\ NiCall(c, r)
  <2>1. queue'["tracking"].session = queue["tracking"].session
    BY <1>7, Constants DEF Called
  <2>2. c.session = queue'["ni"].session
    BY <1>7 DEF NiCall, Replaced
  <2> QED BY <1>2, <1>7, <2>1, <2>2 DEF CallFits, NiCall
<1> QED BY <1>5, <1>6, <1>7 DEF Called

LEMMA PostedChanges ==
  ASSUME Typed, NEW a \in Adapters, NEW c \in CommandRecords, PostsTo(a, c), NEW b \in Adapters
  PROVE  /\ Posted(b) \subseteq Posted(b)' /\ (b = a => c \in Posted(b)')
         /\ \A d \in Posted(b)' : d \in Posted(b) \/ IsNew(b, a, c, d)
<1>1. inbox[b] \in Seq(CommandRecords)
  BY DEF Typed
<1>2. PICK mid \in Seq(CommandRecords) :
        /\ mid = inbox[b] \/ \E x : ExchangedStop(b, c, x) /\ mid = Append(inbox[b], x)
        /\ \/ Gets(b, a, c) /\ inbox'[b] = Append(mid, c)
           \/ b # a /\ inbox'[b] = mid
  BY DEF PostsTo
<1>3. /\ Range(inbox[b]) \subseteq Range(mid)
      /\ \A d \in Range(mid) : d \in Range(inbox[b]) \/ ExchangedStop(b, c, d)
  <2>1. CASE mid = inbox[b]
    BY <2>1
  <2>2. ASSUME NEW x, ExchangedStop(b, c, x), mid = Append(inbox[b], x)
        PROVE  Range(mid) = Range(inbox[b]) \cup {x}
    <3>1. x \in CommandRecords
      BY <2>2 DEF ExchangedStop
    <3> QED BY <1>1, <2>2, <3>1, AppendElements
  <2> QED BY <1>2, <2>1, <2>2
<1>4. CASE Gets(b, a, c) /\ inbox'[b] = Append(mid, c)
  <2>1. Range(Append(mid, c)) = Range(mid) \cup {c}
    BY AppendElements
  <2>2. Range(inbox'[b]) = Range(mid) \cup {c}
    BY <1>4, <2>1
  <2> QED BY <1>3, <1>4, <2>2 DEF Posted, IsNew
<1>5. CASE b # a /\ inbox'[b] = mid
  BY <1>3, <1>5 DEF Posted, IsNew
<1> QED BY <1>2, <1>4, <1>5

LEMMA CallChanges ==
  ASSUME Base, ClientTypeOK', NEW a \in Adapters, NEW q \in Queues,
         NEW c \in CommandRecords, NEW r \in RequestRecords, Called(a, q, c, r)
  PROVE  CallSets(a, q, c, r)
<1>1. Typed /\ Typed' /\ CallFits(a, q, c)
  BY TypesHold, TypesHoldNext, CallSession DEF Base
<1>2. answering' = answering /\ updating' = NoUpdate /\ PostsTo(a, c)
  BY DEF Called, adapterVars
<1>3. /\ lastSession \in Nat
      /\ \A s \in Sessions : s <= lastSession => home'[s] = home[s]
  <2>1. lastSession \in Nat
    BY <1>1 DEF Typed
  <2>2. CASE c.kind = "start"
    BY <2>1, <2>2, Constants DEF Called
  <2>3. CASE c.kind # "start"
    BY <2>1, <2>3 DEF Called
  <2> QED BY <2>1, <2>2, <2>3
<1>4. AnswererOf(c)' = a
  BY DEF Called, AnswererOf
<1>5. \A s \in KnownSessions : s \in Sessions /\ s <= lastSession
  BY KnownAreNumbered
<1>6. ASSUME NEW b \in Adapters
      PROVE  /\ answering'[b] = answering[b] /\ (ClientBusy(b)' <=> ClientBusy(b))
             /\ Posted(b) \subseteq Posted(b)' /\ Inbox(b) \subseteq Inbox(b)'
             /\ Due(b) \subseteq Due(b)' /\ Commands(b) \subseteq Commands(b)'
             /\ \A d \in Posted(b)' : d \in Posted(b) \/ IsNew(b, a, c, d)
             /\ \A d \in Commands(b)' : d \in Commands(b) \/ IsNew(b, a, c, d)
             /\ \A d \in Inbox(b)' : d \in Inbox(b) \/ IsNewOwn(b, a, c, d)
             /\ \A d \in Due(b)' : d \in Due(b) \/ IsNewOwn(b, a, c, d)
             /\ \A d \in Commands(b) : AnswererOf(d)' = AnswererOf(d)
             /\ b = a => c \in Posted(b)' /\ c \in Inbox(b)' /\ c \in Due(b)'
  <2>1. /\ Posted(b) \subseteq Posted(b)' /\ (b = a => c \in Posted(b)')
        /\ \A d \in Posted(b)' : d \in Posted(b) \/ IsNew(b, a, c, d)
    BY <1>1, <1>2, PostedChanges
  <2>2. ClientBusy(b)' <=> ClientBusy(b)
    BY <1>2 DEF ClientBusy
  <2>3. ASSUME NEW d \in Commands(b) PROVE AnswererOf(d)' = AnswererOf(d)
    <3>1. d.kind # "respond" => d.session \in Sessions /\ d.session <= lastSession
      BY SessionsOfCommands
    <3> QED BY <1>3, <3>1 DEF AnswererOf
  <2>4. Posted(b) \subseteq Commands(b)
    BY <1>1 DEF Typed
  <2>5. \A d \in Inbox(b)' : d \in Posted(b)' /\ AnswererOf(d)' = b
    BY DEF Inbox
  <2>6. \A d \in Inbox(b) : d \in Posted(b)' /\ AnswererOf(d)' = b
    BY <2>1, <2>3, <2>4 DEF Inbox
  <2>7. Inbox(b) \subseteq Inbox(b)'
    BY <2>6 DEF Inbox
  <2>8. \A d \in Inbox(b)' : d \in Inbox(b) \/ IsNewOwn(b, a, c, d)
    BY <1>4, <2>1, <2>3, <2>4, <2>5 DEF Inbox, IsNew, IsNewOwn
  <2>9. /\ Due(b)' = Inbox(b)' \cup IF answering[b].at = "answer" THEN {answering[b].command} ELSE {}
        /\ Commands(b)' = Posted(b)' \cup IF ClientBusy(b) THEN {answering[b].command} ELSE {}
    BY <1>2, <2>2 DEF Due, Commands
  <2>10. b = a => c \in Inbox(b)'
    BY <1>4, <2>1 DEF Inbox
  <2> QED BY <1>2, <2>1, <2>2, <2>3, <2>7, <2>8, <2>9, <2>10 DEF Due, Commands
<1>7. /\ r \in Waiting(q)' /\ \A x \in Waiting(q)' : x \in Waiting(q) \/ x = r
      /\ \A p \in Queues : p # q => Waiting(p)' = Waiting(p)
      /\ Pushed(q, r) => Waiting(q) \subseteq Waiting(q)'
      /\ queue'[q].requests = <<r>> => Waiting(q)' = {r}
  <2>1. \A p \in Queues : p # q => Waiting(p)' = Waiting(p)
    BY DEF Called, Waiting
  <2>2. CASE Pushed(q, r)
    <3>1. Waiting(q)' = Waiting(q) \cup {r}
      BY <1>1, <2>2, AppendElements DEF Pushed, Typed, Waiting
    <3>2. queue'[q].requests = <<r>> => Waiting(q)' = {r}
      BY DEF Waiting, Range
    <3> QED BY <2>1, <3>1, <3>2
  <2>3. CASE queue'[q].requests = <<r>>
    <3>1. Waiting(q)' = {r}
      BY <2>3 DEF Waiting, Range
    <3>2. Pushed(q, r) => Waiting(q) \subseteq Waiting(q)'
      BY <1>1, AppendElements DEF Pushed, Typed, Waiting
    <3> QED BY <2>1, <3>1, <3>2
  <2> QED BY <2>2, <2>3 DEF Called, TrackingCall, SessionCall, NiCall, Replaced
<1>8. ASSUME NEW s \in KnownSessions'
      PROVE  s \in KnownSessions \/ (q = "session" /\ c.kind = "start" /\ c.session = s)
  <2>0. s \in DictSessions'
    BY <1>2, <1>8 DEF KnownSessions, NoUpdate
  <2>1. CASE dict' = dict
    BY <2>0, <2>1 DEF DictSessions, KnownSessions
  <2>2. CASE q = "session" /\ SessionCall(a, c, r)
    <3>1. PICK i \in Ids :
            /\ \A j \in Ids : j # i => dict'[j] = dict[j]
            /\ dict'[i].session = c.session
            /\ c.kind # "start" => c.session \in KnownSessions
      BY <2>2 DEF SessionCall
    <3>2. PICK j \in Ids : dict'[j].session = s /\ s # NoSession
      BY <2>0 DEF DictSessions
    <3>3. CASE j = i
      BY <2>2, <3>1, <3>2, <3>3
    <3>4. CASE j # i
      BY <3>1, <3>2, <3>4 DEF DictSessions, KnownSessions
    <3> QED BY <3>3, <3>4
  <2> QED BY <2>1, <2>2 DEF Called, TrackingCall, NiCall
<1> QED BY <1>3, <1>6, <1>7, <1>8 DEF CallSets

(* A command is handled: the adapter has it no more, unless it answers.    *)
HandledSets(a, c) ==
  /\ Posted(a) = Posted(a)' \cup {c} /\ c \in Commands(a) /\ ~ClientBusy(a)
  /\ AnswererOf(c) = a => c \in Inbox(a) /\ c \in Due(a)
  /\ \A b \in Adapters :
       /\ b # a => /\ Posted(b)' = Posted(b) /\ Inbox(b)' = Inbox(b) /\ Due(b)' = Due(b)
                   /\ (ClientBusy(b)' <=> ClientBusy(b))
       /\ Posted(b)' \subseteq Posted(b) /\ Inbox(b)' \subseteq Inbox(b)
       /\ Commands(b)' \subseteq Commands(b) /\ Due(b)' \subseteq Due(b)
       /\ \A d \in Inbox(b) : d \in Inbox(b)' \/ (b = a /\ d = c)
       /\ \A d \in Due(b) : d \in Due(b)' \/ (b = a /\ d = c /\ Unanswered(a, c))
  /\ DictSessions' = DictSessions /\ KnownSessions' = KnownSessions
  /\ \A q \in Queues : Waiting(q)' = Waiting(q)

LEMMA HandledChanges ==
  ASSUME Base, NEW a \in Adapters, NEW c, Handled(a, c)
  PROVE  HandledSets(a, c)
<1>1. Range(inbox[a]) = Range(Tail(inbox[a])) \cup {c}
  BY TypesHold, TailElements DEF Base, Typed, Handled
<1>2. Posted(a) = Posted(a)' \cup {c} /\ home' = home
  BY <1>1 DEF Posted, Handled
<1>3. ~ClientBusy(a) /\ answering[a].at # "answer" /\ DictSessions' = DictSessions
      /\ KnownSessions' = KnownSessions /\ \A q \in Queues : Waiting(q)' = Waiting(q)
  BY DEF Handled, ClientBusy, DictSessions, KnownSessions, Waiting
<1>4. \A b \in Adapters : b # a =>
        /\ Posted(b)' = Posted(b) /\ Inbox(b)' = Inbox(b) /\ (ClientBusy(b)' <=> ClientBusy(b))
        /\ Commands(b)' = Commands(b) /\ Due(b)' = Due(b)
  <2> SUFFICES ASSUME NEW b \in Adapters, b # a
               PROVE  /\ Posted(b)' = Posted(b) /\ Inbox(b)' = Inbox(b)
                      /\ (ClientBusy(b)' <=> ClientBusy(b))
                      /\ Commands(b)' = Commands(b) /\ Due(b)' = Due(b)
    OBVIOUS
  <2>1. inbox'[b] = inbox[b] /\ answering'[b] = answering[b]
    BY DEF Handled
  <2>2. Posted(b)' = Posted(b) /\ Inbox(b)' = Inbox(b)
    BY <1>2, <2>1 DEF Posted, Inbox, AnswererOf
  <2> QED BY <2>1, <2>2 DEF ClientBusy, Commands, Due
<1>5. /\ Inbox(a)' = {d \in Posted(a)' : AnswererOf(d) = a}
      /\ Inbox(a) = {d \in Posted(a) : AnswererOf(d) = a}
  BY <1>2 DEF Inbox, AnswererOf
<1>6. /\ Inbox(a)' \subseteq Inbox(a) /\ \A d \in Inbox(a) : d \in Inbox(a)' \/ d = c
      /\ AnswererOf(c) = a => c \in Inbox(a)
  BY <1>2, <1>5
<1>7. Commands(a) = Posted(a) /\ Due(a) = Inbox(a)
  BY <1>3 DEF Commands, Due
<1>8. CASE Unanswered(a, c)
  <2>1. answering' = answering
    BY <1>8 DEF Unanswered
  <2>2. Commands(a)' = Posted(a)' /\ Due(a)' = Inbox(a)'
    BY <1>3, <2>1 DEF Commands, Due, ClientBusy
  <2> QED BY <1>2, <1>3, <1>4, <1>6, <1>7, <1>8, <2>2 DEF HandledSets
<1>9. CASE \E error \in BOOLEAN : Answered(a, c, error)
  <2>1. answering'[a].at = "answer" /\ answering'[a].command = c /\ AnswererOf(c) = a
    BY <1>9 DEF Answered
  <2>2. Commands(a)' = Posted(a)' \cup {c} /\ Due(a)' = Inbox(a)' \cup {c}
    BY <2>1 DEF Commands, Due, ClientBusy
  <2> QED BY <1>2, <1>3, <1>4, <1>6, <1>7, <2>1, <2>2 DEF HandledSets
<1> QED BY <1>8, <1>9 DEF Handled

FoundSets(a, c) ==
  /\ ClientBusy(a) /\ c \in Commands(a) /\ c \in Due(a) /\ answering'[a].at # "answer"
  /\ Due(a)' = Inbox(a) /\ Due(a) = Inbox(a) \cup {c}
  /\ \A b \in Adapters :
       /\ b # a => Due(b)' = Due(b)
       /\ Posted(b)' = Posted(b) /\ Inbox(b)' = Inbox(b) /\ Due(b)' \subseteq Due(b)
       /\ Commands(b)' \subseteq Commands(b) /\ (ClientBusy(b)' => ClientBusy(b))
       /\ ClientBusy(b)' => /\ answering'[b].command = answering[b].command
                            /\ answering'[b].error = answering[b].error
  /\ DictSessions' = DictSessions /\ KnownSessions' = KnownSessions
  /\ KnownSessions = DictSessions
  /\ \A q \in Queues : Waiting(q)' \subseteq Waiting(q) /\ queue'[q].session = queue[q].session
  /\ \A q \in Queues : FoundIn(a, c, q) =>
       /\ Head(queue[q].requests) \in Waiting(q)
       /\ Waiting(q) = Waiting(q)' \cup {Head(queue[q].requests)}
       /\ \A p \in Queues : p # q => Waiting(p)' = Waiting(p)

LEMMA FoundChanges ==
  ASSUME Base, NEW a \in Adapters, NEW c, Found(a, c)
  PROVE  FoundSets(a, c)
<1>1. /\ ClientBusy(a) /\ Commands(a) = Posted(a) \cup {c} /\ Due(a) = Inbox(a) \cup {c}
      /\ c = answering[a].command
  BY DEF Found, ClientBusy, Commands, Due
<1>2. \A b \in Adapters : Posted(b)' = Posted(b) /\ Inbox(b)' = Inbox(b)
  BY DEF Found, Inbox, Posted, AnswererOf
<1>3. /\ answering'[a].at # "answer"
      /\ ClientBusy(a)' => answering'[a].command = c /\ answering'[a].error = answering[a].error
  BY DEF Found, FoundNone, FoundIn, NotAnswering, ClientBusy
<1>4. Due(a)' = Inbox(a) /\ Commands(a)' \subseteq Commands(a)
  BY <1>1, <1>2, <1>3 DEF Due, Commands
<1>5. \A b \in Adapters : b # a =>
        /\ Commands(b)' = Commands(b) /\ Due(b)' = Due(b) /\ (ClientBusy(b)' <=> ClientBusy(b))
        /\ answering'[b] = answering[b]
  BY <1>2 DEF Found, Commands, Due, ClientBusy
<1>6. DictSessions' = DictSessions /\ KnownSessions' = KnownSessions
      /\ KnownSessions = DictSessions
  BY DEF Found, DictSessions, KnownSessions, NoUpdate
<1>7. ASSUME NEW q \in Queues, FoundIn(a, c, q)
      PROVE  /\ Head(queue[q].requests) \in Waiting(q)
             /\ Waiting(q) = Waiting(q)' \cup {Head(queue[q].requests)}
             /\ \A p \in Queues : p # q => Waiting(p)' = Waiting(p)
             /\ \A p \in Queues : queue'[p].session = queue[p].session
  <2>1. queue[q].requests \in Seq(RequestRecords) /\ queue[q].requests # <<>>
    BY <1>7, TypesHold DEF Base, Typed, FoundIn
  <2>2. Range(queue[q].requests) =
          Range(Tail(queue[q].requests)) \cup {Head(queue[q].requests)}
    BY <2>1, TailElements
  <2>3. /\ Waiting(q) = Waiting(q)' \cup {Head(queue[q].requests)}
        /\ \A p \in Queues : p # q => Waiting(p)' = Waiting(p)
    BY <1>7, <2>2 DEF FoundIn, Waiting
  <2>4. \A p \in Queues : queue'[p].session = queue[p].session
    BY <1>7 DEF FoundIn
  <2> QED BY <2>3, <2>4
<1>8. \A q \in Queues : Waiting(q)' \subseteq Waiting(q) /\ queue'[q].session = queue[q].session
  <2>1. CASE FoundNone(a, c)
    BY <2>1 DEF FoundNone, Waiting
  <2>2. CASE \E p \in Queues : FoundIn(a, c, p)
    BY <1>7, <2>2
  <2> QED BY <2>1, <2>2 DEF Found
<1> QED BY <1>1, <1>2, <1>3, <1>4, <1>5, <1>6, <1>7, <1>8 DEF FoundSets

(* When a callback returns, or a trip is over, nothing new is sent or asked*)
(* for.                                                                    *)
Ends ==
  /\ UNCHANGED <<mTracking, queue, inbox, updating, home, lastSession, lastRequest,
                 outOfStep, leftRunning>>
  /\ \A s \in Sessions : running'[s] \in {running[s], "none"}
  /\ \A i \in Ids : dict'[i] \in {dict[i], NoEntity}
  /\ \A b \in Adapters :
       /\ Posted(b)' = Posted(b) /\ Inbox(b)' = Inbox(b) /\ Due(b)' = Due(b)
       /\ Commands(b)' \subseteq Commands(b)
       /\ answering'[b] = answering[b] \/ answering'[b].at \in {"idle", "trip"}
       /\ ClientBusy(b)' => ClientBusy(b) /\ answering'[b] = answering[b]
  /\ DictSessions' \subseteq DictSessions /\ KnownSessions' \subseteq KnownSessions
  /\ \A q \in Queues : Waiting(q)' = Waiting(q)

LEMMA EndsChanges ==
  ASSUME Base,
         \/ \E a \in Adapters : \E c, r : Delivered(a, c, r)
         \/ \E s \in Sessions : TripOver(s) \/ TripGone(s)
  PROVE  Ends
<1>1. UNCHANGED <<mTracking, queue, inbox, updating, home, lastSession, lastRequest,
                  outOfStep, leftRunning>>
  BY DEF Delivered, TripOver, TripGone
<1>2. /\ \A b \in Adapters : Posted(b)' = Posted(b) /\ Inbox(b)' = Inbox(b)
      /\ \A q \in Queues : Waiting(q)' = Waiting(q)
  BY <1>1 DEF Posted, Inbox, AnswererOf, Waiting
<1>3. /\ \A s \in Sessions : running'[s] \in {running[s], "none"}
      /\ \A i \in Ids : dict'[i] \in {dict[i], NoEntity}
  BY DEF Delivered, TripOver, TripGone
<1>4. DictSessions' \subseteq DictSessions
  BY <1>3 DEF DictSessions, NoEntity
<1>5. KnownSessions' \subseteq KnownSessions
  BY <1>1, <1>4 DEF KnownSessions
<1>6. ASSUME NEW b \in Adapters
      PROVE  \/ answering'[b] = answering[b]
             \/ answering[b].at # "answer" /\ answering'[b].at \in {"idle", "trip"}
  BY Constants DEF Delivered, TripOver, TripGone, NotAnswering
<1>7. ASSUME NEW b \in Adapters
      PROVE  /\ Due(b)' = Due(b) /\ Commands(b)' \subseteq Commands(b)
             /\ answering'[b] = answering[b] \/ answering'[b].at \in {"idle", "trip"}
             /\ ClientBusy(b)' => ClientBusy(b) /\ answering'[b] = answering[b]
  <2>1. CASE answering'[b] = answering[b]
    BY <1>2, <2>1 DEF Due, Commands, ClientBusy
  <2>2. CASE answering[b].at # "answer" /\ answering'[b].at \in {"idle", "trip"}
    BY <1>2, <2>2 DEF Due, Commands, ClientBusy
  <2> QED BY <1>6, <2>1, <2>2
<1> QED BY <1>1, <1>2, <1>3, <1>4, <1>5, <1>7 DEF Ends

(* An update that takes the mutex changes only what it has read.           *)
BeginSets ==
  /\ UNCHANGED <<mTracking, queue, dict, inbox, answering, home, running, lastSession,
                 lastRequest, outOfStep, leftRunning, updateRefused>>
  /\ updating = NoUpdate
  /\ DictSessions' = DictSessions /\ KnownSessions' = KnownSessions
  /\ \A b \in Adapters :
       /\ Posted(b)' = Posted(b) /\ Inbox(b)' = Inbox(b) /\ Due(b)' = Due(b)
       /\ Commands(b)' = Commands(b) /\ (ClientBusy(b)' <=> ClientBusy(b))
  /\ \A q \in Queues : Waiting(q)' = Waiting(q)

LEMMA BeginChanges ==
  ASSUME Base, UpdateBegins
  PROVE  BeginSets
<1>1. /\ UNCHANGED <<mTracking, queue, dict, inbox, answering, home, running, lastSession,
                     lastRequest, outOfStep, leftRunning, updateRefused>>
      /\ updating = NoUpdate
  BY DEF UpdateBegins
<1>2. PICK i \in Ids : /\ dict[i] # NoEntity
                       /\ updating' = [id |-> i, session |-> dict[i].session,
                                       mode |-> dict[i].mode]
  BY DEF UpdateBegins
<1>3. updating'.session \in DictSessions /\ DictSessions' = DictSessions
  BY <1>1, <1>2, TypesHold DEF Base, Typed, DictSessions
<1>4. KnownSessions' = KnownSessions
  BY <1>1, <1>3 DEF KnownSessions, NoUpdate
<1>5. ASSUME NEW b \in Adapters
      PROVE  /\ Posted(b)' = Posted(b) /\ Inbox(b)' = Inbox(b) /\ Due(b)' = Due(b)
             /\ Commands(b)' = Commands(b) /\ (ClientBusy(b)' <=> ClientBusy(b))
  BY <1>1 DEF Posted, Inbox, AnswererOf, Due, Commands, ClientBusy
<1>6. \A q \in Queues : Waiting(q)' = Waiting(q)
  BY <1>1 DEF Waiting
<1> QED BY <1>1, <1>3, <1>4, <1>5, <1>6 DEF BeginSets

-----------------------------------------------------------------------------
(* What holds always.                                                      *)

LEMMA Numbers ==
  /\ \A c \in CommandRecords : c.number \in Nat /\ c.session \in Nat
  /\ \A r \in RequestRecords : r.number \in Nat /\ r.number > 0
BY CommandFields, RequestFields

(* What was sent before a call is for sessions that were numbered.         *)
LEMMA OldCommands ==
  ASSUME Base, NEW b \in Adapters, NEW d \in Commands(b)
  PROVE  /\ d \in CommandRecords /\ d.session \in Nat /\ d.number \in Nat /\ CommandFits(b, d)
         /\ d.number <= lastRequest /\ lastRequest \in Nat /\ lastSession \in Nat
         /\ d.kind # "respond" => d.session \in Sessions /\ d.session <= lastSession
<1>1. /\ d \in CommandRecords /\ CommandFits(b, d)
      /\ lastRequest \in Nat /\ lastSession \in Nat
      /\ d.kind # "respond" => d.session \in Sessions /\ d.session <= lastSession
  BY SessionsOfCommands, TypesHold DEF Base, Typed
<1>2. d.number <= lastRequest
  BY DEF Base, InOrder
<1> QED BY <1>1, <1>2, Numbers

(* What a call sends.                                                      *)
LEMMA NewCommands ==
  ASSUME Base, ClientTypeOK', NEW a \in Adapters, NEW q \in Queues,
         NEW c \in CommandRecords, NEW r \in RequestRecords, Called(a, q, c, r)
  PROVE  /\ \A b \in Adapters : \A x : ExchangedStop(b, c, x) =>
              /\ x \in CommandRecords /\ x.number = 0 /\ x.kind = "stop" /\ c.kind = "start"
              /\ x.session \in KnownSessions /\ x.session \notin KnownSessions'
              /\ x.session \in Sessions /\ x.session > 0 /\ x.session <= lastSession
              /\ x.session # queue["tracking"].session
         /\ \A b \in Adapters : Gets(b, a, c) /\ b # a => c.kind \in {"stop", "update"}
         /\ queue["tracking"].session \in Nat /\ queue["tracking"].session <= lastSession
         /\ lastSession \in Nat /\ lastRequest \in Nat
         /\ c.session \in Nat /\ c.number = lastRequest + 1 /\ r.number = lastRequest + 1
         /\ lastRequest' = lastRequest + 1 /\ r.from = a /\ KindFits(r, c)
         /\ \A p \in Queues : p # q => queue'[p] = queue[p]
         /\ \/ Pushed(q, r)
            \/ queue'[q].requests = <<r>>
         /\ answering' = answering /\ running' = running
<1>1. \A b \in Adapters : \A x : ExchangedStop(b, c, x) =>
              /\ x \in CommandRecords /\ x.number = 0 /\ x.kind = "stop" /\ c.kind = "start"
              /\ x.session \in KnownSessions /\ x.session \notin KnownSessions'
              /\ x.session \in Sessions /\ x.session > 0 /\ x.session <= lastSession
              /\ x.session # queue["tracking"].session
  BY KnownAreNumbered DEF ExchangedStop
<1>2. \A b \in Adapters : Gets(b, a, c) /\ b # a => c.kind \in {"stop", "update"}
  BY DEF Gets
<1>3. /\ queue["tracking"].session \in Nat /\ queue["tracking"].session <= lastSession
      /\ lastSession \in Nat /\ lastRequest \in Nat
  BY TypesHold, Constants DEF Base, Typed, ClientSessionsFit
<1>4. Pushed(q, r) \/ queue'[q].requests = <<r>>
  BY DEF Called, TrackingCall, SessionCall, NiCall, Replaced
<1> QED BY <1>1, <1>2, <1>3, <1>4, Numbers DEF Called, adapterVars

LEMMA CallKeepsInOrder ==
  ASSUME Base, ClientTypeOK', NEW a \in Adapters, NEW q \in Queues,
         NEW c \in CommandRecords, NEW r \in RequestRecords, Called(a, q, c, r)
  PROVE  InOrder'
<1>1. Typed /\ Typed' /\ CallSets(a, q, c, r)
  BY TypesHold, TypesHoldNext, CallChanges DEF Base
<1>2. /\ \A b \in Adapters : \A x : ExchangedStop(b, c, x) => x \in CommandRecords /\ x.number = 0
      /\ lastRequest \in Nat /\ lastRequest' = lastRequest + 1
      /\ c.number = lastRequest + 1 /\ r.number = lastRequest + 1
      /\ \A p \in Queues : p # q => queue'[p] = queue[p]
      /\ Pushed(q, r) \/ queue'[q].requests = <<r>>
      /\ answering' = answering
  BY NewCommands
<1>3. ASSUME NEW p \in Queues
      PROVE  Increasing(queue'[p].requests) /\ \A x \in Waiting(p)' : x.number <= lastRequest'
  <2>1. /\ Increasing(queue[p].requests) /\ queue[p].requests \in Seq(RequestRecords)
        /\ \A x \in Waiting(p) : x \in RequestRecords /\ x.number <= lastRequest
    BY <1>1 DEF Base, InOrder, Typed
  <2>2. \A x \in Waiting(p) : x.number \in Nat /\ x.number < r.number
    BY <1>2, <2>1, Numbers
  <2>3. \A x \in Waiting(p)' : x.number <= lastRequest'
    BY <1>1, <1>2, <2>1, <2>2 DEF CallSets
  <2>4. CASE p # q
    BY <1>2, <2>1, <2>3, <2>4
  <2>5. CASE p = q /\ Pushed(q, r)
    <3>1. Increasing(Append(queue[q].requests, r))
      BY <2>1, <2>2, <2>5, Numbers, IncreasingAppend DEF Waiting
    <3> QED BY <2>3, <2>5, <3>1 DEF Pushed
  <2>6. CASE p = q /\ queue'[q].requests = <<r>>
    <3>1. Increasing(<<r>>)
      BY DEF Increasing
    <3> QED BY <2>3, <2>6, <3>1
  <2> QED BY <1>2, <2>4, <2>5, <2>6
<1>4. ASSUME NEW b \in Adapters
      PROVE  /\ \A d \in Commands(b)' : d.number <= lastRequest'
             /\ answering'[b].at = "answer" =>
                  \A d \in Posted(b)' : d.number > 0 => answering'[b].command.number < d.number
  <2>1. \A d \in Commands(b) : d.number \in Nat /\ d.number <= lastRequest
    BY OldCommands
  <2>2. answering[b].at = "answer" => answering[b].command \in Commands(b)
    BY <1>1 DEF Typed, ClientBusy
  <2>3. answering[b].at = "answer" =>
          \A d \in Posted(b) : d.number > 0 => answering[b].command.number < d.number
    BY DEF Base, InOrder
  <2>4. \A d : IsNew(b, a, c, d) => d.number = 0 \/ d.number = lastRequest + 1
    BY <1>2 DEF IsNew
  <2>5. /\ \A d \in Posted(b)' : d \in Posted(b) \/ IsNew(b, a, c, d)
        /\ \A d \in Commands(b)' : d \in Commands(b) \/ IsNew(b, a, c, d)
    BY <1>1 DEF CallSets
  <2>6. \A d \in Commands(b)' : d.number <= lastRequest'
    BY <1>2, <2>1, <2>4, <2>5
  <2> QED BY <1>2, <2>1, <2>2, <2>3, <2>4, <2>5, <2>6
<1>5. ASSUME NEW b \in Adapters
      PROVE  Increasing(inbox'[b])
  <2>1. Increasing(inbox[b]) /\ inbox[b] \in Seq(CommandRecords)
    BY <1>1 DEF Base, InOrder, Typed
  <2>2. \A d \in Range(inbox[b]) : d.number < c.number
    <3>1. \A d \in Range(inbox[b]) : d \in Commands(b)
      BY DEF Commands, Posted
    <3> QED BY <1>2, <3>1, OldCommands
  <2>3. PICK mid \in Seq(CommandRecords) :
          /\ mid = inbox[b] \/ \E x : ExchangedStop(b, c, x) /\ mid = Append(inbox[b], x)
          /\ inbox'[b] = Append(mid, c) \/ inbox'[b] = mid
    BY DEF Called, PostsTo
  <2>4. Increasing(mid) /\ \A d \in Range(mid) : d.number < c.number
    <3>1. CASE mid = inbox[b]
      BY <2>1, <2>2, <3>1
    <3>2. ASSUME NEW x, ExchangedStop(b, c, x), mid = Append(inbox[b], x)
          PROVE  Increasing(mid) /\ \A d \in Range(mid) : d.number < c.number
      <4>1. x \in CommandRecords /\ x.number = 0
        BY <1>2, <3>2
      <4>2. Increasing(Append(inbox[b], x))
        BY <2>1, <4>1, Numbers, IncreasingAppend
      <4>3. Range(Append(inbox[b], x)) = Range(inbox[b]) \cup {x}
        BY <2>1, <4>1, AppendElements
      <4> QED BY <1>2, <2>2, <3>2, <4>1, <4>2, <4>3
    <3> QED BY <2>3, <3>1, <3>2
  <2>5. Increasing(Append(mid, c))
    BY <2>4, Numbers, IncreasingAppend
  <2> QED BY <2>3, <2>4, <2>5
<1> QED BY <1>3, <1>4, <1>5 DEF InOrder

LEMMA CallKeepsCommandsFit ==
  ASSUME Base, ClientTypeOK', NEW a \in Adapters, NEW q \in Queues,
         NEW c \in CommandRecords, NEW r \in RequestRecords, Called(a, q, c, r)
  PROVE  CommandsFit'
<1>1. CallSets(a, q, c, r) /\ CallFits(a, q, c) /\ Apart
  BY CallChanges, CallSession DEF Base
<1>2. /\ \A b \in Adapters : \A x : ExchangedStop(b, c, x) =>
           /\ x \in CommandRecords /\ x.number = 0 /\ x.kind = "stop" /\ c.kind = "start"
           /\ x.session \in KnownSessions /\ x.session \notin KnownSessions'
           /\ x.session \in Sessions /\ x.session > 0 /\ x.session <= lastSession
           /\ x.session # queue["tracking"].session
      /\ \A b \in Adapters : Gets(b, a, c) /\ b # a => c.kind \in {"stop", "update"}
      /\ queue["tracking"].session \in Nat /\ queue["tracking"].session <= lastSession
      /\ lastSession \in Nat /\ lastRequest \in Nat /\ c.session \in Nat
      /\ c.number = lastRequest + 1 /\ answering' = answering
  BY NewCommands
<1>3. ASSUME NEW b \in Adapters, NEW d \in Commands(b)
      PROVE  CommandFits(b, d)'
  <2>1. /\ d.session \in Nat /\ CommandFits(b, d)
        /\ d.kind # "respond" => d.session \in Sessions /\ d.session <= lastSession
    BY OldCommands
  <2>2. d.kind # "respond" => home'[d.session] = home[d.session]
    BY <1>1, <2>1 DEF CallSets
  <2>3. d.kind # "respond" /\ d.session = queue'["tracking"].session =>
          d.session = queue["tracking"].session
    BY <1>1, <1>2, <2>1 DEF CallFits
  <2>4. d.kind # "respond" /\ d.session \in KnownSessions' => d.session \in KnownSessions
    BY <1>1, <1>2, <2>1 DEF CallSets, CallFits
  <2>5. d.kind # "respond" => d.session <= lastSession'
    BY <1>1, <1>2, <2>1 DEF CallFits
  <2> QED BY <2>1, <2>2, <2>3, <2>4, <2>5 DEF CommandFits
<1>4. ASSUME NEW b \in Adapters, Gets(b, a, c)
      PROVE  CommandFits(b, c)'
  <2>1. c.kind = "respond" => b = "gnss"
    BY <1>2, <1>4 DEF Called
  <2>2. c.kind # "respond" => 0 < c.session /\ c.session <= lastSession'
    BY <1>1 DEF CallFits
  <2>3. c.kind # "respond" /\ c.mode # "fix" => b = "flp" /\ home'[c.session] = "flp"
    BY <1>4 DEF Called, Gets
  <2>4. c.kind # "respond" /\ c.session = queue'["tracking"].session => c.mode = "fix"
    <3>1. q = "tracking" => c.mode = "fix"
      BY <1>1 DEF CallFits
    <3>2. ASSUME q = "session" PROVE c.session # queue'["tracking"].session
      <4>1. queue'["tracking"].session = queue["tracking"].session
        BY <1>1, <3>2 DEF CallFits
      <4>2. CASE c.kind = "start"
        BY <1>1, <1>2, <4>1, <4>2 DEF CallFits
      <4>3. CASE c.kind # "start"
        BY <1>1, <3>2, <4>1, <4>3 DEF CallFits, Apart
      <4> QED BY <4>2, <4>3
    <3>3. q = "ni" => c.kind = "respond"
      BY <1>1 DEF CallFits
    <3> QED BY <3>1, <3>2, <3>3, Constants
  <2>5. c.kind = "start" => home'[c.session] = b
    BY <1>2, <1>4 DEF Called
  <2>6. c.kind \in {"start", "update"} => c.mode # "none"
    BY DEF Called
  <2> QED BY <1>2, <2>1, <2>2, <2>3, <2>4, <2>5, <2>6 DEF CommandFits
<1>5. ASSUME NEW b \in Adapters, NEW x, ExchangedStop(b, c, x)
      PROVE  CommandFits(b, x)'
  <2>1. x.session <= lastSession' /\ home'[x.session] = home[x.session]
    BY <1>1, <1>2, <1>5, Constants DEF CallFits, CallSets
  <2>2. x.session # queue'["tracking"].session
    BY <1>1, <1>2, <1>5, Constants DEF CallFits
  <2> QED BY <1>2, <1>5, <2>1, <2>2 DEF CommandFits, ExchangedStop
<1>6. ASSUME NEW b \in Adapters
      PROVE  /\ \A d \in Commands(b)' : CommandFits(b, d)'
             /\ ClientBusy(b)' => AnswererOf(answering[b].command)' = b
  <2>1. \A d \in Commands(b)' : CommandFits(b, d)'
    BY <1>1, <1>3, <1>4, <1>5 DEF CallSets, IsNew
  <2>2. ASSUME ClientBusy(b)'
        PROVE  AnswererOf(answering[b].command)' = b
    <3> DEFINE d == answering[b].command
    <3>1. ClientBusy(b) /\ answering' = answering
      BY <1>1, <1>2, <2>2 DEF CallSets
    <3>2. d \in Commands(b) /\ AnswererOf(d) = b
      BY <3>1 DEF Base, CommandsFit, Commands
    <3>3. d.kind # "respond" => home'[d.session] = home[d.session]
      BY <1>1, <3>2, OldCommands DEF CallSets
    <3> QED BY <3>1, <3>2, <3>3 DEF AnswererOf
  <2> QED BY <2>1, <2>2
<1> QED BY <1>6 DEF CommandsFit

LEMMA CallKeepsSessionsFit ==
  ASSUME Base, ClientTypeOK', NEW a \in Adapters, NEW q \in Queues,
         NEW c \in CommandRecords, NEW r \in RequestRecords, Called(a, q, c, r)
  PROVE  ClientSessionsFit'
<1>1. CallSets(a, q, c, r) /\ CallFits(a, q, c) /\ Typed /\ Typed' /\ ClientSessionsFit
  BY CallChanges, CallSession, TypesHold, TypesHoldNext DEF Base
<1>2. /\ queue["tracking"].session \in Nat /\ queue["tracking"].session <= lastSession
      /\ lastSession \in Nat /\ c.session \in Nat /\ running' = running
      /\ Pushed(q, r) \/ queue'[q].requests = <<r>>
      /\ \A p \in Queues : p # q => queue'[p] = queue[p]
  BY NewCommands
<1>3. queue'["tracking"].session <= lastSession'
  BY <1>1, <1>2 DEF CallFits
<1>4. queue'["tracking"].session = NoSession => queue'["tracking"].requests = <<>>
  <2>1. CASE q = "tracking"
    BY <1>1, <2>1, Constants DEF CallFits
  <2>2. CASE q # "tracking"
    BY <1>1, <1>2, <2>2, Constants DEF ClientSessionsFit
  <2> QED BY <2>1, <2>2
<1>5. \A i \in Ids : /\ dict[i].session \in Nat /\ dict'[i] \in Entities
                     /\ dict[i] # NoEntity => dict[i].session \in Sessions
                     /\ dict'[i] # NoEntity => dict'[i].session \in Sessions
  BY <1>1, EntityFields DEF Typed
<1>6. \A i \in Ids : dict[i] # NoEntity =>
        /\ dict[i].session <= lastSession /\ dict[i].session <= lastSession'
        /\ (dict[i].mode # "fix" => home'[dict[i].session] = "flp")
  <2>1. ASSUME NEW i \in Ids, dict[i] # NoEntity
        PROVE  /\ dict[i].session <= lastSession /\ dict[i].session <= lastSession'
               /\ (dict[i].mode # "fix" => home'[dict[i].session] = "flp")
    <3>1. /\ dict[i].session <= lastSession /\ dict[i].session \in Sessions
          /\ (dict[i].mode # "fix" => home[dict[i].session] = "flp")
      BY <1>1, <1>5, <2>1 DEF ClientSessionsFit
    <3>2. home'[dict[i].session] = home[dict[i].session]
      BY <1>1, <3>1 DEF CallSets
    <3> QED BY <1>1, <1>2, <1>5, <3>1, <3>2 DEF CallFits
  <2> QED BY <2>1
<1>7. /\ \A i \in Ids : dict'[i] # NoEntity =>
           dict'[i].session <= lastSession'
           /\ (dict'[i].mode # "fix" => home'[dict'[i].session] = "flp")
      /\ \A i, j \in Ids : dict'[i].session = dict'[j].session /\ dict'[i] # NoEntity => i = j
  <2>1. CASE dict' = dict
    BY <1>1, <1>6, <2>1 DEF ClientSessionsFit
  <2>2. CASE q = "session" /\ SessionCall(a, c, r)
    <3>1. PICK k \in Ids :
            /\ \A j \in Ids : j # k => dict'[j] = dict[j]
            /\ dict'[k].session = c.session /\ c.session > 0
            /\ c.kind # "start" => \A j \in Ids : dict[j].session = c.session => j = k
            /\ IF c.kind = "stop" THEN dict'[k] = dict[k] ELSE dict'[k].mode = c.mode
      BY <2>2 DEF SessionCall
    <3>2. dict'[k].mode # "fix" => home'[dict'[k].session] = "flp"
      <4>1. CASE c.kind = "stop"
        <5>1. dict'[k] = dict[k] /\ dict[k] # NoEntity
          BY <3>1, <4>1 DEF NoEntity, NoSession
        <5> QED BY <1>6, <5>1
      <4>2. CASE c.kind # "stop"
        BY <1>1, <2>2, <3>1, <4>2 DEF Called, CallFits
      <4> QED BY <4>1, <4>2
    <3>3. c.session <= lastSession'
      BY <1>1, <2>2 DEF CallFits
    <3>4. \A j \in Ids : dict[j].session = c.session => j = k
      <4>1. CASE c.kind = "start"
        <5>1. \A j \in Ids : dict[j] = NoEntity => dict[j].session = 0
          BY DEF NoEntity, NoSession
        <5> QED BY <1>1, <1>2, <1>5, <1>6, <4>1, <5>1 DEF CallFits
      <4>2. CASE c.kind # "start"
        BY <3>1, <4>2
      <4> QED BY <4>1, <4>2
    <3>5. ASSUME NEW i \in Ids, dict'[i] # NoEntity
          PROVE  dict'[i].session <= lastSession'
                 /\ (dict'[i].mode # "fix" => home'[dict'[i].session] = "flp")
      <4>1. CASE i = k
        BY <3>1, <3>2, <3>3, <4>1
      <4>2. CASE i # k
        BY <1>6, <3>1, <3>5, <4>2
      <4> QED BY <4>1, <4>2
    <3>6. ASSUME NEW i \in Ids, NEW j \in Ids,
                 dict'[i].session = dict'[j].session, dict'[i] # NoEntity
          PROVE  i = j
      <4>1. CASE i = k \/ j = k
        BY <3>1, <3>4, <3>6, <4>1
      <4>2. CASE i # k /\ j # k
        BY <1>1, <3>1, <3>6, <4>2 DEF ClientSessionsFit
      <4> QED BY <4>1, <4>2
    <3> QED BY <3>5, <3>6
  <2> QED BY <2>1, <2>2 DEF Called, TrackingCall, NiCall
<1>8. /\ \A s \in Sessions : s > lastSession' => running'[s] = "none"
      /\ \A s \in Sessions : running'[s] \notin {"none", "fix"} => home'[s] = "flp"
  <2>1. \A s \in Sessions : running[s] # "none" => s <= lastSession
    BY <1>1, <1>2, Constants DEF ClientSessionsFit
  <2>2. \A s \in Sessions : s > lastSession' => running[s] = "none"
    BY <1>1, <1>2, Constants DEF CallFits, ClientSessionsFit
  <2> QED BY <1>1, <1>2, <2>1, <2>2 DEF CallSets, ClientSessionsFit
<1> QED BY <1>3, <1>4, <1>7, <1>8 DEF ClientSessionsFit

LEMMA CallKeepsStartsFirst ==
  ASSUME Base, ClientTypeOK', NEW a \in Adapters, NEW q \in Queues,
         NEW c \in CommandRecords, NEW r \in RequestRecords, Called(a, q, c, r)
  PROVE  StartsFirst'
<1>1. CallSets(a, q, c, r) /\ CallFits(a, q, c) /\ Typed /\ StartsFirst
  BY CallChanges, CallSession, TypesHold DEF Base
<1>2. /\ \A b \in Adapters : \A x : ExchangedStop(b, c, x) =>
           /\ x \in CommandRecords /\ x.kind = "stop" /\ x.session <= lastSession
           /\ x.session \in Sessions
      /\ \A b \in Adapters : Gets(b, a, c) /\ b # a => c.kind \in {"stop", "update"}
      /\ lastSession \in Nat /\ c.session \in Nat
      /\ answering' = answering /\ running' = running
  BY NewCommands
<1>3. ASSUME NEW b \in Adapters
      PROVE  FirstIn(inbox'[b])
  <2>1. FirstIn(inbox[b]) /\ inbox[b] \in Seq(CommandRecords)
    BY <1>1 DEF StartsFirst, Typed
  <2>2. c.kind = "start" =>
          \A d \in Range(inbox[b]) : d.kind # "respond" => d.session # c.session
    <3>1. \A d \in Range(inbox[b]) : d \in Commands(b)
      BY DEF Commands, Posted
    <3>2. \A d \in Range(inbox[b]) :
            d.session \in Nat /\ (d.kind # "respond" => d.session <= lastSession)
      BY <3>1, OldCommands
    <3> QED BY <1>1, <1>2, <3>2 DEF CallFits
  <2>3. PICK mid \in Seq(CommandRecords) :
          /\ mid = inbox[b] \/ \E x : ExchangedStop(b, c, x) /\ mid = Append(inbox[b], x)
          /\ inbox'[b] = Append(mid, c) \/ inbox'[b] = mid
    BY DEF Called, PostsTo
  <2>4. /\ FirstIn(mid)
        /\ c.kind = "start" => \A d \in Range(mid) : d.kind # "respond" => d.session # c.session
    <3>1. CASE mid = inbox[b]
      BY <2>1, <2>2, <3>1
    <3>2. ASSUME NEW x, ExchangedStop(b, c, x), mid = Append(inbox[b], x)
          PROVE  /\ FirstIn(mid)
                 /\ c.kind = "start" =>
                      \A d \in Range(mid) : d.kind # "respond" => d.session # c.session
      <4>1. x \in CommandRecords /\ x.kind = "stop" /\ x.session <= lastSession
            /\ x.session \in Sessions
        BY <1>2, <3>2
      <4>2. FirstIn(Append(inbox[b], x))
        BY <2>1, <4>1, FirstAppend
      <4>3. Range(Append(inbox[b], x)) = Range(inbox[b]) \cup {x}
        BY <2>1, <4>1, AppendElements
      <4>4. c.kind = "start" => x.session # c.session
        BY <1>1, <1>2, <4>1, Constants DEF CallFits
      <4> QED BY <2>2, <3>2, <4>2, <4>3, <4>4
    <3> QED BY <2>3, <3>1, <3>2
  <2>5. FirstIn(Append(mid, c))
    BY <2>4, FirstAppend
  <2> QED BY <2>3, <2>4, <2>5
<1>4. ASSUME NEW b \in Adapters, NEW d \in Posted(b)', d.kind = "start"
      PROVE  /\ running'[d.session] = "none"
             /\ ClientBusy(b)' /\ answering'[b].command.kind # "respond" =>
                  answering'[b].command.session # d.session
  <2>1. CASE d \in Posted(b)
    BY <1>1, <1>2, <1>4, <2>1 DEF StartsFirst, CallSets
  <2>2. CASE d = c
    <3>1. d.session > lastSession /\ d.session \in Sessions
      BY <1>1, <1>2, <1>4, <2>2 DEF CallFits
    <3>2. running[d.session] = "none"
      BY <3>1 DEF Base, ClientSessionsFit
    <3>3. ASSUME ClientBusy(b), answering[b].command.kind # "respond"
          PROVE  answering[b].command.session # d.session
      <4>1. answering[b].command \in Commands(b)
        BY <1>1, <3>3 DEF Typed
      <4>2. answering[b].command.session <= lastSession /\ answering[b].command.session \in Nat
        BY <3>3, <4>1, OldCommands
      <4> QED BY <1>2, <2>2, <3>1, <4>2
    <3> QED BY <1>1, <1>2, <3>2, <3>3 DEF CallSets
  <2>3. ~ExchangedStop(b, c, d)
    BY <1>2, <1>4
  <2> QED BY <1>1, <2>1, <2>2, <2>3 DEF CallSets, IsNew
<1> QED BY <1>3, <1>4 DEF StartsFirst

LEMMA CallKeepsNumbersFit ==
  ASSUME Base, ClientTypeOK', NEW a \in Adapters, NEW q \in Queues,
         NEW c \in CommandRecords, NEW r \in RequestRecords, Called(a, q, c, r)
  PROVE  NumbersFit'
<1>1. CallSets(a, q, c, r) /\ CallFits(a, q, c) /\ Typed
  BY CallChanges, CallSession, TypesHold DEF Base
<1>2. /\ \A b \in Adapters : \A x : ExchangedStop(b, c, x) => x.number = 0
      /\ queue["tracking"].session \in Nat /\ queue["tracking"].session <= lastSession
      /\ lastSession \in Nat /\ lastRequest \in Nat /\ c.session \in Nat
      /\ c.number = lastRequest + 1 /\ r.number = lastRequest + 1
      /\ r.from = a /\ KindFits(r, c)
      /\ \A p \in Queues : p # q => queue'[p] = queue[p]
      /\ Pushed(q, r) \/ queue'[q].requests = <<r>>
  BY NewCommands
<1>3. SUFFICES ASSUME NEW b \in Adapters, NEW p \in Queues,
                      NEW d \in Due(b)', NEW x \in Waiting(p)', d.number = x.number
               PROVE  KindFits(x, d) /\ Belongs(p, d)' /\ x.from = b
  BY DEF NumbersFit
<1>4. /\ \A y \in Waiting(p) : y.number \in Nat /\ y.number > 0 /\ y.number <= lastRequest
      /\ \A e \in Due(b) : e.number \in Nat /\ e.number <= lastRequest
  <2>1. \A y \in Waiting(p) : y.number \in Nat /\ y.number > 0 /\ y.number <= lastRequest
    BY <1>1, Numbers DEF Base, InOrder, Typed
  <2>2. Due(b) \subseteq Commands(b)
    BY <1>1 DEF Typed
  <2> QED BY <2>1, <2>2, OldCommands
<1>5. CASE d \in Due(b)
  <2>1. x \in Waiting(p)
    BY <1>1, <1>2, <1>3, <1>4, <1>5 DEF CallSets
  <2>2. KindFits(x, d) /\ Belongs(p, d) /\ x.from = b
    BY <1>3, <1>5, <2>1 DEF Base, NumbersFit
  <2>3. queue'[p].session = queue[p].session
    <3>1. p # q \/ Waiting(q)' # {r}
      BY <1>2, <1>3, <1>4, <1>5
    <3> QED BY <1>1, <1>2, <3>1 DEF CallSets, Pushed
  <2>4. CASE d.kind = "respond"
    BY <2>2, <2>3, <2>4 DEF Belongs
  <2>5. CASE d.kind # "respond"
    <3>1. d.session \in Nat /\ d.session <= lastSession
      BY <1>1, <1>5, <2>5, OldCommands DEF Typed
    <3>2. \/ queue'["tracking"].session = queue["tracking"].session
          \/ queue'["tracking"].session = lastSession + 1
      BY <1>1 DEF CallFits
    <3>3. CASE p = "tracking"
      BY <2>2, <2>3, <3>3 DEF Belongs
    <3>4. CASE p = "session"
      BY <1>2, <2>2, <3>1, <3>2, <3>4 DEF Belongs
    <3>5. p # "ni"
      BY <2>2, <2>5 DEF Belongs
    <3> QED BY <2>2, <3>3, <3>4, <3>5, Constants
  <2> QED BY <2>4, <2>5
<1>6. CASE d = c /\ b = a
  <2>1. x = r
    BY <1>1, <1>2, <1>3, <1>4, <1>6 DEF CallSets
  <2>2. p = q
    BY <1>1, <1>2, <1>3, <1>4, <1>6 DEF CallSets
  <2>3. Belongs(q, c)'
    <3>1. CASE q = "tracking"
      BY <1>1, <3>1 DEF Belongs, CallFits
    <3>2. CASE q = "ni"
      BY <1>1, <3>2 DEF Belongs, CallFits
    <3>3. CASE q = "session"
      <4>1. queue'["tracking"].session = queue["tracking"].session /\ c.kind # "respond"
        BY <1>1, <3>3 DEF CallFits
      <4>2. CASE c.kind = "start"
        BY <1>1, <1>2, <3>3, <4>1, <4>2 DEF CallFits, Belongs
      <4>3. CASE c.kind # "start"
        <5>1. c.session # queue["tracking"].session
          BY <1>1, <3>3, <4>3, KnownAreNumbered DEF CallFits
        <5> QED BY <3>3, <4>1, <5>1 DEF Belongs
      <4> QED BY <4>2, <4>3
    <3> QED BY <3>1, <3>2, <3>3, Constants
  <2> QED BY <1>2, <1>6, <2>1, <2>2, <2>3
<1>7. ~ExchangedStop(b, c, d)
  BY <1>1, <1>2, <1>3, <1>4 DEF CallSets
<1> QED BY <1>1, <1>5, <1>6, <1>7 DEF CallSets, IsNewOwn

LEMMA CallKeepsBase ==
  ASSUME Base, ClientTypeOK', NEW a \in Adapters, NEW q \in Queues,
         NEW c \in CommandRecords, NEW r \in RequestRecords, Called(a, q, c, r)
  PROVE  Base'
<1>1. CallSets(a, q, c, r) /\ CallFits(a, q, c) /\ Typed
  BY CallChanges, CallSession, TypesHold DEF Base
<1>2. /\ \A b \in Adapters : \A x : ExchangedStop(b, c, x) => x.kind = "stop"
      /\ \A b \in Adapters : Gets(b, a, c) /\ b # a => c.kind \in {"stop", "update"}
      /\ queue["tracking"].session \in Nat /\ queue["tracking"].session <= lastSession
      /\ lastSession \in Nat /\ c.session \in Nat /\ KindFits(r, c)
      /\ Pushed(q, r) \/ queue'[q].requests = <<r>>
      /\ answering' = answering /\ running' = running
  BY NewCommands
<1>3. InOrder' /\ CommandsFit' /\ ClientSessionsFit' /\ StartsFirst' /\ NumbersFit'
  BY CallKeepsInOrder, CallKeepsCommandsFit, CallKeepsSessionsFit, CallKeepsStartsFirst,
     CallKeepsNumbersFit
<1>4. UpdateFits'
  BY DEF Called, UpdateFits, MutexFree, NoUpdate
<1>5. KindsFit'
  <2>1. \A x \in Waiting("ni")' : x.kind = "respond"
    <3>1. CASE q = "ni"
      <4>1. Waiting("ni")' = {r} /\ r.kind = "respond"
        BY <1>1, <3>1 DEF Called, NiCall, Replaced, KindFits, CallSets
      <4> QED BY <4>1
    <3>2. CASE q # "ni"
      BY <1>1, <3>2, Constants DEF CallSets, Base, KindsFit
    <3> QED BY <3>1, <3>2
  <2> QED BY <1>2, <2>1 DEF Base, KindsFit
<1>6. TripsFit'
  <2>1. answering["gnss"].at # "trip"
    BY DEF Base, TripsFit
  <2>2. CASE answering["flp"].at = "trip"
    <3> DEFINE s == answering["flp"].session
    <3>1. /\ s <= lastSession /\ s # queue["tracking"].session /\ running[s] = "none"
          /\ home[s] = "flp" /\ \A d \in Posted("flp") : d.kind = "start" => d.session # s
      BY <2>2 DEF Base, TripsFit
    <3>2. s \in Sessions /\ s \in Nat
      BY <1>1, <2>2, AnsweringFields, Constants DEF Typed
    <3> HIDE DEF s
    <3>3. s <= lastSession' /\ s # queue'["tracking"].session /\ home'[s] = "flp"
      BY <1>1, <1>2, <3>1, <3>2 DEF CallFits, CallSets
    <3>4. \A d \in Posted("flp")' : d.kind = "start" => d.session # s
      BY <1>1, <1>2, <3>1, <3>2, Constants DEF CallSets, CallFits, IsNew
    <3> QED BY <1>2, <2>1, <3>1, <3>3, <3>4 DEF TripsFit, s
  <2> QED BY <1>2, <2>1, <2>2 DEF TripsFit
<1>7. Apart'
  <2>1. ASSUME queue'["tracking"].session \in KnownSessions'
        PROVE  FALSE
    <3>1. CASE q = "tracking" /\ c.kind = "start"
      <4>1. lastSession + 1 \in KnownSessions
        BY <1>1, <2>1, <3>1 DEF CallFits, CallSets
      <4> QED BY <1>2, <4>1, KnownAreNumbered
    <3>2. CASE ~(q = "tracking" /\ c.kind = "start")
      <4>1. queue["tracking"].session \in KnownSessions \/ queue["tracking"].session = lastSession + 1
        BY <1>1, <2>1, <3>2 DEF CallFits, CallSets
      <4> QED BY <1>2, <4>1 DEF Base, Apart
    <3> QED BY <3>1, <3>2
  <2> QED BY <2>1 DEF Apart
<1> QED BY <1>3, <1>4, <1>5, <1>6, <1>7 DEF Base

LEMMA HandledKeepsBase ==
  ASSUME Base, ClientTypeOK', NEW a \in Adapters, NEW c \in Posted(a), Handled(a, c)
  PROVE  Base'
<1>1. Typed /\ Typed' /\ HandledSets(a, c) /\ c \in Commands(a)
  BY TypesHold, TypesHoldNext, HandledChanges DEF Base, Typed
<1>2. /\ UNCHANGED <<queue, dict, updating, home, lastSession, lastRequest>>
      /\ inbox[a] \in Seq(CommandRecords) /\ inbox[a] # <<>> /\ inbox'[a] = Tail(inbox[a])
      /\ c = Head(inbox[a]) /\ answering[a].at = "idle"
      /\ \A b \in Adapters : b # a => inbox'[b] = inbox[b] /\ answering'[b] = answering[b]
  BY <1>1 DEF Handled, Typed
<1>3. /\ answering'[a].at \in {"idle", "answer"}
      /\ answering'[a].at = "answer" => answering'[a].command = c /\ AnswererOf(c) = a
  BY <1>2 DEF Handled, Unanswered, Answered
<1>4. /\ CommandFits(a, c) /\ c \in CommandRecords /\ c.number \in Nat /\ lastSession \in Nat
      /\ c.kind # "respond" => c.session \in Sessions /\ c.session <= lastSession
  BY <1>1, OldCommands
<1>5. \A s \in Sessions :
        \/ running'[s] = running[s]
        \/ /\ s = c.session /\ c.kind # "respond" /\ home[s] = a
           /\ running'[s] \in {"none", c.mode}
           /\ running'[s] # "none" => c.kind \in {"start", "update"}
  <2>1. CASE Unanswered(a, c)
    BY <2>1 DEF Unanswered
  <2>2. ASSUME NEW error \in BOOLEAN, Answered(a, c, error)
        PROVE  \A s \in Sessions :
                 \/ running'[s] = running[s]
                 \/ /\ s = c.session /\ c.kind # "respond" /\ home[s] = a
                    /\ running'[s] \in {"none", c.mode}
                    /\ running'[s] # "none" => c.kind \in {"start", "update"}
    BY <1>4, <2>2, CommandFields DEF Answered, AnswererOf
  <2> QED BY <2>1, <2>2 DEF Handled
<1>6. InOrder'
  <2>1. ASSUME NEW b \in Adapters
        PROVE  /\ Increasing(inbox'[b])
               /\ \A d \in Commands(b)' : d.number <= lastRequest'
               /\ answering'[b].at = "answer" =>
                    \A d \in Posted(b)' : d.number > 0 => answering'[b].command.number < d.number
    <3>1. \A d \in Commands(b)' : d.number <= lastRequest'
      BY <1>1, <1>2 DEF HandledSets, Base, InOrder
    <3>2. CASE b # a
      BY <1>1, <1>2, <3>1, <3>2 DEF Base, InOrder, HandledSets
    <3>3. CASE b = a
      <4>1. Increasing(inbox[a])
        BY DEF Base, InOrder
      <4>2. /\ Increasing(Tail(inbox[a]))
            /\ \A x \in Range(Tail(inbox[a])) :
                 Head(inbox[a]).number > 0 /\ x.number > 0 => Head(inbox[a]).number < x.number
        BY <1>2, <4>1, Numbers, IncreasingTail
      <4> QED BY <1>2, <1>3, <1>4, <3>1, <3>3, <4>2 DEF Posted
    <3> QED BY <3>2, <3>3
  <2>2. \A p \in Queues : Increasing(queue'[p].requests)
                          /\ \A x \in Waiting(p)' : x.number <= lastRequest'
    BY <1>1, <1>2 DEF HandledSets, Base, InOrder
  <2> QED BY <2>1, <2>2 DEF InOrder
<1>7. CommandsFit'
  <2>1. ASSUME NEW b \in Adapters, NEW d \in Commands(b)'
        PROVE  CommandFits(b, d)'
    BY <1>1, <1>2 DEF HandledSets, Base, CommandsFit, CommandFits
  <2>2. ASSUME NEW b \in Adapters, ClientBusy(b)'
        PROVE  AnswererOf(answering[b].command)' = b
    <3>1. CASE b = a
      <4>1. answering'[a].command = c /\ AnswererOf(c) = a
        BY <1>3, <2>2, <3>1 DEF ClientBusy
      <4> QED BY <1>2, <3>1, <4>1 DEF AnswererOf
    <3>2. CASE b # a
      <4>1. ClientBusy(b) /\ answering'[b] = answering[b]
        BY <1>1, <1>2, <2>2, <3>2 DEF HandledSets
      <4>2. AnswererOf(answering[b].command) = b
        BY <4>1 DEF Base, CommandsFit
      <4> QED BY <1>2, <4>1, <4>2 DEF AnswererOf
    <3> QED BY <3>1, <3>2
  <2> QED BY <2>1, <2>2 DEF CommandsFit
<1>8. KindsFit'
  <2>1. \A x \in Waiting("ni")' : x.kind = "respond"
    BY <1>1, Constants DEF HandledSets, Base, KindsFit
  <2>2. \A b \in Adapters : answering'[b].at = "call" => answering'[b] = answering[b]
    BY <1>2, <1>3
  <2> QED BY <2>1, <2>2 DEF Base, KindsFit
<1>9. ClientSessionsFit'
  <2>1. ASSUME NEW s \in Sessions
        PROVE  /\ s > lastSession => running'[s] = "none"
               /\ running'[s] \notin {"none", "fix"} => home[s] = "flp"
    <3>1. CASE running'[s] = running[s]
      BY <3>1 DEF Base, ClientSessionsFit
    <3>2. CASE s = c.session /\ c.kind # "respond" /\ running'[s] \in {"none", c.mode}
      BY <1>4, <3>2, Constants DEF CommandFits
    <3> QED BY <1>5, <3>1, <3>2
  <2> QED BY <1>2, <2>1 DEF Base, ClientSessionsFit
<1>10. UpdateFits'
  BY <1>2 DEF Base, UpdateFits, MutexFree
<1>11. TripsFit'
  <2>1. answering'["gnss"].at # "trip"
    BY <1>2, <1>3, Constants DEF Base, TripsFit
  <2>2. CASE answering'["flp"].at = "trip"
    <3>1. a = "gnss" /\ answering'["flp"] = answering["flp"] /\ answering["flp"].at = "trip"
      BY <1>2, <1>3, <2>2, Constants
    <3> DEFINE s == answering["flp"].session
    <3>2. /\ s \in Sessions /\ s <= lastSession /\ s # queue["tracking"].session
          /\ running[s] = "none" /\ home[s] = "flp"
          /\ \A d \in Posted("flp") : d.kind = "start" => d.session # s
      BY <1>1, <3>1, AnsweringFields, Constants DEF Typed, Base, TripsFit
    <3>3. running'[s] = "none"
      BY <1>5, <3>1, <3>2
    <3>4. \A d \in Posted("flp")' : d.kind = "start" => d.session # s
      BY <1>1, <3>2, Constants DEF HandledSets
    <3> QED BY <1>2, <2>1, <3>1, <3>2, <3>3, <3>4 DEF TripsFit
  <2> QED BY <2>1, <2>2 DEF TripsFit
<1>12. Apart'
  BY <1>1, <1>2 DEF HandledSets, Base, Apart
<1>13. StartsFirst'
  <2>1. ASSUME NEW b \in Adapters
        PROVE  FirstIn(inbox'[b])
    BY <1>2, FirstTail DEF Base, StartsFirst
  <2>2. ASSUME NEW b \in Adapters, NEW d \in Posted(b)', d.kind = "start"
        PROVE  /\ running'[d.session] = "none"
               /\ ClientBusy(b)' /\ answering'[b].command.kind # "respond" =>
                    answering'[b].command.session # d.session
    <3>1. /\ d \in Posted(b) /\ running[d.session] = "none" /\ d.session \in Sessions
          /\ home[d.session] = b
      <4>1. d \in Posted(b) /\ d \in Commands(b)
        BY <1>1 DEF HandledSets, Typed
      <4>2. d.session \in Sessions /\ CommandFits(b, d)
        BY <2>2, <4>1, OldCommands
      <4> QED BY <2>2, <4>1, <4>2 DEF Base, StartsFirst, CommandFits
    <3>2. b = a /\ c.kind # "respond" => c.session # d.session
      BY <1>2, <2>2, FirstTail DEF Posted, Base, StartsFirst
    <3>3. running'[d.session] = "none"
      BY <1>5, <3>1, <3>2
    <3>4. CASE b = a
      BY <1>3, <3>2, <3>3, <3>4 DEF ClientBusy
    <3>5. CASE b # a
      BY <1>1, <1>2, <2>2, <3>1, <3>3, <3>5 DEF HandledSets, Base, StartsFirst
    <3> QED BY <3>4, <3>5
  <2> QED BY <2>1, <2>2 DEF StartsFirst
<1>14. NumbersFit'
  BY <1>1, <1>2 DEF HandledSets, Base, NumbersFit, Belongs
<1> QED BY <1>6, <1>7, <1>8, <1>9, <1>10, <1>11, <1>12, <1>13, <1>14 DEF Base

LEMMA FoundKeepsBase ==
  ASSUME Base, ClientTypeOK', NEW a \in Adapters, NEW c \in Due(a), Found(a, c)
  PROVE  Base'
<1>1. Typed /\ Typed' /\ FoundSets(a, c)
  BY TypesHold, TypesHoldNext, FoundChanges DEF Base
<1>2. /\ UNCHANGED <<dict, inbox, updating, home, running, lastSession, lastRequest>>
      /\ answering[a].at = "answer" /\ c = answering[a].command
      /\ \A b \in Adapters : b # a => answering'[b] = answering[b]
      /\ answering'[a].at \in {"idle", "call"}
  BY DEF Found, FoundNone, FoundIn, NotAnswering
<1>3. InOrder'
  <2>1. ASSUME NEW p \in Queues
        PROVE  Increasing(queue'[p].requests)
    <3>1. Increasing(queue[p].requests) /\ queue[p].requests \in Seq(RequestRecords)
      BY <1>1 DEF Base, InOrder, Typed
    <3>2. ASSUME NEW q \in Queues, FoundIn(a, c, q)
          PROVE  Increasing(queue'[p].requests)
      <4>1. queue[p].requests # <<>> => Increasing(Tail(queue[p].requests))
        BY <3>1, Numbers, IncreasingTail
      <4> QED BY <3>1, <3>2, <4>1 DEF FoundIn
    <3>3. CASE FoundNone(a, c)
      BY <3>1, <3>3 DEF FoundNone
    <3> QED BY <3>2, <3>3 DEF Found
  <2>2. \A p \in Queues : \A x \in Waiting(p)' : x.number <= lastRequest'
    BY <1>1, <1>2 DEF FoundSets, Base, InOrder
  <2>3. ASSUME NEW b \in Adapters
        PROVE  /\ Increasing(inbox'[b])
               /\ \A d \in Commands(b)' : d.number <= lastRequest'
               /\ answering'[b].at = "answer" =>
                    \A d \in Posted(b)' : d.number > 0 => answering'[b].command.number < d.number
    <3>1. /\ Increasing(inbox'[b]) /\ \A d \in Commands(b)' : d.number <= lastRequest'
      BY <1>1, <1>2 DEF FoundSets, Base, InOrder
    <3>2. answering'[b].at = "answer" => b # a
      BY <1>2
    <3> QED BY <1>1, <1>2, <3>1, <3>2 DEF FoundSets, Base, InOrder
  <2> QED BY <2>1, <2>2, <2>3 DEF InOrder
<1>4. CommandsFit'
  <2>1. ASSUME NEW b \in Adapters, NEW d \in Commands(b)'
        PROVE  CommandFits(b, d)'
    BY <1>1, <1>2, Constants DEF FoundSets, Base, CommandsFit, CommandFits
  <2>2. ASSUME NEW b \in Adapters, ClientBusy(b)'
        PROVE  AnswererOf(answering[b].command)' = b
    <3>1. ClientBusy(b) /\ answering'[b].command = answering[b].command
      BY <1>1, <2>2 DEF FoundSets
    <3>2. AnswererOf(answering[b].command) = b
      BY <3>1 DEF Base, CommandsFit
    <3> QED BY <1>2, <3>1, <3>2 DEF AnswererOf
  <2> QED BY <2>1, <2>2 DEF CommandsFit
<1>5. KindsFit'
  <2>1. \A x \in Waiting("ni")' : x.kind = "respond"
    BY <1>1, Constants DEF FoundSets, Base, KindsFit
  <2>2. ASSUME NEW b \in Adapters, answering'[b].at = "call"
        PROVE  answering'[b].request.kind = "respond" \/ answering'[b].command.session \in Sessions
    <3>1. CASE b # a
      BY <1>2, <2>2, <3>1 DEF Base, KindsFit
    <3>2. CASE b = a
      <4>1. PICK q \in Queues : FoundIn(a, c, q)
        BY <2>2, <3>2 DEF Found, FoundNone, NotAnswering
      <4>2. CASE q = "ni"
        BY <1>1, <3>2, <4>1, <4>2 DEF FoundIn, FoundSets, Base, KindsFit
      <4>3. CASE q = "tracking"
        <5>1. c.session = queue["tracking"].session /\ queue["tracking"].requests # <<>>
          BY <4>1, <4>3 DEF FoundIn, QueueOf
        <5>2. c.session <= lastSession /\ c.session # NoSession
          BY <5>1 DEF Base, ClientSessionsFit
        <5>3. c \in CommandRecords /\ lastSession \in 0..MaxSessions
          BY <1>1 DEF FoundSets, Typed
        <5>4. c.session \in Sessions
          BY <5>2, <5>3, CommandFields, Constants
        <5> QED BY <3>2, <4>1, <5>4 DEF FoundIn
      <4>4. CASE q = "session"
        <5>1. c.session \in DictSessions
          BY <4>1, <4>4 DEF FoundIn, QueueOf
        <5> QED BY <1>1, <3>2, <4>1, <5>1 DEF FoundIn, Typed
      <4> QED BY <4>2, <4>3, <4>4, Constants
    <3> QED BY <3>1, <3>2
  <2> QED BY <2>1, <2>2 DEF KindsFit
<1>6. ClientSessionsFit'
  <2>1. queue["tracking"].requests = <<>> => queue'["tracking"].requests = <<>>
    BY Constants DEF Found, FoundNone, FoundIn
  <2> QED BY <1>1, <1>2, <2>1, Constants DEF FoundSets, Base, ClientSessionsFit
<1>7. UpdateFits'
  BY <1>2 DEF Base, UpdateFits, MutexFree
<1>8. TripsFit'
  <2>1. ASSUME NEW b \in Adapters, answering'[b].at = "trip"
        PROVE  answering'[b] = answering[b]
    BY <1>2, <2>1
  <2> QED BY <1>1, <1>2, <2>1, Constants DEF FoundSets, Base, TripsFit
<1>9. Apart'
  BY <1>1, Constants DEF FoundSets, Base, Apart
<1>10. StartsFirst'
  BY <1>1, <1>2 DEF FoundSets, Base, StartsFirst
<1>11. NumbersFit'
  BY <1>1, <1>2, Constants DEF FoundSets, Base, NumbersFit, Belongs
<1> QED BY <1>3, <1>4, <1>5, <1>6, <1>7, <1>8, <1>9, <1>10, <1>11 DEF Base

LEMMA EndsKeepsBase ==
  ASSUME Base, ClientTypeOK', Ends,
         \/ \E a \in Adapters : \E c, r : Delivered(a, c, r)
         \/ \E s \in Sessions : TripOver(s) \/ TripGone(s)
  PROVE  Base'
<1>1. Typed /\ Typed'
  BY TypesHold, TypesHoldNext DEF Base
<1>2. ASSUME NEW b \in Adapters, answering'[b].at \in {"answer", "call"}
      PROVE  answering'[b] = answering[b]
  BY <1>2 DEF Ends
<1>3. InOrder'
  BY <1>2 DEF Ends, Base, InOrder
<1>4. CommandsFit'
  <2>1. ASSUME NEW b \in Adapters, NEW d \in Commands(b)'
        PROVE  CommandFits(b, d)'
    BY DEF Ends, Base, CommandsFit, CommandFits
  <2>2. ASSUME NEW b \in Adapters, ClientBusy(b)'
        PROVE  AnswererOf(answering[b].command)' = b
    BY <2>2 DEF Ends, Base, CommandsFit, AnswererOf
  <2> QED BY <2>1, <2>2 DEF CommandsFit
<1>5. KindsFit'
  BY <1>2, Constants DEF Ends, Base, KindsFit
<1>6. \A i \in Ids : /\ dict[i] \in Entities /\ dict'[i] \in Entities
                     /\ dict'[i] # NoEntity => dict'[i] = dict[i]
  BY <1>1 DEF Typed, Ends
<1>7. ClientSessionsFit'
  <2>1. \A i, j \in Ids : dict'[i].session = dict'[j].session /\ dict'[i] # NoEntity => i = j
    <3>1. SUFFICES ASSUME NEW i \in Ids, NEW j \in Ids,
                          dict'[i].session = dict'[j].session, dict'[i] # NoEntity
                   PROVE  i = j
      OBVIOUS
    <3>2. dict'[j] # NoEntity
      BY <1>6, <3>1, EntityFields
    <3> QED BY <1>6, <3>1, <3>2 DEF Base, ClientSessionsFit
  <2>2. \A i \in Ids : dict'[i] # NoEntity =>
          dict'[i].session <= lastSession'
          /\ (dict'[i].mode # "fix" => home'[dict'[i].session] = "flp")
    BY <1>6 DEF Ends, Base, ClientSessionsFit
  <2>3. /\ queue'["tracking"].session <= lastSession'
        /\ queue'["tracking"].session = NoSession => queue'["tracking"].requests = <<>>
        /\ \A s \in Sessions : s > lastSession' => running'[s] = "none"
        /\ \A s \in Sessions : running'[s] \notin {"none", "fix"} => home'[s] = "flp"
    BY DEF Ends, Base, ClientSessionsFit
  <2> QED BY <2>1, <2>2, <2>3 DEF ClientSessionsFit
<1>8. UpdateFits'
  <2>1. SUFFICES ASSUME ~MutexFree
                 PROVE  /\ updating.session <= lastSession
                        /\ updating.mode # "fix" => home[updating.session] = "flp"
                        /\ dict'[updating.id].session \in {NoSession, updating.session}
                        /\ \A i \in Ids : dict'[i].session = updating.session => i = updating.id
    BY DEF UpdateFits, Ends, MutexFree
  <2>2. /\ updating.session <= lastSession /\ updating.id \in Ids /\ updating.session > 0
        /\ updating.mode # "fix" => home[updating.session] = "flp"
        /\ dict[updating.id].session \in {NoSession, updating.session}
        /\ \A i \in Ids : dict[i].session = updating.session => i = updating.id
    BY <2>1, UpdatingFields
  <2>3. \A i \in Ids : dict'[i] = dict[i] \/ dict'[i].session = NoSession
    BY <1>6, EntityFields
  <2> QED BY <2>2, <2>3, Constants
<1>9. TripsFit'
  <2>1. answering'["gnss"].at # "trip"
    <3>1. ASSUME NEW b \in Adapters, NEW c, NEW r, Delivered(b, c, r)
          PROVE  answering'["gnss"].at \in {answering["gnss"].at, "idle"}
      BY <3>1, Constants DEF Delivered, NotAnswering
    <3>2. ASSUME NEW s \in Sessions, TripOver(s) \/ TripGone(s)
          PROVE  answering'["gnss"].at = answering["gnss"].at
      BY <3>2 DEF TripOver, TripGone
    <3> QED BY <3>1, <3>2 DEF Base, TripsFit
  <2>2. CASE answering'["flp"].at = "trip"
    <3> DEFINE s == answering'["flp"].session
    <3>1. CASE answering["flp"].at = "trip" /\ answering'["flp"] = answering["flp"]
      <4>1. s \in Sessions
        BY <1>1, <3>1, AnsweringFields, Constants DEF Typed
      <4> QED BY <2>1, <3>1, <4>1, Constants DEF Base, TripsFit, Ends
    <3>2. ASSUME NEW t \in Sessions, TripOver(t), t = s, t \in DictSessions
          PROVE  TripsFit'
      <4>1. t <= lastSession /\ t # queue["tracking"].session
        BY <3>2, KnownAreNumbered DEF KnownSessions
      <4>2. running[t] = "trip" /\ running'[t] = "none"
        BY <3>2 DEF TripOver
      <4>3. \A d \in Posted("flp") : d.kind = "start" => d.session # t
        BY <4>2, Constants DEF Base, StartsFirst
      <4>4. home[t] = "flp"
        BY <4>2 DEF Base, ClientSessionsFit
      <4> QED BY <2>1, <3>2, <4>1, <4>2, <4>3, <4>4, Constants DEF TripsFit, Ends
    <3>3. \/ answering["flp"].at = "trip" /\ answering'["flp"] = answering["flp"]
          \/ \E t \in Sessions : TripOver(t) /\ t = s /\ t \in DictSessions
      <4>1. ASSUME NEW b \in Adapters, NEW c, NEW r, Delivered(b, c, r)
            PROVE  answering'["flp"] = answering["flp"]
        BY <2>2, <4>1, Constants DEF Delivered, NotAnswering
      <4>2. ASSUME NEW t \in Sessions, TripOver(t)
            PROVE  answering'["flp"] = answering["flp"] \/ (t = s /\ t \in DictSessions)
        BY <4>2 DEF TripOver
      <4>3. ASSUME NEW t \in Sessions, TripGone(t)
            PROVE  FALSE
        BY <2>2, <4>3 DEF TripGone, NotAnswering
      <4> QED BY <2>2, <4>1, <4>2, <4>3
    <3> QED BY <3>1, <3>2, <3>3
  <2> QED BY <2>1, <2>2 DEF TripsFit
<1>10. Apart'
  BY Constants DEF Ends, Base, Apart
<1>11. StartsFirst'
  <2>1. ASSUME NEW b \in Adapters
        PROVE  FirstIn(inbox'[b])
    BY DEF Ends, Base, StartsFirst
  <2>2. ASSUME NEW b \in Adapters, NEW d \in Posted(b)', d.kind = "start"
        PROVE  /\ running'[d.session] = "none"
               /\ ClientBusy(b)' /\ answering'[b].command.kind # "respond" =>
                    answering'[b].command.session # d.session
    <3>1. d \in Posted(b) /\ running[d.session] = "none"
      BY <2>2 DEF Ends, Base, StartsFirst
    <3>2. d.session \in Sessions
      BY <1>1, <2>2, <3>1, OldCommands DEF Typed
    <3>3. running'[d.session] = "none"
      BY <3>1, <3>2 DEF Ends
    <3> QED BY <2>2, <3>1, <3>3 DEF Ends, Base, StartsFirst
  <2> QED BY <2>1, <2>2 DEF StartsFirst
<1>12. NumbersFit'
  BY DEF Ends, Base, NumbersFit, Belongs
<1> QED BY <1>3, <1>4, <1>5, <1>7, <1>8, <1>9, <1>10, <1>11, <1>12 DEF Base

LEMMA BeginKeepsBase ==
  ASSUME Base, ClientTypeOK', UpdateBegins
  PROVE  Base'
<1>1. BeginSets /\ Typed
  BY BeginChanges, TypesHold DEF Base
<1>2. UpdateFits'
  <2>1. PICK i \in Ids : /\ dict[i] # NoEntity
                         /\ updating' = [id |-> i, session |-> dict[i].session,
                                         mode |-> dict[i].mode]
    BY DEF UpdateBegins
  <2>2. /\ updating'.id = i /\ updating'.session = dict[i].session
        /\ updating'.mode = dict[i].mode
    BY <2>1
  <2>3. /\ dict[i].session <= lastSession
        /\ dict[i].mode # "fix" => home[dict[i].session] = "flp"
        /\ \A j \in Ids : dict[j].session = dict[i].session => j = i
    BY <2>1 DEF Base, ClientSessionsFit
  <2> QED BY <1>1, <2>2, <2>3 DEF UpdateFits, BeginSets
<1>3. InOrder'
  BY <1>1 DEF BeginSets, Base, InOrder
<1>4. CommandsFit'
  <2>1. ASSUME NEW b \in Adapters, NEW d \in Commands(b)'
        PROVE  CommandFits(b, d)'
    BY <1>1 DEF BeginSets, Base, CommandsFit, CommandFits
  <2>2. ASSUME NEW b \in Adapters, ClientBusy(b)'
        PROVE  AnswererOf(answering[b].command)' = b
    BY <1>1, <2>2 DEF BeginSets, Base, CommandsFit, AnswererOf
  <2> QED BY <2>1, <2>2 DEF CommandsFit
<1>5. KindsFit' /\ ClientSessionsFit' /\ TripsFit' /\ Apart'
  BY <1>1, Constants DEF BeginSets, Base, KindsFit, ClientSessionsFit, TripsFit, Apart
<1>6. StartsFirst'
  BY <1>1 DEF BeginSets, Base, StartsFirst
<1>7. NumbersFit'
  BY <1>1 DEF BeginSets, Base, NumbersFit, Belongs
<1> QED BY <1>2, <1>3, <1>4, <1>5, <1>6, <1>7 DEF Base

-----------------------------------------------------------------------------
(* Until a queue is out of step, answers find their requests.              *)

LEMMA NothingTracked ==
  ASSUME Base, queue["tracking"].session \notin Sessions
  PROVE  queue["tracking"].session = NoSession /\ Waiting("tracking") = {}
<1>1. queue["tracking"].session = NoSession
  <2>1. /\ queue["tracking"].session <= lastSession /\ queue["tracking"].session \in Nat
        /\ lastSession \in 0..MaxSessions
    BY TypesHold, Constants DEF Base, ClientSessionsFit, Typed
  <2> QED BY <2>1, Constants
<1>2. queue["tracking"].requests = <<>>
  BY <1>1 DEF Base, ClientSessionsFit
<1> QED BY <1>1, <1>2 DEF Waiting, Range

LEMMA CallKeepsMatching ==
  ASSUME Base, Base', Matching, ~outOfStep', NEW a \in Adapters, NEW q \in Queues,
         NEW c \in CommandRecords, NEW r \in RequestRecords, Called(a, q, c, r)
  PROVE  Matching'
<1>1. Typed /\ Typed' /\ CallSets(a, q, c, r) /\ CallFits(a, q, c)
  BY TypesHold, TypesHoldNext, CallChanges, CallSession DEF Base
<1>2. /\ c.number = lastRequest + 1 /\ r.number = lastRequest + 1 /\ lastRequest \in Nat
      /\ r.from = a /\ \A p \in Queues : p # q => queue'[p] = queue[p]
      /\ running' = running
      /\ \A b \in Adapters : answering'[b] = answering[b]
      /\ \A b, x : ExchangedStop(b, c, x) => x.number = 0 /\ x.kind = "stop"
  BY <1>1 DEF Called, Typed, adapterVars, ExchangedStop
<1>3. /\ queue["tracking"].session <= lastSession /\ lastSession \in Nat
      /\ queue["tracking"].session \in Nat
      /\ c.kind = "start" => c.session = lastSession + 1
      /\ \A b \in Adapters : \A d \in Due(b) :
           d \in Commands(b) /\ AnswererOf(d) = b /\ (d.kind # "respond" => d.session <= lastSession)
  BY <1>1, DueAreOwn, SessionsOfCommands, Constants
     DEF Base, ClientSessionsFit, Typed, CallFits
<1>4. \/ q = "tracking" /\ c.kind = "start" /\ Replaced(q, r, c.session)
      \/ q = "ni" /\ NiCall(c, r)
      \/ q \in {"tracking", "session"} /\ Pushed(q, r)
  BY DEF Called, TrackingCall, SessionCall
<1>5. CallsFit'
  BY <1>2 DEF Matching, CallsFit, KindFits
<1>6. CommandsWait'
  <2>1. SUFFICES ASSUME NEW b \in Adapters, NEW d \in Due(b)', NEW p \in Queues,
                        d.number > 0, Seeks(p, d)'
                 PROVE  \E x \in Waiting(p)' : x.number = d.number
    BY DEF CommandsWait
  <2>2. CASE d = c
    <3>1. p = q
      <4>1. CASE q = "ni"
        BY <1>1, <2>1, <2>2, <4>1 DEF Seeks, Belongs, CallFits
      <4>2. CASE q = "tracking"
        BY <1>1, <2>1, <2>2, <4>2 DEF Seeks, Belongs, CallFits
      <4>3. CASE q = "session"
        <5>1. queue'["tracking"].session = queue["tracking"].session /\ c.kind # "respond"
          BY <1>1, <4>3 DEF CallFits
        <5>2. c.session # queue["tracking"].session
          <6>1. CASE c.kind = "start"
            BY <1>3, <6>1
          <6>2. CASE c.kind # "start"
            <7>1. c.session \in KnownSessions
              BY <1>1, <4>3, <6>2 DEF CallFits
            <7> QED BY <7>1, KnownAreNumbered
          <6> QED BY <6>1, <6>2
        <5> QED BY <2>1, <2>2, <4>3, <5>1, <5>2 DEF Seeks, Belongs
      <4> QED BY <4>1, <4>2, <4>3, Constants
    <3> QED BY <1>1, <1>2, <2>2, <3>1 DEF CallSets
  <2>3. CASE d \in Due(b)
    <3>1. d.kind # "respond" => d.session <= lastSession /\ d.session \in Nat
      BY <1>1, <1>3, <2>3, CommandFields DEF Typed
    <3>2. Seeks(p, d) /\ (p = q => Pushed(q, r))
      <4>1. CASE p = "session"
        <5>1. d.kind # "respond" /\ d.session \in KnownSessions'
          BY <2>1, <4>1 DEF Seeks, Belongs
        <5>2. d.session \in KnownSessions
          BY <1>1, <1>3, <3>1, <5>1 DEF CallSets
        <5>3. d.session # queue["tracking"].session
          BY <5>2, KnownAreNumbered
        <5>4. p = q => Pushed(q, r)
          BY <4>1 DEF Called, SessionCall
        <5> QED BY <4>1, <5>1, <5>2, <5>3, <5>4 DEF Seeks, Belongs
      <4>2. CASE p = "tracking"
        <5>1. d.kind # "respond" /\ d.session = queue'["tracking"].session
          BY <2>1, <4>2 DEF Seeks, Belongs
        <5>2. d.session = queue["tracking"].session /\ ~(q = "tracking" /\ c.kind = "start")
          <6>1. d.session <= lastSession /\ d.session \in Nat
            BY <3>1, <5>1
          <6>2. d.session # lastSession + 1
            BY <1>3, <6>1
          <6> QED BY <1>1, <5>1, <6>2 DEF CallFits
        <5>3. q = "tracking" => Pushed(q, r)
          BY <1>4, <5>2
        <5> QED BY <4>2, <5>1, <5>2, <5>3 DEF Seeks, Belongs
      <4>3. CASE p = "ni"
        <5>1. d.kind = "respond" /\ d.session = queue'["ni"].session
          BY <2>1, <4>3 DEF Seeks, Belongs
        <5>2. b = "gnss"
          BY <1>3, <2>3, <5>1 DEF AnswererOf
        <5>3. q # "ni"
          BY <1>4, <2>3, <5>1, <5>2 DEF NiCall, Replaced
        <5>4. queue'["ni"] = queue["ni"]
          BY <1>2, <5>3, Constants
        <5> QED BY <4>3, <5>1, <5>3, <5>4 DEF Seeks, Belongs
      <4> QED BY <4>1, <4>2, <4>3, Constants
    <3>3. PICK x \in Waiting(p) : x.number = d.number
      BY <2>1, <2>3, <3>2 DEF Matching, CommandsWait
    <3>4. x \in Waiting(p)'
      <4>1. CASE p # q
        BY <1>1, <4>1 DEF CallSets
      <4>2. CASE p = q
        BY <1>1, <3>2, <4>2 DEF CallSets
      <4> QED BY <4>1, <4>2
    <3> QED BY <3>3, <3>4
  <2> QED BY <1>1, <1>2, <2>1, <2>2, <2>3 DEF CallSets, IsNewOwn
<1>7. RequestsWait'
  <2>1. \A x \in Waiting("session")' : \E d \in Due(x.from)' : d.number = x.number
    <3>1. SUFFICES ASSUME NEW x \in Waiting("session")'
                   PROVE  \E d \in Due(x.from)' : d.number = x.number
      OBVIOUS
    <3>2. CASE x \in Waiting("session")
      <4>1. x.from \in Adapters
        BY <1>1, <3>2, RequestFields, Constants DEF Typed
      <4>2. PICK d \in Due(x.from) : d.number = x.number
        BY <3>2 DEF Matching, RequestsWait
      <4>3. ASSUME NEW b \in Adapters, b = x.from PROVE d \in Due(b)'
        BY <1>1, <4>2, <4>3 DEF CallSets
      <4> QED BY <4>1, <4>2, <4>3
    <3>3. CASE q = "session" /\ x = r
      BY <1>1, <1>2, <3>3 DEF CallSets
    <3> QED BY <1>1, <3>2, <3>3, Constants DEF CallSets
  <2>2. \A x, t \in Waiting("session")' : x.from = t.from
    <3>1. CASE q = "session"
      <4>1. \A x \in Waiting("session")' : x.from = a
        BY <1>1, <1>2, <3>1 DEF Called, SessionCall, CallSets
      <4> QED BY <4>1
    <3>2. CASE q # "session"
      BY <1>1, <3>2, Constants DEF CallSets, Matching, RequestsWait
    <3> QED BY <3>1, <3>2
  <2> DEFINE s == queue["tracking"].session
  <2>3. TrackingOver' \/
          \A x \in Waiting("tracking")' : \E d \in Due(home[queue["tracking"].session])' : d.number = x.number
    <3>1. CASE q = "tracking" /\ c.kind = "start"
      <4>1. Waiting("tracking")' = {r}
        BY <1>1, <1>4, <3>1 DEF CallSets, Replaced, Pushed, Called, TrackingCall
      <4>2. home'[queue'["tracking"].session] = a
        BY <1>1, <3>1 DEF Called, CallFits
      <4> QED BY <1>1, <1>2, <4>1, <4>2 DEF CallSets
    <3>2. CASE ~(q = "tracking" /\ c.kind = "start")
      <4>1. queue'["tracking"].session = s
        BY <1>1, <3>2 DEF CallFits
      <4>2. CASE TrackingOver
        <5>1. ASSUME NEW b \in Adapters, NEW d \in Posted(b)', d.kind = "start", d.session = s
              PROVE  FALSE
          <6>1. CASE d \in Posted(b)
            BY <4>2, <5>1, <6>1 DEF TrackingOver
          <6>2. CASE d = c
            BY <1>3, <5>1, <6>2
          <6> QED BY <1>1, <1>2, <5>1, <6>1, <6>2 DEF CallSets, IsNew
        <5> QED BY <1>2, <4>1, <4>2, <5>1 DEF TrackingOver
      <4>3. CASE /\ s \in Sessions
                 /\ \A x \in Waiting("tracking") : \E d \in Due(home[s]) : d.number = x.number
        <5>1. home'[s] = home[s] /\ home[s] \in Adapters
          BY <1>1, <1>3, <4>3 DEF CallSets, Typed
        <5>2. PICK b \in Adapters : b = home[s]
          BY <5>1
        <5>3. Due(home[queue["tracking"].session])' = Due(b)'
          BY <4>1, <5>1, <5>2
        <5>4. \A x \in Waiting("tracking")' :
                x \in Waiting("tracking") \/ (x = r /\ q = "tracking")
          BY <1>1, Constants DEF CallSets
        <5>5. q = "tracking" => a = b
          <6>1. q = "tracking" => c.session = s /\ c.kind # "respond"
            BY <1>1, <4>1 DEF CallFits
          <6> QED BY <5>1, <5>2, <6>1 DEF Called
        <5> QED BY <1>1, <1>2, <4>3, <5>2, <5>3, <5>4, <5>5 DEF CallSets
      <4>4. CASE s \notin Sessions
        <5>1. s = NoSession /\ Waiting("tracking") = {}
          BY <4>4, NothingTracked
        <5>2. q # "tracking"
          BY <1>1, <4>1, <5>1, Constants DEF CallFits
        <5> QED BY <1>1, <5>1, <5>2, Constants DEF CallSets
      <4> QED BY <4>2, <4>3, <4>4 DEF Matching, RequestsWait
    <3> QED BY <3>1, <3>2
  <2>4. Len(queue'["ni"].requests) <= 1
    <3>1. CASE q = "ni"
      <4>1. queue'["ni"].requests = <<r>>
        BY <1>4, <3>1 DEF NiCall, Replaced
      <4> QED BY <4>1
    <3>2. CASE q # "ni"
      BY <1>2, <3>2, Constants DEF Matching, RequestsWait
    <3> QED BY <3>1, <3>2
  <2> QED BY <2>1, <2>2, <2>3, <2>4 DEF RequestsWait
<1> QED BY <1>5, <1>6, <1>7 DEF Matching

(* The adapter that has the tracking session says nothing: it is over.     *)
LEMMA SilenceEndsTracking ==
  ASSUME Base, Base', NEW a \in Adapters, NEW c \in Posted(a), Handled(a, c), Unanswered(a, c),
         home[c.session] = a, c.session = queue["tracking"].session
  PROVE  TrackingOver'
<1>1. Typed /\ Typed' /\ HandledSets(a, c) /\ c \in Commands(a)
  BY TypesHold, TypesHoldNext, HandledChanges DEF Base, Typed
<1>2. /\ c.kind # "respond" /\ c.session \in Sessions /\ running[c.session] = "none"
      /\ UNCHANGED <<answering, running, queue, home>> /\ answering[a].at = "idle"
  BY <1>1, SessionsOfCommands DEF Unanswered, Handled
<1>3. ASSUME NEW b \in Adapters, NEW d \in Posted(b)', d.kind = "start" PROVE d.session # c.session
  <2>1. CASE b = a
    <3>1. /\ inbox[a] \in Seq(CommandRecords) /\ inbox[a] # <<>> /\ FirstIn(inbox[a])
          /\ c = Head(inbox[a]) /\ d \in Range(Tail(inbox[a]))
      BY <1>1, <1>3, <2>1 DEF Typed, Handled, Base, StartsFirst, Posted
    <3> QED BY <1>2, <1>3, <3>1, FirstTail
  <2>2. CASE b # a
    <3>1. d \in Commands(b)
      BY <1>1 DEF HandledSets, Typed
    <3>2. home[d.session] = b
      BY <1>3, <3>1, SessionsOfCommands DEF CommandFits
    <3> QED BY <2>2, <3>2
  <2> QED BY <2>1, <2>2
<1>4. ASSUME NEW b \in Adapters, answering[b].at = "answer"
      PROVE  answering[b].command.kind = "respond" \/ answering[b].command.session # c.session
  <2>1. answering[b].command \in Due(b) /\ b # a
    BY <1>1, <1>2, <1>4 DEF Typed
  <2>2. AnswererOf(answering[b].command) = b
    BY <2>1, DueAreOwn
  <2> QED BY <2>1, <2>2 DEF AnswererOf
<1> QED BY <1>2, <1>3, <1>4 DEF TrackingOver

LEMMA HandledKeepsOver ==
  ASSUME Base, Base', TrackingOver, NEW a \in Adapters, NEW c \in Posted(a), Handled(a, c)
  PROVE  TrackingOver'
<1> DEFINE s == queue["tracking"].session
<1>1. Typed /\ HandledSets(a, c) /\ c \in Commands(a) /\ c \in CommandRecords
  BY TypesHold, HandledChanges DEF Base, Typed
<1>2. /\ queue' = queue /\ \A b \in Adapters : b # a => answering'[b] = answering[b]
      /\ answering[a].at = "idle"
  BY DEF Handled
<1>3. c.kind = "start" => c.session # s
  BY DEF TrackingOver
<1>4. \A b \in Adapters : \A d \in Posted(b)' : d.kind = "start" => d.session # s
  BY <1>1 DEF HandledSets, TrackingOver
<1>5. CASE Unanswered(a, c)
  BY <1>2, <1>4, <1>5 DEF Unanswered, TrackingOver
<1>6. ASSUME NEW error \in BOOLEAN, Answered(a, c, error)
      PROVE  TrackingOver'
  <2>1. c.kind \in {"start", "stop", "update", "respond"}
    BY <1>1, CommandFields
  <2>2. c.kind = "respond" \/ c.session # s
    <3>1. SUFFICES ASSUME c.kind # "respond", c.session = s PROVE FALSE
      OBVIOUS
    <3>2. c.session \in Sessions /\ c.mode = "fix"
      BY <1>1, <3>1, SessionsOfCommands DEF CommandFits
    <3>3. running[c.session] = "none"
      BY <3>1, <3>2 DEF TrackingOver
    <3> QED BY <1>3, <1>6, <2>1, <3>1, <3>2, <3>3 DEF Answered
  <2>3. s \in Sessions => running'[s] = "none"
    BY <1>6, <2>2 DEF Answered, TrackingOver
  <2>4. ASSUME NEW b \in Adapters, answering'[b].at = "answer"
        PROVE  answering'[b].command.kind = "respond" \/ answering'[b].command.session # s
    <3>1. CASE b = a
      BY <1>6, <2>2, <3>1 DEF Answered
    <3>2. CASE b # a
      BY <1>2, <2>4, <3>2 DEF TrackingOver
    <3> QED BY <3>1, <3>2
  <2> QED BY <1>2, <1>4, <2>3, <2>4 DEF TrackingOver
<1> QED BY <1>5, <1>6 DEF Handled

LEMMA HandledKeepsMatching ==
  ASSUME Base, Base', Matching, ~outOfStep', NEW a \in Adapters, NEW c \in Posted(a),
         Handled(a, c)
  PROVE  Matching'
<1>1. Typed /\ Typed' /\ HandledSets(a, c) /\ c \in CommandRecords
  BY TypesHold, TypesHoldNext, HandledChanges DEF Base, Typed
<1>2. /\ UNCHANGED <<queue, dict, updating, home>>
      /\ \A b \in Adapters : b # a => answering'[b] = answering[b]
      /\ answering'[a].at \in {"idle", "answer"}
  BY <1>1 DEF Handled, Unanswered, Answered, Typed
<1>3. CallsFit'
  <2>1. \A b \in Adapters : answering'[b].at = "call" => answering'[b] = answering[b]
    BY <1>2
  <2> QED BY <2>1 DEF Matching, CallsFit, KindFits
<1>4. CommandsWait'
  BY <1>1, <1>2 DEF HandledSets, Matching, CommandsWait, Seeks, Belongs
<1>5. ASSUME NEW b \in Adapters, NEW q \in Queues, NEW x \in Waiting(q), NEW d \in Due(b),
             d.number = x.number, d \notin Due(b)'
      PROVE  /\ b = a /\ d = c /\ Unanswered(a, c) /\ home[c.session] = a
             /\ ~WaitsForSession(c) /\ Belongs(q, c)
  <2>1. b = a /\ d = c /\ Unanswered(a, c)
    BY <1>1, <1>5 DEF HandledSets
  <2>2. AnswererOf(c) = a
    BY <1>5, <2>1, DueAreOwn
  <2>3. home[c.session] = a
    BY <2>1, <2>2 DEF Unanswered, AnswererOf
  <2>4. Belongs(q, c)
    BY <1>5, <2>1 DEF Base, NumbersFit
  <2> QED BY <2>1, <2>3, <2>4 DEF Unanswered
<1>6. \A x \in Waiting("session")' : \E d \in Due(x.from)' : d.number = x.number
  <2>1. SUFFICES ASSUME NEW x \in Waiting("session")
                 PROVE  \E d \in Due(x.from)' : d.number = x.number
    BY <1>1, Constants DEF HandledSets
  <2>2. x.from \in Adapters
    BY <1>1, RequestFields, Constants DEF Typed
  <2>3. PICK b \in Adapters : b = x.from
    BY <2>2
  <2>4. PICK d \in Due(b) : d.number = x.number
    BY <2>3 DEF Matching, RequestsWait
  <2>5. d \in Due(b)'
    <3>1. SUFFICES ASSUME d \notin Due(b)' PROVE FALSE
      OBVIOUS
    <3>2. d = c /\ ~WaitsForSession(c)
      BY <1>5, <2>4, <3>1, Constants
    <3> QED BY <2>4, <3>2 DEF WaitsForSession, Waiting
  <2> QED BY <2>3, <2>4, <2>5
<1>7. TrackingOver' \/
        \A x \in Waiting("tracking")' :
          \E d \in Due(home[queue["tracking"].session])' : d.number = x.number
  <2>1. CASE TrackingOver
    BY <2>1, HandledKeepsOver
  <2>2. CASE /\ queue["tracking"].session \in Sessions
             /\ \A x \in Waiting("tracking") :
                  \E d \in Due(home[queue["tracking"].session]) : d.number = x.number
    <3>1. PICK b \in Adapters : b = home[queue["tracking"].session]
      BY <1>1, <2>2 DEF Typed
    <3>2. Due(home[queue["tracking"].session])' = Due(b)'
      BY <1>2, <3>1
    <3>3. CASE \A x \in Waiting("tracking") : \A d \in Due(b) : d.number = x.number => d \in Due(b)'
      BY <1>1, <2>2, <3>1, <3>2, <3>3, Constants DEF HandledSets
    <3>4. ASSUME NEW x \in Waiting("tracking"), NEW d \in Due(b), d.number = x.number,
                 d \notin Due(b)'
          PROVE  TrackingOver'
      <4>1. Unanswered(a, c) /\ home[c.session] = a /\ Belongs("tracking", c)
        BY <1>5, <3>4, Constants
      <4>2. c.session = queue["tracking"].session
        BY <4>1 DEF Belongs
      <4> QED BY <4>1, <4>2, SilenceEndsTracking
    <3> QED BY <3>3, <3>4
  <2>3. CASE queue["tracking"].session \notin Sessions
    BY <1>1, <2>3, NothingTracked, Constants DEF HandledSets
  <2> QED BY <2>1, <2>2, <2>3 DEF Matching, RequestsWait
<1>8. /\ \A x, t \in Waiting("session")' : x.from = t.from
      /\ Len(queue'["ni"].requests) <= 1
  BY <1>1, <1>2, Constants DEF HandledSets, Matching, RequestsWait
<1> QED BY <1>3, <1>4, <1>6, <1>7, <1>8 DEF Matching, RequestsWait

(* The request that an answer takes is that of its command.                *)
LEMMA HeadMatches ==
  ASSUME Base, Matching, NEW a \in Adapters, NEW c \in Due(a), NEW q \in Queues,
         Found(a, c), FoundIn(a, c, q), ~Skips(c)
  PROVE  Head(queue[q].requests).number = c.number /\ Belongs(q, c)
<1> DEFINE h == Head(queue[q].requests)
<1>1. Typed /\ FoundSets(a, c)
  BY TypesHold, FoundChanges DEF Base
<1>2. /\ c \in CommandRecords /\ c.number \in Nat /\ c \in Commands(a) /\ CommandFits(a, c)
      /\ answering[a].at = "answer" /\ answering[a].command = c /\ AnswererOf(c) = a
  BY <1>1, Numbers, DueAreOwn DEF Typed, Base, CommandsFit, Found
<1>3. /\ queue[q].requests \in Seq(RequestRecords) /\ queue[q].requests # <<>>
      /\ h \in Waiting(q) /\ h.number \in Nat /\ h.number > 0
      /\ Waiting(q) = Range(Tail(queue[q].requests)) \cup {h}
      /\ \A x \in Range(Tail(queue[q].requests)) : x.number \in Nat /\ h.number < x.number
  <2>1. queue[q].requests \in Seq(RequestRecords) /\ queue[q].requests # <<>>
    BY <1>1 DEF Typed, FoundIn
  <2>2. Waiting(q) = Range(Tail(queue[q].requests)) \cup {h} /\ Waiting(q) \subseteq RequestRecords
    BY <1>1, <2>1, TailElements DEF Waiting, Typed
  <2>3. \A x \in Range(Tail(queue[q].requests)) :
          h.number > 0 /\ x.number > 0 => h.number < x.number
    BY <2>1, Numbers, IncreasingTail DEF Base, InOrder
  <2> QED BY <2>1, <2>2, <2>3, Numbers
<1>4. \A d \in Inbox(a) : d.number \in Nat /\ (d.number > 0 => c.number < d.number)
  <2>1. Inbox(a) \subseteq CommandRecords /\ Inbox(a) \subseteq Posted(a)
    BY <1>1 DEF Typed
  <2> QED BY <1>2, <2>1, Numbers DEF Base, InOrder
<1>5. ASSUME Seeks(q, c), c.number > 0,
             \A x \in Waiting(q) : \E d \in Due(a) : d.number = x.number
      PROVE  h.number = c.number
  <2>1. PICK x \in Waiting(q) : x.number = c.number
    BY <1>5 DEF Matching, CommandsWait
  <2>2. CASE x = h
    BY <2>1, <2>2
  <2>3. CASE x # h
    <3>1. h.number < c.number
      BY <1>3, <2>1, <2>3
    <3>2. PICK d \in Due(a) : d.number = h.number
      BY <1>3, <1>5
    <3>3. d \in Inbox(a)
      BY <1>1, <1>2, <1>3, <3>1, <3>2 DEF FoundSets
    <3> QED BY <1>2, <1>3, <1>4, <3>1, <3>2, <3>3
  <2> QED BY <2>2, <2>3
<1>6. CASE q = "tracking"
  <2>1. queue["tracking"].session = c.session
    BY <1>6 DEF FoundIn, QueueOf
  <2>2. c.kind # "respond" /\ c.number > 0
    BY <1>2, <2>1 DEF Skips, CommandFits
  <2>3. Seeks(q, c) /\ Belongs(q, c) /\ home[queue["tracking"].session] = a
    BY <1>2, <1>6, <2>1, <2>2 DEF Seeks, Belongs, AnswererOf
  <2>4. ~TrackingOver
    BY <1>2, <2>1, <2>2 DEF TrackingOver
  <2> QED BY <1>5, <1>6, <2>2, <2>3, <2>4 DEF Matching, RequestsWait
<1>7. CASE q = "ni"
  <2>1. queue["ni"].session = c.session
    BY <1>7 DEF FoundIn, QueueOf
  <2>2. c.kind = "respond" /\ c.number > 0
    BY <1>2, <2>1 DEF Skips, CommandFits
  <2>3. Seeks(q, c) /\ Belongs(q, c)
    BY <1>7, <2>1, <2>2 DEF Seeks, Belongs
  <2>4. PICK x \in Waiting(q) : x.number = c.number
    BY <2>2, <2>3 DEF Matching, CommandsWait
  <2>5. x = h
    <3>1. Len(queue[q].requests) <= 1
      BY <1>7 DEF Matching, RequestsWait
    <3>2. PICK n \in 1..Len(queue[q].requests) : x = queue[q].requests[n]
      BY <1>3, RangeOf DEF Waiting
    <3>3. Len(queue[q].requests) \in Nat /\ queue[q].requests[1] = h
      BY <1>3, TailElements
    <3> QED BY <3>1, <3>2, <3>3
  <2> QED BY <2>3, <2>4, <2>5
<1>8. CASE q = "session"
  <2>1. /\ c.session \in DictSessions
        /\ ~(queue["tracking"].session # c.session /\ queue["ni"].session = c.session
               /\ queue["ni"].requests # <<>>)
    BY <1>8 DEF FoundIn, QueueOf
  <2>2. c.kind # "respond"
    <3>1. SUFFICES ASSUME c.kind = "respond" PROVE FALSE
      OBVIOUS
    <3>2. queue["tracking"].session # c.session /\ queue["ni"].session = c.session
      BY <2>1, <3>1 DEF Skips
    <3>3. c.number > 0
      BY <1>2, <3>1 DEF CommandFits
    <3>4. Seeks("ni", c)
      BY <3>1, <3>2 DEF Seeks, Belongs
    <3>5. Waiting("ni") # {}
      BY <3>3, <3>4, Constants DEF Matching, CommandsWait
    <3>6. queue["ni"].requests # <<>>
      BY <3>5 DEF Waiting, Range
    <3> QED BY <2>1, <3>2, <3>6
  <2>3. c.session \in KnownSessions /\ c.session # queue["tracking"].session
    BY <2>1 DEF Base, Apart, KnownSessions
  <2>4. Seeks(q, c) /\ Belongs(q, c) /\ c.number > 0
    BY <1>2, <1>8, <2>2, <2>3 DEF Seeks, Belongs, CommandFits
  <2>5. PICK t \in Waiting("session") : t.number = c.number
    BY <1>8, <2>4 DEF Matching, CommandsWait
  <2>6. t.from = a
    BY <2>5, Constants DEF Base, NumbersFit
  <2>7. \A x \in Waiting(q) : \E d \in Due(a) : d.number = x.number
    BY <1>8, <2>6 DEF Matching, RequestsWait
  <2> QED BY <1>5, <2>4, <2>7
<1> QED BY <1>6, <1>7, <1>8, Constants

LEMMA FoundKeepsMatching ==
  ASSUME Base, Base', Matching, NEW a \in Adapters, NEW c \in Due(a), Found(a, c), ~Skips(c)
  PROVE  Matching'
<1>1. Typed /\ Typed' /\ FoundSets(a, c)
  BY TypesHold, TypesHoldNext, FoundChanges DEF Base
<1>2. /\ c \in CommandRecords /\ c.number \in Nat /\ AnswererOf(c) = a
      /\ answering[a].at = "answer" /\ answering[a].command = c
      /\ UNCHANGED <<dict, inbox, running, home, updating>>
      /\ \A b \in Adapters : b # a => answering'[b] = answering[b]
      /\ answering'[a].at \in {"idle", "call"}
  BY <1>1, Numbers, DueAreOwn DEF Typed, Found, FoundNone, FoundIn, NotAnswering
<1>3. \A d \in Inbox(a) : d.number \in Nat /\ (d.number > 0 => c.number < d.number)
  <2>1. Inbox(a) \subseteq CommandRecords /\ Inbox(a) \subseteq Posted(a)
    BY <1>1 DEF Typed
  <2> QED BY <1>2, <2>1, Numbers DEF Base, InOrder
<1>4. ASSUME NEW q \in Queues, FoundIn(a, c, q)
      PROVE  /\ Head(queue[q].requests) \in Waiting(q) /\ Belongs(q, c)
             /\ Head(queue[q].requests).number = c.number
             /\ Waiting(q) = Waiting(q)' \cup {Head(queue[q].requests)}
             /\ \A p \in Queues : p # q => Waiting(p)' = Waiting(p)
             /\ \A x \in Waiting(q)' : c.number < x.number
  <2>1. queue[q].requests \in Seq(RequestRecords) /\ queue[q].requests # <<>>
    BY <1>1, <1>4 DEF Typed, FoundIn
  <2>2. \A x \in Range(Tail(queue[q].requests)) :
          Head(queue[q].requests).number > 0 /\ x.number > 0 =>
            Head(queue[q].requests).number < x.number
    BY <2>1, Numbers, IncreasingTail DEF Base, InOrder
  <2>3. Waiting(q)' = Range(Tail(queue[q].requests)) /\ Waiting(q)' \subseteq RequestRecords
    BY <1>1, <1>4 DEF FoundIn, Waiting, Typed
  <2>4. Waiting(q) \subseteq RequestRecords
    BY <1>1 DEF Typed
  <2> QED BY <1>1, <1>4, <2>2, <2>3, <2>4, HeadMatches, Numbers DEF FoundSets
<1>5. CallsFit'
  <2>1. ASSUME NEW b \in Adapters, answering'[b].at = "call"
        PROVE  /\ answering'[b].request.number = answering'[b].command.number
               /\ KindFits(answering'[b].request, answering'[b].command)
    <3>1. CASE b # a
      BY <1>2, <2>1, <3>1 DEF Matching, CallsFit
    <3>2. CASE b = a
      <4>1. PICK q \in Queues : FoundIn(a, c, q)
        BY <2>1, <3>2 DEF Found, FoundNone, NotAnswering
      <4>2. answering'[b].request = Head(queue[q].requests) /\ answering'[b].command = c
        BY <3>2, <4>1 DEF FoundIn
      <4> QED BY <1>4, <4>1, <4>2 DEF Base, NumbersFit
    <3> QED BY <3>1, <3>2
  <2> QED BY <2>1 DEF CallsFit, KindFits
<1>6. CommandsWait'
  <2>1. SUFFICES ASSUME NEW b \in Adapters, NEW d \in Due(b)', NEW p \in Queues,
                        d.number > 0, Seeks(p, d)'
                 PROVE  \E x \in Waiting(p)' : x.number = d.number
    BY DEF CommandsWait
  <2>2. d \in Due(b) /\ Seeks(p, d) /\ Belongs(p, d)
    <3>1. /\ queue'["tracking"].session = queue["tracking"].session
          /\ queue'["ni"].session = queue["ni"].session
          /\ KnownSessions' = KnownSessions /\ Due(b)' \subseteq Due(b)
      BY <1>1, Constants DEF FoundSets
    <3> QED BY <2>1, <3>1 DEF Seeks, Belongs
  <2>3. PICK x \in Waiting(p) : x.number = d.number
    BY <2>1, <2>2 DEF Matching, CommandsWait
  <2>4. CASE FoundNone(a, c)
    BY <2>3, <2>4 DEF FoundNone, Waiting
  <2>5. ASSUME NEW q \in Queues, FoundIn(a, c, q)
        PROVE  x \in Waiting(p)'
    <3>1. CASE p # q
      BY <1>4, <2>5, <3>1
    <3>2. CASE p = q /\ x = Head(queue[q].requests)
      <4>1. d.number = c.number /\ x.number = c.number
        BY <1>4, <2>3, <2>5, <3>2
      <4>2. x.from = b /\ x.from = a
        BY <2>2, <2>3, <4>1 DEF Base, NumbersFit
      <4>3. d \in Inbox(a)
        BY <1>1, <2>1, <4>2 DEF FoundSets
      <4> QED BY <1>2, <1>3, <2>1, <4>1, <4>3
    <3>3. CASE p = q /\ x # Head(queue[q].requests)
      BY <1>4, <2>5, <3>3
    <3> QED BY <3>1, <3>2, <3>3
  <2> QED BY <2>3, <2>4, <2>5 DEF Found
<1>7. ASSUME NEW p \in {"session", "tracking"}, NEW b \in Adapters,
             NEW x \in Waiting(p)', \E d \in Due(b) : d.number = x.number
      PROVE  \E d \in Due(b)' : d.number = x.number
  <2>1. PICK d \in Due(b) : d.number = x.number
    BY <1>7
  <2>2. CASE d \in Due(b)'
    BY <2>1, <2>2
  <2>3. CASE d \notin Due(b)'
    <3>1. d = c /\ b = a
      BY <1>1, <2>3 DEF FoundSets
    <3>2. x \in Waiting(p) /\ p \in Queues
      BY <1>1, <1>7, Constants DEF FoundSets
    <3>3. Belongs(p, c)
      BY <2>1, <3>1, <3>2 DEF Base, NumbersFit
    <3>4. ASSUME NEW q \in Queues, FoundIn(a, c, q)
          PROVE  FALSE
      <4>1. Belongs(q, c)
        BY <1>4, <3>4
      <4>2. q = p
        BY <1>7, <3>3, <4>1 DEF Belongs
      <4>3. c.number < x.number
        BY <1>4, <1>7, <3>4, <4>2
      <4> QED BY <1>2, <2>1, <3>1, <4>3
    <3>5. CASE FoundNone(a, c)
      <4>1. queue[p].requests # <<>>
        BY <3>2 DEF Waiting, Range
      <4>2. CASE p = "tracking"
        <5>1. c.session = queue["tracking"].session
          BY <3>3, <4>2 DEF Belongs
        <5> QED BY <3>5, <4>1, <4>2, <5>1 DEF FoundNone, QueueOf
      <4>3. CASE p = "session"
        <5>1. WaitsForSession(c)
          BY <2>1, <3>1, <3>2, <4>3 DEF WaitsForSession, Waiting
        <5>2. c.session \in DictSessions /\ c.kind # "respond"
          BY <3>3, <4>3, <5>1 DEF Skips, Belongs
        <5>3. c.session \in KnownSessions /\ c.session # queue["tracking"].session
          BY <5>2 DEF KnownSessions, Base, Apart
        <5> QED BY <3>5, <4>1, <4>3, <5>2, <5>3 DEF FoundNone, QueueOf
      <4> QED BY <1>7, <4>2, <4>3
    <3> QED BY <3>4, <3>5 DEF Found
  <2> QED BY <2>2, <2>3
<1>8. \A x \in Waiting("session")' : \E d \in Due(x.from)' : d.number = x.number
  <2>1. SUFFICES ASSUME NEW x \in Waiting("session")'
                 PROVE  \E d \in Due(x.from)' : d.number = x.number
    OBVIOUS
  <2>2. x \in Waiting("session") /\ x.from \in Adapters
    BY <1>1, RequestFields, Constants DEF Typed, FoundSets
  <2>3. PICK b \in Adapters : b = x.from
    BY <2>2
  <2>4. \E d \in Due(b) : d.number = x.number
    BY <2>2, <2>3 DEF Matching, RequestsWait
  <2>5. \E d \in Due(b)' : d.number = x.number
    BY <1>7, <2>1, <2>4
  <2> QED BY <2>3, <2>5
<1>9. TrackingOver' \/
        \A x \in Waiting("tracking")' :
          \E d \in Due(home[queue["tracking"].session])' : d.number = x.number
  <2>1. queue'["tracking"].session = queue["tracking"].session
    BY <1>1, Constants DEF FoundSets
  <2>2. CASE TrackingOver
    BY <1>1, <1>2, <2>1, <2>2 DEF FoundSets, TrackingOver
  <2>3. CASE /\ queue["tracking"].session \in Sessions
             /\ \A x \in Waiting("tracking") :
                  \E d \in Due(home[queue["tracking"].session]) : d.number = x.number
    <3>1. PICK b \in Adapters : b = home[queue["tracking"].session]
      BY <1>1, <2>3 DEF Typed
    <3>2. Due(home[queue["tracking"].session])' = Due(b)'
      BY <1>2, <2>1, <3>1
    <3>3. Waiting("tracking")' \subseteq Waiting("tracking")
      BY <1>1, Constants DEF FoundSets
    <3> QED BY <1>7, <2>3, <3>1, <3>2, <3>3
  <2>4. CASE queue["tracking"].session \notin Sessions
    BY <1>1, <2>4, NothingTracked, Constants DEF FoundSets
  <2> QED BY <2>2, <2>3, <2>4 DEF Matching, RequestsWait
<1>10. \A x, t \in Waiting("session")' : x.from = t.from
  BY <1>1, Constants DEF FoundSets, Matching, RequestsWait
<1>11. Len(queue'["ni"].requests) <= 1
  <2>1. queue["ni"].requests \in Seq(RequestRecords) /\ Len(queue["ni"].requests) <= 1
    BY <1>1, Constants DEF Typed, Matching, RequestsWait
  <2>2. CASE queue'["ni"].requests = queue["ni"].requests
    BY <2>1, <2>2
  <2>3. CASE /\ queue["ni"].requests # <<>>
             /\ queue'["ni"].requests = Tail(queue["ni"].requests)
    <3>1. /\ Len(Tail(queue["ni"].requests)) = Len(queue["ni"].requests) - 1
          /\ Len(queue["ni"].requests) \in Nat
      BY <2>1, <2>3, TailElements
    <3> QED BY <2>1, <2>3, <3>1
  <2> QED BY <2>2, <2>3, Constants DEF Found, FoundNone, FoundIn
<1> QED BY <1>5, <1>6, <1>8, <1>9, <1>10, <1>11 DEF Matching, RequestsWait

(* Requests that waited still do when nothing is taken from a queue or an  *)
(* inbox.                                                                  *)
LEMMA RequestsStillWait ==
  ASSUME Base, RequestsWait, UNCHANGED <<queue, home>>,
         \A s \in Sessions : running'[s] \in {running[s], "none"},
         \A b \in Adapters :
           /\ Posted(b)' = Posted(b) /\ Due(b)' = Due(b)
           /\ answering'[b].at = "answer" => answering'[b] = answering[b]
  PROVE  RequestsWait'
<1>1. Waiting("session")' = Waiting("session") /\ Waiting("tracking")' = Waiting("tracking")
  BY DEF Waiting
<1>2. TrackingOver => TrackingOver'
  BY DEF TrackingOver
<1>3. \A x \in Waiting("session")' : \E d \in Due(x.from)' : d.number = x.number
  <2>1. SUFFICES ASSUME NEW x \in Waiting("session")
                 PROVE  \E d \in Due(x.from)' : d.number = x.number
    BY <1>1
  <2>2. x.from \in Adapters
    BY TypesHold, RequestFields, Constants DEF Base, Typed
  <2>3. PICK b \in Adapters : b = x.from
    BY <2>2
  <2>4. \E d \in Due(b) : d.number = x.number
    BY <2>3 DEF RequestsWait
  <2> QED BY <2>3, <2>4
<1>4. TrackingOver' \/
        \A x \in Waiting("tracking")' :
          \E d \in Due(home[queue["tracking"].session])' : d.number = x.number
  <2>1. CASE TrackingOver
    BY <1>2, <2>1
  <2>2. CASE /\ queue["tracking"].session \in Sessions
             /\ \A x \in Waiting("tracking") :
                  \E d \in Due(home[queue["tracking"].session]) : d.number = x.number
    <3>1. PICK b \in Adapters : b = home[queue["tracking"].session]
      BY <2>2, TypesHold DEF Base, Typed
    <3>2. Due(home[queue["tracking"].session])' = Due(b)'
      BY <3>1
    <3> QED BY <1>1, <2>2, <3>1, <3>2
  <2>3. CASE queue["tracking"].session \notin Sessions
    BY <1>1, <2>3, NothingTracked
  <2> QED BY <2>1, <2>2, <2>3 DEF RequestsWait
<1> QED BY <1>1, <1>3, <1>4 DEF RequestsWait

LEMMA EndsKeepsMatching ==
  ASSUME Base, Base', Matching, Ends
  PROVE  Matching'
<1>1. CallsFit'
  <2>1. \A b \in Adapters : answering'[b].at = "call" => answering'[b] = answering[b]
    BY DEF Ends
  <2> QED BY <2>1 DEF Matching, CallsFit, KindFits
<1>2. CommandsWait'
  BY DEF Ends, Matching, CommandsWait, Seeks, Belongs
<1>3. RequestsWait'
  BY RequestsStillWait DEF Ends, Matching
<1> QED BY <1>1, <1>2, <1>3 DEF Matching

LEMMA BeginKeepsMatching ==
  ASSUME Base, Base', Matching, BeginSets
  PROVE  Matching'
<1>1. CallsFit'
  BY DEF BeginSets, Matching, CallsFit, KindFits
<1>2. CommandsWait'
  BY DEF BeginSets, Matching, CommandsWait, Seeks, Belongs
<1>3. RequestsWait'
  BY RequestsStillWait DEF BeginSets, Matching
<1> QED BY <1>1, <1>2, <1>3 DEF Matching

-----------------------------------------------------------------------------
(* ... and the sessions follow.                                            *)

(* A session that has commands, or an id, keeps its adapter.               *)
LEMMA CallKeepsHome ==
  ASSUME Base, NEW a \in Adapters, NEW q \in Queues, NEW c, NEW r, CallSets(a, q, c, r)
  PROVE  /\ \A s \in Sessions : running[s] # "none" \/ Starting(s) =>
              s <= lastSession /\ home'[s] = home[s]
         /\ \A i \in Ids : dict[i] # NoEntity =>
              /\ dict[i].session \in Sessions /\ dict[i].session <= lastSession
              /\ home'[dict[i].session] = home[dict[i].session]
<1>1. Typed /\ lastSession \in Nat
  BY TypesHold DEF Base, Typed
<1>2. ASSUME NEW s \in Sessions, running[s] # "none" \/ Starting(s)
      PROVE  s <= lastSession /\ home'[s] = home[s]
  <2>1. CASE running[s] # "none"
    <3>1. s \in Nat /\ ~(s > lastSession)
      BY <2>1, Constants DEF Base, ClientSessionsFit
    <3> QED BY <1>1, <3>1 DEF CallSets
  <2>2. CASE Starting(s)
    <3>1. PICK b \in Adapters : \E x \in Posted(b) : x.kind = "start" /\ x.session = s
      BY <2>2 DEF Starting
    <3>2. PICK d \in Posted(b) : d.kind = "start" /\ d.session = s
      BY <3>1
    <3>3. d \in Commands(b)
      BY <1>1 DEF Typed
    <3> QED BY <3>2, <3>3, SessionsOfCommands DEF CallSets
  <2> QED BY <1>2, <2>1, <2>2
<1>3. ASSUME NEW i \in Ids, dict[i] # NoEntity
      PROVE  /\ dict[i].session \in Sessions /\ dict[i].session <= lastSession
             /\ home'[dict[i].session] = home[dict[i].session]
  BY <1>1, <1>3, EntityFields DEF Typed, Base, ClientSessionsFit, CallSets
<1> QED BY <1>2, <1>3

LEMMA CallKeepsKnown ==
  ASSUME Base, Base', RunningKnown, NEW a \in Adapters, NEW q \in Queues,
         NEW c \in CommandRecords, NEW r \in RequestRecords, Called(a, q, c, r)
  PROVE  RunningKnown'
<1>1. Typed /\ Typed' /\ CallSets(a, q, c, r) /\ CallFits(a, q, c)
  BY TypesHold, TypesHoldNext, CallChanges, CallSession DEF Base
<1>2. /\ UNCHANGED <<running, leftRunning>>
      /\ \A b, x : ExchangedStop(b, c, x) => x.kind = "stop"
  BY DEF Called, adapterVars, ExchangedStop
<1>3. SUFFICES ASSUME NEW s \in Sessions, running[s] # "none" \/ Starting(s)'
               PROVE  \/ s \in DictSessions'
                      \/ s = queue'["tracking"].session /\ mTracking'
                      \/ Stopping(s)' \/ s \in leftRunning
  BY <1>2 DEF RunningKnown
<1>4. CASE c.kind = "start" /\ c.session = s
  <2>1. CASE q = "tracking"
    BY <1>1, <1>4, <2>1 DEF Called, TrackingCall
  <2>2. CASE q = "session"
    BY <1>3, <1>4, <2>2, Constants DEF Called, SessionCall, DictSessions
  <2> QED BY <1>1, <1>4, <2>1, <2>2, Constants DEF CallFits
<1>5. CASE ~(c.kind = "start" /\ c.session = s)
  <2>1. Starting(s)' => Starting(s)
    <3>1. SUFFICES ASSUME NEW b \in Adapters, NEW d \in Posted(b)', d.kind = "start", d.session = s
                   PROVE  d \in Posted(b)
      BY DEF Starting
    <3> QED BY <1>1, <1>2, <1>5, <3>1 DEF CallSets, IsNew
  <2>2. s <= lastSession /\ home'[s] = home[s]
    BY <1>1, <1>3, <2>1, CallKeepsHome
  <2>3. PICK b \in Adapters : b = home[s] /\ b = home'[s]
    BY <1>1, <2>2 DEF Typed
  <2>4. Stopping(s)' <=> \E x \in Inbox(b)' : x.kind = "stop" /\ x.session = s
    BY <2>3 DEF Stopping
  <2>5. \/ s \in DictSessions
        \/ s = queue["tracking"].session /\ mTracking
        \/ Stopping(s) \/ s \in leftRunning
    BY <1>3, <2>1 DEF RunningKnown
  <2>6. CASE Stopping(s)
    BY <1>1, <2>3, <2>4, <2>6 DEF Stopping, CallSets
  <2>7. CASE s = queue["tracking"].session /\ mTracking
    <3>1. CASE q # "tracking"
      BY <1>1, <2>7, <3>1 DEF Called, SessionCall, NiCall, CallFits
    <3>2. CASE q = "tracking"
      <4>1. c.session = s /\ c.kind # "start" /\ c.kind # "respond"
        BY <1>1, <2>7, <3>2 DEF Called, TrackingCall, CallFits
      <4>2. CASE c.kind # "stop"
        BY <1>1, <2>7, <3>2, <4>1, <4>2 DEF Called, TrackingCall, CallFits
      <4>3. CASE c.kind = "stop"
        <5>1. a = b
          BY <2>3, <4>1 DEF Called
        <5> QED BY <1>1, <2>4, <4>1, <4>3, <5>1 DEF CallSets
      <4> QED BY <4>2, <4>3
    <3> QED BY <3>1, <3>2
  <2>8. CASE s \in DictSessions
    <3>1. CASE q # "session"
      BY <1>1, <2>8, <3>1 DEF CallFits, DictSessions
    <3>2. CASE q = "session"
      <4>1. PICK k \in Ids :
              /\ \A j \in Ids : j # k => dict'[j] = dict[j]
              /\ dict'[k].session = c.session
              /\ c.kind # "start" => dict[k].session \in {NoSession, c.session}
              /\ c.kind = "start" /\ dict[k] # NoEntity =>
                   \E x \in Range(inbox'[home[dict[k].session]]) :
                     x.kind = "stop" /\ x.session = dict[k].session
        BY <3>2 DEF Called, SessionCall
      <4>2. PICK i \in Ids : dict[i].session = s /\ s # NoSession
        BY <2>8, Constants DEF DictSessions
      <4>3. CASE i # k \/ c.kind # "start"
        BY <4>1, <4>2, <4>3 DEF DictSessions
      <4>4. CASE i = k /\ c.kind = "start"
        <5>1. dict[k] # NoEntity
          BY <4>2, <4>4 DEF NoEntity
        <5>2. PICK x \in Range(inbox'[b]) : x.kind = "stop" /\ x.session = s
          BY <2>3, <4>1, <4>2, <4>4, <5>1
        <5>3. x \in Inbox(b)'
          BY <2>3, <5>2 DEF Inbox, Posted, AnswererOf
        <5> QED BY <2>4, <5>2, <5>3
      <4> QED BY <4>3, <4>4
    <3> QED BY <3>1, <3>2
  <2> QED BY <2>5, <2>6, <2>7, <2>8
<1> QED BY <1>4, <1>5

LEMMA CallKeepsServed ==
  ASSUME Base, Base', IdsServed, NEW a \in Adapters, NEW q \in Queues,
         NEW c \in CommandRecords, NEW r \in RequestRecords, Called(a, q, c, r)
  PROVE  IdsServed'
<1>1. Typed /\ Typed' /\ CallSets(a, q, c, r) /\ CallFits(a, q, c)
  BY TypesHold, TypesHoldNext, CallChanges, CallSession DEF Base
<1>2. /\ c.number = lastRequest + 1 /\ lastRequest \in Nat
      /\ UNCHANGED <<answering, running, updateRefused>>
      /\ \A b, x : ExchangedStop(b, c, x) => x.kind = "stop"
  BY <1>1 DEF Called, Typed, adapterVars, ExchangedStop
<1>3. SUFFICES ASSUME NEW i \in Ids, NEW s \in Sessions, dict'[i].session = s
               PROVE  Served(i, s)'
  BY DEF IdsServed
<1>4. ASSUME dict'[i] = dict[i], ~Changes(c, s)
      PROVE  Served(i, s)'
  <2>1. Served(i, s) /\ dict[i] # NoEntity /\ dict[i].session = s
    BY <1>3, <1>4, Constants DEF IdsServed, NoEntity
  <2>2. home'[s] = home[s]
    BY <1>1, <2>1, CallKeepsHome
  <2>3. PICK b \in Adapters : b = home[s] /\ b = home'[s]
    BY <1>1, <2>2 DEF Typed
  <2>4. /\ Inbox(b) \subseteq Inbox(b)'
        /\ \A d \in Inbox(b)' : Changes(d, s) => d \in Inbox(b)
    BY <1>1, <1>2, <1>4 DEF CallSets, IsNewOwn, Changes
  <2>5. /\ Changing(s)' <=> \E d \in Inbox(b)' : Changes(d, s)
        /\ Changing(s) <=> \E d \in Inbox(b) : Changes(d, s)
    BY <2>3 DEF Changing, Changes
  <2>6. Ending(s) => Ending(s)'
    BY <1>2 DEF Ending, ClientBusy
  <2>7. \A d \in Inbox(b)' : Changes(d, s) =>
          d.mode = dict'[i].mode \/ \E e \in Inbox(b)' : Changes(e, s) /\ e.number > d.number
    BY <1>4, <2>1, <2>3, <2>4 DEF Served
  <2>8. running'[s] = dict'[i].mode \/ Changing(s)' \/ s \in updateRefused' \/ Ending(s)'
    BY <1>2, <1>4, <2>1, <2>4, <2>5, <2>6 DEF Served
  <2> QED BY <2>3, <2>7, <2>8 DEF Served, Changes
<1>5. CASE q # "session"
  <2>1. (dict' = dict /\ c.kind = "respond") \/ q = "tracking"
    BY <1>1, <1>5, Constants DEF CallFits
  <2>2. q = "tracking" => c.session # s
    <3>1. s \in DictSessions'
      BY <1>3, Constants DEF DictSessions
    <3> QED BY <1>1, <3>1 DEF Base, Apart, KnownSessions, CallFits
  <2> QED BY <1>1, <1>4, <1>5, <2>1, <2>2 DEF Changes, CallFits
<1>6. CASE q = "session"
  <2>1. PICK k \in Ids :
          /\ \A j \in Ids : j # k => dict'[j] = dict[j]
          /\ dict'[k].session = c.session /\ c.session > 0
          /\ IF c.kind = "stop" THEN dict'[k] = dict[k] ELSE dict'[k].mode = c.mode
    BY <1>6 DEF Called, SessionCall
  <2>2. CASE i # k
    <3>1. dict'[k] # NoEntity
      BY <2>1, Constants DEF NoEntity
    <3>2. s # c.session
      BY <1>3, <2>1, <2>2, <3>1 DEF Base, ClientSessionsFit
    <3> QED BY <1>4, <2>1, <2>2, <3>2 DEF Changes
  <2>3. CASE i = k /\ c.kind = "stop"
    BY <1>4, <2>1, <2>3 DEF Changes
  <2>4. CASE i = k /\ c.kind # "stop"
    <3>1. c.kind # "respond" /\ c.session = s /\ a = home'[s]
      BY <1>1, <1>3, <1>6, <2>1, <2>4 DEF CallFits, Called
    <3>2. Changes(c, s) /\ c \in Inbox(a)'
      BY <1>1, <2>4, <3>1, CommandFields DEF Changes, CallSets
    <3>3. Changing(s)'
      BY <3>1, <3>2 DEF Changing, Changes
    <3>4. \A d \in Inbox(a)' : Changes(d, s) => d \in Inbox(a) \/ d = c
      BY <1>1, <1>2 DEF CallSets, IsNewOwn, Changes
    <3>5. \A d \in Inbox(a) : d.number \in Nat /\ d.number < c.number
      <4>1. \A d \in Inbox(a) : d \in CommandRecords /\ d \in Commands(a)
        BY <1>1 DEF Typed
      <4> QED BY <1>2, <4>1, Numbers DEF Base, InOrder
    <3>6. \A d \in Inbox(a)' : Changes(d, s) =>
            d.mode = dict'[i].mode \/ \E e \in Inbox(a)' : Changes(e, s) /\ e.number > d.number
      BY <1>2, <2>1, <2>4, <3>2, <3>4, <3>5
    <3> QED BY <3>1, <3>3, <3>6 DEF Served, Changes
  <2> QED BY <2>2, <2>3, <2>4
<1> QED BY <1>5, <1>6

LEMMA CallKeepsFollowing ==
  ASSUME Base, Base', Following, NEW a \in Adapters, NEW q \in Queues,
         NEW c \in CommandRecords, NEW r \in RequestRecords, Called(a, q, c, r)
  PROVE  Following'
<1>1. UNCHANGED <<answering, running>>
  BY DEF Called, adapterVars
<1>2. ClientAnswersFit'
  BY <1>1 DEF Following, ClientAnswersFit, ClientBusy
<1> QED BY <1>2, CallKeepsKnown, CallKeepsServed DEF Following

(* A command that an adapter handles changes no session of the other one.  *)
LEMMA HandledElsewhere ==
  ASSUME Base, NEW a \in Adapters, NEW c \in Posted(a), Handled(a, c), NEW s \in Sessions,
         c.kind = "respond" \/ c.session # s \/ home[s] # a
  PROVE  running'[s] = running[s]
BY DEF Handled, Unanswered, Answered, AnswererOf

LEMMA HandledKeepsAnswers ==
  ASSUME Base, ClientAnswersFit, NEW a \in Adapters, NEW c \in Posted(a), Handled(a, c)
  PROVE  ClientAnswersFit'
<1>1. Typed /\ HandledSets(a, c) /\ c \in Commands(a)
  BY TypesHold, HandledChanges DEF Base, Typed
<1>2. /\ \A b \in Adapters : b # a => answering'[b] = answering[b]
      /\ answering[a].at = "idle"
      /\ c.kind # "respond" => c.session \in Sessions
  BY <1>1, SessionsOfCommands DEF Handled
<1>3. SUFFICES ASSUME NEW b \in Adapters, ClientBusy(b)', NEW d, d = answering'[b].command
               PROVE  /\ d.kind = "start" /\ answering'[b].error => running'[d.session] = "none"
                      /\ d.kind = "stop" /\ ~answering'[b].error => running'[d.session] = "none"
  BY DEF ClientAnswersFit
<1>4. CASE b # a
  <2>1. ClientBusy(b) /\ answering'[b] = answering[b] /\ d \in Commands(b)
    BY <1>1, <1>2, <1>3, <1>4 DEF HandledSets, Typed
  <2>2. d.kind # "respond" => d.session \in Sessions /\ home[d.session] = b
    BY <1>3, <2>1, SessionsOfCommands DEF Base, CommandsFit, AnswererOf
  <2>3. d.kind # "respond" => running'[d.session] = running[d.session]
    BY <1>4, <2>2, HandledElsewhere
  <2> QED BY <1>3, <2>1, <2>3 DEF ClientAnswersFit
<1>5. CASE b = a
  <2>1. ~Unanswered(a, c)
    BY <1>2, <1>3, <1>5 DEF Unanswered, ClientBusy
  <2>2. PICK error \in BOOLEAN : Answered(a, c, error)
    BY <2>1 DEF Handled
  <2>3. c.kind = "start" => running[c.session] = "none"
    BY DEF Base, StartsFirst
  <2> QED BY <1>2, <1>3, <1>5, <2>2, <2>3 DEF Answered
<1> QED BY <1>4, <1>5

LEMMA HandledKeepsKnown ==
  ASSUME Base, RunningKnown, NEW a \in Adapters, NEW c \in Posted(a), Handled(a, c)
  PROVE  RunningKnown'
<1>1. /\ Typed /\ HandledSets(a, c) /\ c \in CommandRecords /\ c \in Commands(a)
      /\ c.kind \in {"start", "stop", "update", "respond"}
  BY TypesHold, HandledChanges, CommandFields DEF Base, Typed
<1>2. /\ UNCHANGED <<mTracking, queue, dict, home>>
      /\ inbox[a] \in Seq(CommandRecords) /\ inbox[a] # <<>> /\ inbox'[a] = Tail(inbox[a])
      /\ c = Head(inbox[a])
  BY <1>1 DEF Handled, Typed
<1>3. SUFFICES ASSUME NEW s \in Sessions, running'[s] # "none" \/ Starting(s)'
               PROVE  \/ s \in DictSessions
                      \/ s = queue["tracking"].session /\ mTracking
                      \/ Stopping(s)' \/ s \in leftRunning'
  BY <1>1, <1>2 DEF RunningKnown, HandledSets
<1>4. running[s] # "none" \/ Starting(s)
  <2>1. Starting(s)' => Starting(s)
    BY <1>1 DEF HandledSets, Starting
  <2>2. running'[s] # "none" => running[s] # "none" \/ Starting(s)
    <3>1. CASE s # c.session \/ c.kind = "respond"
      BY <3>1, HandledElsewhere
    <3>2. CASE s = c.session /\ c.kind = "start"
      BY <3>2 DEF Starting
    <3>3. CASE s = c.session /\ c.kind \in {"stop", "update"}
      BY <3>3 DEF Handled, Unanswered, Answered
    <3> QED BY <1>1, <3>1, <3>2, <3>3
  <2> QED BY <1>3, <2>1, <2>2
<1>5. PICK b \in Adapters : b = home[s]
  BY <1>1 DEF Typed
<1>6. /\ Stopping(s) <=> \E x \in Inbox(b) : x.kind = "stop" /\ x.session = s
      /\ Stopping(s)' <=> \E x \in Inbox(b)' : x.kind = "stop" /\ x.session = s
  BY <1>2, <1>5 DEF Stopping
<1>7. s \in leftRunning => s \in leftRunning'
  BY DEF Handled, Unanswered, Answered
<1>8. CASE Stopping(s) /\ ~Stopping(s)' /\ s \notin DictSessions
  <2>1. c.kind = "stop" /\ c.session = s /\ a = b /\ home[s] = a
    BY <1>1, <1>5, <1>6, <1>8 DEF HandledSets
  <2>2. ~Starting(s)'
    <3>1. SUFFICES ASSUME NEW e \in Adapters, NEW d \in Posted(e)', d.kind = "start", d.session = s
                   PROVE  FALSE
      BY DEF Starting
    <3>2. d \in Commands(e)
      BY <1>1 DEF HandledSets, Typed
    <3>3. e = a
      BY <2>1, <3>1, <3>2, SessionsOfCommands DEF CommandFits
    <3> QED BY <1>2, <2>1, <3>1, <3>3, FirstTail DEF Posted, Base, StartsFirst
  <2>3. running'[s] # "none"
    BY <1>3, <2>2
  <2>4. CASE Unanswered(a, c)
    BY <2>1, <2>3, <2>4 DEF Unanswered
  <2>5. ASSUME NEW error \in BOOLEAN, Answered(a, c, error)
        PROVE  s \in leftRunning'
    BY <1>8, <2>1, <2>3, <2>5 DEF Answered
  <2> QED BY <2>4, <2>5 DEF Handled
<1> QED BY <1>4, <1>7, <1>8 DEF RunningKnown

(* What the adapter is asked of an id's session is answered.               *)
LEMMA KnownAreAnswered ==
  ASSUME Base, Matching, ~outOfStep', NEW a \in Adapters, NEW c \in Posted(a), Handled(a, c),
         c.kind # "respond", c.session \in KnownSessions, home[c.session] = a
  PROVE  \E error \in BOOLEAN : Answered(a, c, error)
<1>1. /\ HandledSets(a, c) /\ c \in CommandRecords /\ c \in Commands(a) /\ CommandFits(a, c)
  BY HandledChanges, TypesHold DEF Base, Typed, CommandsFit
<1>2. AnswererOf(c) = a /\ c \in Due(a)
  BY <1>1 DEF HandledSets, AnswererOf
<1>3. c.number > 0 /\ Seeks("session", c)
  <2>1. c.number # 0 /\ c.number \in Nat
    BY <1>1, Numbers DEF CommandFits
  <2>2. c.session # queue["tracking"].session
    BY KnownAreNumbered
  <2> QED BY <2>1, <2>2 DEF Seeks, Belongs
<1>4. WaitsForSession(c)
  BY <1>2, <1>3, Constants DEF Matching, CommandsWait, WaitsForSession, Waiting
<1> QED BY <1>4 DEF Handled, Unanswered

LEMMA HandledKeepsServed ==
  ASSUME Base, Matching, IdsServed, ~outOfStep', NEW a \in Adapters, NEW c \in Posted(a),
         Handled(a, c)
  PROVE  IdsServed'
<1>1. /\ Typed /\ HandledSets(a, c) /\ c \in CommandRecords /\ c \in Commands(a)
      /\ c.kind \in {"start", "stop", "update", "respond"} /\ c.number \in Nat
  BY TypesHold, HandledChanges, CommandFields DEF Base, Typed
<1>2. /\ UNCHANGED <<dict, home, updateRefused>>
      /\ \A b \in Adapters : b # a => answering'[b] = answering[b]
      /\ inbox[a] \in Seq(CommandRecords) /\ inbox[a] # <<>> /\ inbox'[a] = Tail(inbox[a])
      /\ c = Head(inbox[a]) /\ answering[a].at = "idle"
  BY <1>1 DEF Handled, Typed
<1>3. SUFFICES ASSUME NEW i \in Ids, NEW s \in Sessions, dict[i].session = s
               PROVE  Served(i, s)'
  BY <1>2 DEF IdsServed
<1>4. Served(i, s) /\ s \in KnownSessions
  BY <1>3, Constants DEF IdsServed, KnownSessions, DictSessions
<1>5. PICK b \in Adapters : b = home[s]
  BY <1>1 DEF Typed
<1>6. /\ Changing(s)' <=> \E d \in Inbox(b)' : Changes(d, s)
      /\ Changing(s) <=> \E d \in Inbox(b) : Changes(d, s)
      /\ Inbox(b)' \subseteq Inbox(b) /\ \A d \in Inbox(b) : d \in Inbox(b)' \/ (b = a /\ d = c)
  BY <1>1, <1>2, <1>5 DEF Changing, Changes, HandledSets
<1>7. Ending(s) => Ending(s)'
  <2>1. CASE answering["flp"].at = "trip" /\ answering["flp"].session = s
    BY <1>2, <2>1, Constants DEF Ending
  <2>2. ASSUME NEW e \in Adapters, ClientBusy(e), answering[e].command.session = s,
               \/ answering[e].command.kind = "stop" /\ ~answering[e].error
               \/ answering[e].command.kind \in {"start", "update"} /\ answering[e].error
        PROVE  Ending(s)'
    <3>1. answering'[e] = answering[e]
      BY <1>2, <2>2 DEF ClientBusy
    <3> QED BY <2>2, <3>1 DEF Ending, ClientBusy
  <2> QED BY <2>1, <2>2 DEF Ending
<1>8. ASSUME NEW d \in Inbox(b)', Changes(d, s)
      PROVE  \/ d.mode = dict[i].mode
             \/ \E e \in Inbox(b)' : Changes(e, s) /\ e.number > d.number
  <2>1. CASE d.mode = dict[i].mode
    BY <2>1
  <2>2. ASSUME NEW e \in Inbox(b), Changes(e, s), e.number > d.number
        PROVE  e \in Inbox(b)'
    <3>1. SUFFICES ASSUME e = c, b = a PROVE FALSE
      BY <1>6
    <3>2. d \in Commands(a) /\ d \in CommandRecords /\ d \in Range(Tail(inbox[a]))
      BY <1>1, <1>2, <1>6, <3>1 DEF Typed, Inbox, Posted
    <3>3. d.number \in Nat /\ d.number # 0
      BY <1>8, <3>2, Numbers DEF Changes, Base, CommandsFit, CommandFits
    <3>4. c.number < d.number
      BY <1>1, <1>2, <2>2, <3>1, <3>2, <3>3, Numbers, IncreasingTail DEF Base, InOrder
    <3> QED BY <1>1, <2>2, <3>1, <3>3, <3>4
  <2> QED BY <1>4, <1>5, <1>6, <1>8, <2>1, <2>2 DEF Served, Changes
<1>9. running'[s] = dict[i].mode \/ Changing(s)' \/ s \in updateRefused \/ Ending(s)'
  <2>1. CASE b # a \/ c.session # s \/ c.kind = "respond"
    <3>1. running'[s] = running[s]
      BY <1>5, <2>1, HandledElsewhere
    <3>2. Changing(s) => Changing(s)'
      BY <1>6, <2>1 DEF Changes
    <3> QED BY <1>4, <1>7, <3>1, <3>2 DEF Served
  <2>2. CASE b = a /\ c.session = s /\ c.kind # "respond"
    <3>1. PICK error \in BOOLEAN : Answered(a, c, error)
      BY <1>4, <1>5, <2>2, KnownAreAnswered
    <3>2. /\ answering'[a].at = "answer" /\ answering'[a].command = c
          /\ answering'[a].error = error
          /\ running'[s] = IF ~error THEN IF c.kind = "stop" THEN "none" ELSE c.mode
                           ELSE running[s]
      BY <2>2, <3>1 DEF Answered
    <3>3. CASE c.kind = "stop" /\ error
      <4>1. Changing(s) => Changing(s)'
        BY <1>6, <3>3 DEF Changes
      <4> QED BY <1>4, <1>7, <3>2, <3>3, <4>1 DEF Served
    <3>4. CASE (c.kind = "stop" /\ ~error) \/ (c.kind \in {"start", "update"} /\ error)
      BY <2>2, <3>2, <3>4 DEF Ending, ClientBusy
    <3>5. CASE c.kind \in {"start", "update"} /\ ~error
      <4>1. running'[s] = c.mode /\ Changes(c, s)
        BY <2>2, <3>2, <3>5 DEF Changes
      <4>2. c \in Inbox(b)
        BY <1>1, <1>5, <2>2 DEF Inbox, AnswererOf
      <4>3. CASE c.mode = dict[i].mode
        BY <4>1, <4>3
      <4>4. ASSUME NEW e \in Inbox(b), Changes(e, s), e.number > c.number
            PROVE  Changing(s)'
        <5>1. e # c
          BY <1>1, <4>4
        <5> QED BY <1>6, <4>4, <5>1
      <4> QED BY <1>4, <1>5, <4>1, <4>2, <4>3, <4>4 DEF Served, Changes
    <3> QED BY <1>1, <2>2, <3>3, <3>4, <3>5
  <2> QED BY <2>1, <2>2
<1> QED BY <1>2, <1>5, <1>8, <1>9 DEF Served, Changes

LEMMA HandledKeepsFollowing ==
  ASSUME Base, Matching, Following, ~outOfStep', NEW a \in Adapters, NEW c \in Posted(a),
         Handled(a, c)
  PROVE  Following'
BY HandledKeepsAnswers, HandledKeepsKnown, HandledKeepsServed DEF Following

LEMMA FoundKeepsFollowing ==
  ASSUME Base, Matching, Following, NEW a \in Adapters, NEW c \in Due(a), Found(a, c)
  PROVE  Following'
<1>1. Typed /\ FoundSets(a, c)
  BY TypesHold, FoundChanges DEF Base
<1>2. /\ answering[a].at = "answer" /\ answering[a].command = c
      /\ c \in Commands(a) /\ c \in CommandRecords
      /\ \A b \in Adapters : b # a => answering'[b] = answering[b]
      /\ UNCHANGED <<mTracking, dict, inbox, home, running, leftRunning, updateRefused>>
      /\ queue'["tracking"].session = queue["tracking"].session
  BY <1>1, Constants DEF Typed, Found, FoundSets
<1>3. ClientAnswersFit'
  BY <1>1, <1>2 DEF Following, ClientAnswersFit, FoundSets
<1>4. RunningKnown'
  <2>1. SUFFICES ASSUME NEW s \in Sessions, running[s] # "none" \/ Starting(s)'
                 PROVE  \/ s \in DictSessions
                        \/ s = queue["tracking"].session /\ mTracking
                        \/ Stopping(s)' \/ s \in leftRunning
    BY <1>1, <1>2 DEF RunningKnown, FoundSets
  <2>2. PICK b \in Adapters : b = home[s]
    BY <1>1 DEF Typed
  <2>3. (Starting(s)' <=> Starting(s)) /\ (Stopping(s)' <=> Stopping(s))
    BY <1>1, <1>2, <2>2 DEF Starting, Stopping, FoundSets
  <2> QED BY <2>1, <2>3 DEF Following, RunningKnown
<1>5. IdsServed'
  <2>1. SUFFICES ASSUME NEW i \in Ids, NEW s \in Sessions, dict[i].session = s
                 PROVE  Served(i, s)'
    BY <1>2 DEF IdsServed
  <2>2. Served(i, s) /\ s \in DictSessions /\ s \in KnownSessions
    BY <2>1, Constants DEF Following, IdsServed, DictSessions, KnownSessions
  <2>3. PICK b \in Adapters : b = home[s] /\ Inbox(b)' = Inbox(b)
    BY <1>1 DEF Typed, FoundSets
  <2>4. Changing(s) => Changing(s)'
    BY <1>2, <2>3 DEF Changing, Changes
  <2>5. Ending(s) => Ending(s)'
    <3>1. CASE \E q \in Queues : FoundIn(a, c, q)
      <4>1. \A e \in Adapters : ClientBusy(e) =>
              /\ ClientBusy(e)' /\ answering'[e].command = answering[e].command
              /\ answering'[e].error = answering[e].error
        BY <1>2, <3>1 DEF ClientBusy, FoundIn
      <4>2. answering["flp"].at = "trip" => answering'["flp"] = answering["flp"]
        BY <1>2, Constants
      <4> QED BY <4>1, <4>2 DEF Ending
    <3>2. CASE FoundNone(a, c)
      <4>1. c.session = s => c.kind = "respond"
        <5>1. SUFFICES ASSUME c.session = s, c.kind # "respond" PROVE FALSE
          OBVIOUS
        <5>2. CommandFits(a, c) /\ c.number \in Nat
          BY <1>2, Numbers DEF Base, CommandsFit
        <5>3. queue["tracking"].session # s
          BY <2>2, KnownAreNumbered
        <5>4. c.number > 0 /\ Seeks("session", c)
          BY <2>2, <5>1, <5>2, <5>3 DEF CommandFits, Seeks, Belongs
        <5>5. queue["session"].requests # <<>>
          <6>1. Waiting("session") # {}
            BY <5>4, Constants DEF Matching, CommandsWait
          <6> QED BY <6>1 DEF Waiting, Range
        <5> QED BY <2>2, <3>2, <5>1, <5>3, <5>5 DEF FoundNone, QueueOf
      <4>2. \A e \in Adapters : e # a => (ClientBusy(e)' <=> ClientBusy(e))
        BY <1>2 DEF ClientBusy
      <4>3. answering["flp"].at = "trip" => answering'["flp"] = answering["flp"]
        BY <1>2, Constants
      <4> QED BY <1>2, <4>1, <4>2, <4>3 DEF Ending
    <3> QED BY <3>1, <3>2 DEF Found
  <2> QED BY <1>2, <2>2, <2>3, <2>4, <2>5 DEF Served, Changes
<1> QED BY <1>3, <1>4, <1>5 DEF Following

(* A session that ends keeps what answers say.                             *)
LEMMA EndsKeepsAnswers ==
  ASSUME Base, Following, Ends
  PROVE  ClientAnswersFit'
<1>1. SUFFICES ASSUME NEW b \in Adapters, ClientBusy(b)', NEW d, d = answering'[b].command
               PROVE  /\ d.kind = "start" /\ answering'[b].error => running'[d.session] = "none"
                      /\ d.kind = "stop" /\ ~answering'[b].error => running'[d.session] = "none"
  BY DEF ClientAnswersFit
<1>2. ClientBusy(b) /\ answering'[b] = answering[b] /\ d \in Commands(b)
  BY <1>1 DEF Ends, Commands
<1>3. d.kind # "respond" => d.session \in Sessions
  BY <1>2, SessionsOfCommands
<1> QED BY <1>1, <1>2, <1>3 DEF Following, ClientAnswersFit, Ends

(* A session that runs or starts stays known when an id loses another.     *)
LEMMA EndsKeepsKnown ==
  ASSUME Base, Following, Ends,
         \A s \in DictSessions : s \in DictSessions' \/ (running[s] = "none" /\ ~Starting(s))
  PROVE  RunningKnown'
<1>1. SUFFICES ASSUME NEW s \in Sessions, running'[s] # "none" \/ Starting(s)'
               PROVE  \/ s \in DictSessions'
                      \/ s = queue["tracking"].session /\ mTracking
                      \/ Stopping(s)' \/ s \in leftRunning
  BY DEF RunningKnown, Ends
<1>2. PICK b \in Adapters : b = home[s]
  BY TypesHold DEF Base, Typed
<1>3. (Starting(s)' <=> Starting(s)) /\ (Stopping(s)' <=> Stopping(s))
  BY <1>2 DEF Starting, Stopping, Ends
<1>4. running[s] # "none" \/ Starting(s)
  BY <1>1, <1>3 DEF Ends
<1> QED BY <1>3, <1>4 DEF Following, RunningKnown

LEMMA EndsKeepsChanging ==
  ASSUME Base, Ends, NEW s \in Sessions
  PROVE  /\ Inbox(home[s])' = Inbox(home[s])
         /\ Changing(s)' <=> Changing(s)
<1>1. PICK b \in Adapters : b = home[s]
  BY TypesHold DEF Base, Typed
<1> QED BY <1>1 DEF Ends, Changing, Changes

LEMMA DeliveredKeepsFollowing ==
  ASSUME Base, Matching, Following, Ends, NEW a \in Adapters, NEW c \in Commands(a),
         NEW r \in RequestRecords, Delivered(a, c, r)
  PROVE  Following'
<1>1. /\ Typed /\ ClientBusy(a) /\ answering[a].at = "call" /\ answering[a].command = c
      /\ KindFits(r, c) /\ c \in CommandRecords
  BY TypesHold DEF Base, Typed, ClientBusy, Delivered, Matching, CallsFit
<1>2. \A i \in Ids : dict'[i] =
        IF RequestEnds(r, answering[a].error) /\ dict[i].session = c.session
        THEN NoEntity ELSE dict[i]
  BY DEF Delivered
<1>3. RequestEnds(r, answering[a].error) /\ c.kind # "respond" =>
        running[c.session] = "none" /\ ~Starting(c.session)
  <2>1. SUFFICES ASSUME RequestEnds(r, answering[a].error), c.kind # "respond"
                 PROVE  running[c.session] = "none" /\ ~Starting(c.session)
    OBVIOUS
  <2>2. running[c.session] = "none"
    BY <1>1, <2>1 DEF RequestEnds, KindFits, Following, ClientAnswersFit
  <2>3. ASSUME NEW b \in Adapters, NEW d \in Posted(b), d.kind = "start", d.session = c.session
        PROVE  FALSE
    <3>1. d \in Commands(b) /\ home[d.session] = b
      BY <1>1, <2>3, SessionsOfCommands DEF Typed, CommandFits
    <3>2. home[c.session] = a
      BY <1>1, <2>1 DEF Base, CommandsFit, AnswererOf
    <3> QED BY <1>1, <2>1, <2>3, <3>1, <3>2 DEF Base, StartsFirst
  <2> QED BY <2>2, <2>3 DEF Starting
<1>4. RequestEnds(r, answering[a].error) => c.kind # "respond"
  BY <1>1 DEF RequestEnds, KindFits
<1>5. \A s \in DictSessions : s \in DictSessions' \/ (running[s] = "none" /\ ~Starting(s))
  <2>1. SUFFICES ASSUME NEW s \in DictSessions, s \notin DictSessions'
                 PROVE  running[s] = "none" /\ ~Starting(s)
    OBVIOUS
  <2>2. PICK i \in Ids : dict[i].session = s /\ s # NoSession
    BY DEF DictSessions
  <2>3. RequestEnds(r, answering[a].error) /\ c.session = s
    BY <1>2, <2>1, <2>2 DEF DictSessions
  <2> QED BY <1>3, <1>4, <2>3
<1>6. IdsServed'
  <2>1. SUFFICES ASSUME NEW i \in Ids, NEW s \in Sessions, dict'[i].session = s
                 PROVE  Served(i, s)'
    BY DEF IdsServed
  <2>2. /\ dict'[i] = dict[i] /\ dict[i].session = s
        /\ ~(RequestEnds(r, answering[a].error) /\ c.session = s)
    BY <1>2, <2>1, Constants DEF NoEntity
  <2>3. Served(i, s)
    BY <2>2 DEF Following, IdsServed
  <2>4. /\ Inbox(home[s])' = Inbox(home[s]) /\ (Changing(s) => Changing(s)')
        /\ running' = running /\ \A t \in updateRefused : t \in updateRefused'
    BY EndsKeepsChanging DEF Delivered
  <2>5. Ending(s) => Ending(s)' \/ s \in updateRefused'
    <3>1. CASE answering["flp"].at = "trip" /\ answering["flp"].session = s
      BY <1>1, <3>1, Constants DEF Ending, Delivered
    <3>2. ASSUME NEW e \in Adapters, ClientBusy(e), answering[e].command.session = s,
                 \/ answering[e].command.kind = "stop" /\ ~answering[e].error
                 \/ answering[e].command.kind \in {"start", "update"} /\ answering[e].error
          PROVE  Ending(s)' \/ s \in updateRefused'
      <4>1. CASE e # a
        <5>1. answering'[e] = answering[e]
          BY <4>1 DEF Delivered
        <5> QED BY <3>2, <5>1 DEF Ending, ClientBusy
      <4>2. CASE e = a
        <5>1. r.kind = "update" /\ answering[a].error
          BY <1>1, <2>2, <3>2, <4>2 DEF KindFits, RequestEnds
        <5> QED BY <1>1, <3>2, <4>2, <5>1 DEF Delivered
      <4> QED BY <4>1, <4>2
    <3> QED BY <3>1, <3>2 DEF Ending
  <2> QED BY <2>2, <2>3, <2>4, <2>5 DEF Served, Changes
<1> QED BY <1>5, <1>6, EndsKeepsAnswers, EndsKeepsKnown DEF Following

LEMMA TripOverKeepsFollowing ==
  ASSUME Base, Following, Ends, NEW t \in Sessions, TripOver(t)
  PROVE  Following'
<1>1. DictSessions' = DictSessions
  BY DEF TripOver, DictSessions
<1>2. IdsServed'
  <2>1. SUFFICES ASSUME NEW i \in Ids, NEW s \in Sessions, dict[i].session = s
                 PROVE  Served(i, s)'
    BY DEF IdsServed, TripOver
  <2>2. Served(i, s)
    BY <2>1 DEF Following, IdsServed
  <2>3. /\ Inbox(home[s])' = Inbox(home[s]) /\ (Changing(s) => Changing(s)')
        /\ UNCHANGED <<dict, updateRefused>>
    BY EndsKeepsChanging DEF TripOver
  <2>4. Ending(s) => Ending(s)'
    <3>1. /\ answering["flp"].at = "idle" /\ ~ClientBusy("flp")
          /\ answering'["gnss"] = answering["gnss"]
      BY DEF TripOver, ClientBusy
    <3> QED BY <3>1, Constants DEF Ending, ClientBusy
  <2>5. running[s] = dict[i].mode => running'[s] = dict[i].mode \/ Ending(s)'
    <3>1. CASE s # t
      BY <3>1 DEF TripOver
    <3>2. CASE s = t /\ running[s] = dict[i].mode
      BY <2>1, <3>2 DEF TripOver, Ending
    <3> QED BY <3>1, <3>2
  <2> QED BY <2>2, <2>3, <2>4, <2>5 DEF Served, Changes
<1> QED BY <1>1, <1>2, EndsKeepsAnswers, EndsKeepsKnown DEF Following

LEMMA TripGoneKeepsFollowing ==
  ASSUME Base, Following, Ends, NEW t \in Sessions, TripGone(t)
  PROVE  Following'
<1>1. /\ answering["flp"].at = "trip" /\ t = answering["flp"].session
      /\ answering'["gnss"] = answering["gnss"]
      /\ \A i \in Ids : dict'[i] = IF dict[i].session = t THEN NoEntity ELSE dict[i]
      /\ UNCHANGED <<inbox, running, updateRefused>>
  BY DEF TripGone
<1>2. running[t] = "none" /\ ~Starting(t)
  <2>1. /\ running[t] = "none" /\ home[t] = "flp"
        /\ \A d \in Posted("flp") : d.kind = "start" => d.session # t
    BY <1>1 DEF Base, TripsFit
  <2>2. \A d \in Posted("gnss") : d.kind = "start" => d.session # t
    <3>1. \A d \in Posted("gnss") : d \in Commands("gnss")
      BY TypesHold, Constants DEF Base, Typed
    <3> QED BY <2>1, <3>1, SessionsOfCommands, Constants DEF CommandFits
  <2> QED BY <2>1, <2>2, Constants DEF Starting
<1>3. \A s \in DictSessions : s \in DictSessions' \/ (running[s] = "none" /\ ~Starting(s))
  <2>1. SUFFICES ASSUME NEW s \in DictSessions, s \notin DictSessions' PROVE s = t
    BY <1>2
  <2>2. PICK i \in Ids : dict[i].session = s /\ s # NoSession
    BY DEF DictSessions
  <2> QED BY <1>1, <2>1, <2>2 DEF DictSessions
<1>4. IdsServed'
  <2>1. SUFFICES ASSUME NEW i \in Ids, NEW s \in Sessions, dict'[i].session = s
                 PROVE  Served(i, s)'
    BY DEF IdsServed
  <2>2. dict'[i] = dict[i] /\ dict[i].session = s /\ s # t
    BY <1>1, <2>1, Constants DEF NoEntity
  <2>3. Served(i, s)
    BY <2>2 DEF Following, IdsServed
  <2>4. Inbox(home[s])' = Inbox(home[s]) /\ (Changing(s) => Changing(s)')
    BY EndsKeepsChanging
  <2>5. Ending(s) => Ending(s)'
    <3>1. ~ClientBusy("flp") /\ answering["flp"].session # s
      BY <1>1, <2>2 DEF ClientBusy
    <3> QED BY <1>1, <3>1, Constants DEF Ending, ClientBusy
  <2> QED BY <1>1, <2>2, <2>3, <2>4, <2>5 DEF Served, Changes
<1> QED BY <1>3, <1>4, EndsKeepsAnswers, EndsKeepsKnown DEF Following

LEMMA BeginKeepsFollowing ==
  ASSUME Base, Following, BeginSets
  PROVE  Following'
<1>1. /\ UNCHANGED <<mTracking, queue, dict, answering, home, running, leftRunning,
                     updateRefused>>
      /\ DictSessions' = DictSessions
      /\ \A b \in Adapters : /\ Posted(b)' = Posted(b) /\ Inbox(b)' = Inbox(b)
                             /\ (ClientBusy(b)' <=> ClientBusy(b))
  BY DEF BeginSets
<1>2. ASSUME NEW s \in Sessions
      PROVE  /\ Inbox(home[s])' = Inbox(home[s]) /\ (Stopping(s)' <=> Stopping(s))
             /\ (Changing(s)' <=> Changing(s)) /\ (Starting(s)' <=> Starting(s))
             /\ (Ending(s)' <=> Ending(s))
  <2>1. PICK b \in Adapters : b = home[s]
    BY TypesHold DEF Base, Typed
  <2>2. Inbox(home[s])' = Inbox(home[s])
    BY <1>1, <2>1
  <2> QED BY <1>1, <2>2 DEF Stopping, Changing, Starting, Changes, Ending
<1>3. ClientAnswersFit'
  BY <1>1 DEF Following, ClientAnswersFit
<1>4. RunningKnown'
  BY <1>1, <1>2 DEF Following, RunningKnown
<1>5. IdsServed'
  <2>1. SUFFICES ASSUME NEW i \in Ids, NEW s \in Sessions, dict[i].session = s
                 PROVE  Served(i, s)'
    BY <1>1 DEF IdsServed
  <2>2. Served(i, s)
    BY <2>1 DEF Following, IdsServed
  <2> QED BY <1>1, <1>2, <2>2 DEF Served, Changes
<1> QED BY <1>3, <1>4, <1>5 DEF Following

-----------------------------------------------------------------------------
(* The inductive invariant.                                                *)

IInv == Base /\ (~outOfStep => Matching /\ Following)

LEMMA InitIInv == ClientInit => IInv
<1> SUFFICES ASSUME ClientInit PROVE IInv
  OBVIOUS
<1>1. /\ \A q \in Queues : /\ queue[q].session = 0 /\ queue[q].requests = <<>>
                           /\ Waiting(q) = {}
      /\ \A i \in Ids : dict[i] = NoEntity
      /\ DictSessions = {} /\ KnownSessions = {} /\ MutexFree
      /\ \A a \in Adapters : /\ inbox[a] = <<>> /\ answering[a] = NotAnswering
                             /\ answering[a].at = "idle" /\ ~ClientBusy(a)
                             /\ Posted(a) = {} /\ Inbox(a) = {} /\ Due(a) = {} /\ Commands(a) = {}
      /\ \A s \in Sessions : running[s] = "none" /\ home[s] = "flp"
      /\ lastSession = 0 /\ lastRequest = 0
  <2>1. \A q \in Queues : queue[q].session = 0 /\ queue[q].requests = <<>>
    BY DEF ClientInit, NoSession
  <2>2. \A q \in Queues : Waiting(q) = {}
    BY <2>1 DEF Waiting, Range
  <2>3. \A a \in Adapters : inbox[a] = <<>> /\ answering[a] = NotAnswering
    BY DEF ClientInit
  <2>4. \A a \in Adapters : Posted(a) = {} /\ Inbox(a) = {}
    BY <2>3 DEF Posted, Inbox, Range
  <2>5. \A a \in Adapters : ~ClientBusy(a) /\ answering[a].at = "idle"
    BY <2>3 DEF ClientBusy, NotAnswering
  <2>6. DictSessions = {} /\ \A i \in Ids : dict[i] = NoEntity
    BY DEF ClientInit, DictSessions, NoEntity
  <2>7. KnownSessions = {} /\ MutexFree
    BY <2>6 DEF KnownSessions, MutexFree, ClientInit, NoUpdate
  <2> QED BY <2>1, <2>2, <2>3, <2>4, <2>5, <2>6, <2>7 DEF ClientInit, Due, Commands
<1>2. ClientTypeOK
  <2>1. \A q \in Queues : [session |-> NoSession, requests |-> <<>>] \in QueueRecords
    BY DEF QueueRecords
  <2>2. queue \in [Queues -> QueueRecords]
    BY <2>1 DEF ClientInit
  <2>3. inbox \in [Adapters -> Seq(CommandRecords)] /\ dict \in [Ids -> Entities]
        /\ answering \in [Adapters -> AnsweringRecords] /\ updating \in Updates
    BY DEF ClientInit, Entities, AnsweringRecords, Updates
  <2>4. running \in [Sessions -> Modes \cup {"fix", "none"}] /\ home \in [Sessions -> Adapters]
    BY Constants DEF ClientInit
  <2>5. lastSession \in 0..MaxSessions /\ lastRequest \in 0..MaxRequests
    BY Constants DEF ClientInit
  <2>6. /\ mTracking \in BOOLEAN /\ outOfStep \in BOOLEAN
        /\ leftRunning \in SUBSET Sessions /\ updateRefused \in SUBSET Sessions
    BY DEF ClientInit
  <2> QED BY <2>2, <2>3, <2>4, <2>5, <2>6, ClientTypeParts
<1>3. InOrder /\ CommandsFit /\ KindsFit /\ StartsFirst /\ NumbersFit
  <2>1. \A q \in Queues : Increasing(queue[q].requests)
    BY <1>1 DEF Increasing
  <2>2. \A a \in Adapters : Increasing(inbox[a]) /\ FirstIn(inbox[a])
    BY <1>1 DEF Increasing, FirstIn
  <2> QED BY <1>1, <2>1, <2>2, Constants
            DEF InOrder, CommandsFit, KindsFit, StartsFirst, NumbersFit
<1>4. ClientSessionsFit /\ UpdateFits /\ TripsFit /\ Apart
  BY <1>1, Constants DEF ClientSessionsFit, UpdateFits, TripsFit, Apart, NoEntity
<1>5. Matching
  BY <1>1, Constants DEF Matching, CallsFit, CommandsWait, RequestsWait
<1>6. Following
  BY <1>1, Constants
     DEF Following, ClientAnswersFit, RunningKnown, IdsServed, Starting, NoEntity
<1> QED BY <1>2, <1>3, <1>4, <1>5, <1>6 DEF IInv, Base

LEMMA StepIInv == IInv /\ ClientNext => IInv'
<1> SUFFICES ASSUME IInv, ClientNext PROVE IInv'
  OBVIOUS
<1>1. Base /\ ClientTypeOK' /\ (~outOfStep => Matching /\ Following)
  BY Steps DEF IInv
<1>2. ASSUME NEW a \in Adapters, NEW q \in Queues, NEW c \in CommandRecords,
             NEW r \in RequestRecords, Called(a, q, c, r)
      PROVE  IInv'
  <2>1. Base' /\ (outOfStep => outOfStep')
    BY <1>1, <1>2, CallKeepsBase DEF Called
  <2> QED BY <1>1, <1>2, <2>1, CallKeepsMatching, CallKeepsFollowing DEF IInv
<1>3. ASSUME UpdateBegins
      PROVE  IInv'
  <2>1. BeginSets
    BY <1>1, <1>3, BeginChanges
  <2>2. Base' /\ outOfStep' = outOfStep
    BY <1>1, <1>3, <2>1, BeginKeepsBase DEF BeginSets
  <2> QED BY <1>1, <2>1, <2>2, BeginKeepsMatching, BeginKeepsFollowing DEF IInv
<1>4. ASSUME NEW a \in Adapters, NEW c \in Posted(a), Handled(a, c)
      PROVE  IInv'
  <2>1. Base' /\ (outOfStep => outOfStep')
    BY <1>1, <1>4, HandledKeepsBase DEF Handled, Unanswered, Answered
  <2> QED BY <1>1, <1>4, <2>1, HandledKeepsMatching, HandledKeepsFollowing DEF IInv
<1>5. ASSUME NEW a \in Adapters, NEW c \in Due(a), Found(a, c)
      PROVE  IInv'
  <2>1. Base' /\ outOfStep' = (outOfStep \/ Skips(c))
    BY <1>1, <1>5, FoundKeepsBase DEF Found
  <2> QED BY <1>1, <1>5, <2>1, FoundKeepsMatching, FoundKeepsFollowing DEF IInv
<1>6. ASSUME NEW a \in Adapters, NEW c \in Commands(a), NEW r \in RequestRecords,
             Delivered(a, c, r)
      PROVE  IInv'
  <2>1. Ends
    BY <1>1, <1>6, EndsChanges
  <2>2. Base' /\ outOfStep' = outOfStep
    BY <1>1, <1>6, <2>1, EndsKeepsBase DEF Ends
  <2> QED BY <1>1, <1>6, <2>1, <2>2, EndsKeepsMatching, DeliveredKeepsFollowing DEF IInv
<1>7. ASSUME NEW s \in Sessions, TripOver(s) \/ TripGone(s)
      PROVE  IInv'
  <2>1. Ends
    BY <1>1, <1>7, EndsChanges
  <2>2. Base' /\ outOfStep' = outOfStep
    BY <1>1, <1>7, <2>1, EndsKeepsBase DEF Ends
  <2> QED BY <1>1, <1>7, <2>1, <2>2, EndsKeepsMatching, TripOverKeepsFollowing,
             TripGoneKeepsFollowing DEF IInv
<1> QED BY <1>1, <1>2, <1>3, <1>4, <1>5, <1>6, <1>7, Steps DEF SomeCall

LEMMA StutterIInv == IInv /\ UNCHANGED clientVars => IInv'
<1> SUFFICES ASSUME IInv, UNCHANGED clientVars PROVE IInv'
  OBVIOUS
<1>1. UNCHANGED <<mTracking, queue, dict, updating, inbox, answering, home, running,
                  lastSession, lastRequest, outOfStep, leftRunning, updateRefused>>
  BY DEF clientVars
<1>2. (ClientTypeOK' <=> ClientTypeOK) /\ (InOrder' <=> InOrder)
  BY <1>1 DEF ClientTypeOK, InOrder, Waiting, Posted, Commands, ClientBusy
<1>3. (CommandsFit' <=> CommandsFit) /\ (KindsFit' <=> KindsFit)
      /\ (ClientSessionsFit' <=> ClientSessionsFit) /\ (UpdateFits' <=> UpdateFits)
  BY <1>1 DEF CommandsFit, CommandFits, KindsFit, ClientSessionsFit, UpdateFits, Commands, Posted,
              ClientBusy, AnswererOf, KnownSessions, DictSessions, Waiting, MutexFree
<1>4. (TripsFit' <=> TripsFit) /\ (Apart' <=> Apart)
  BY <1>1 DEF TripsFit, Apart, Posted, KnownSessions, DictSessions
<1>5. (StartsFirst' <=> StartsFirst) /\ (NumbersFit' <=> NumbersFit)
  BY <1>1 DEF StartsFirst, NumbersFit, Belongs, KindFits, Posted, Inbox, AnswererOf, Due,
              ClientBusy, Waiting
<1>6. Matching' <=> Matching
  BY <1>1 DEF Matching, CallsFit, KindFits, CommandsWait, Seeks, Belongs, RequestsWait,
              TrackingOver, Posted, Inbox, AnswererOf, Due, Waiting, KnownSessions, DictSessions
<1>7. Following' <=> Following
  <2>1. ClientAnswersFit' <=> ClientAnswersFit
    BY <1>1 DEF ClientAnswersFit, ClientBusy
  <2>2. RunningKnown' <=> RunningKnown
    BY <1>1 DEF RunningKnown, Starting, Stopping, DictSessions, Posted, Inbox, AnswererOf
  <2>3. IdsServed' <=> IdsServed
    BY <1>1 DEF IdsServed, Served, Changing, Changes, Ending, ClientBusy, Posted, Inbox, AnswererOf
  <2> QED BY <2>1, <2>2, <2>3 DEF Following
<1> QED BY <1>1, <1>2, <1>3, <1>4, <1>5, <1>6, <1>7 DEF IInv, Base

LEMMA IInvHolds == ClientSpec => []IInv
<1>1. IInv /\ [ClientNext]_clientVars => IInv'
  BY StepIInv, StutterIInv
<1> QED BY <1>1, InitIInv, PTL DEF ClientSpec

-----------------------------------------------------------------------------
(* What it says of the client.                                             *)

(* For any ids, sessions and requests: queues, sessions, inboxes and       *)
(* callbacks of LocationAPIClientBase and its adapters have their types.   *)
THEOREM ClientTypeCorrect == ClientSpec => []ClientTypeOK
<1>1. IInv => ClientTypeOK
  BY DEF IInv, Base
<1> QED BY <1>1, IInvHolds, PTL

(* For any ids, sessions and requests, and wherever tracking sessions are  *)
(* started: until a queue gets out of step with its answers, what          *)
(* getRequestBySession takes from the front of a queue is the request of   *)
(* the command that is answered, however calls, both adapters' answers,    *)
(* updates and trips interleave.                                           *)
THEOREM ResponsesAreMatched == ClientSpec => []ResponsesMatch
<1>1. IInv => ResponsesMatch
  BY DEF IInv, Matching, CallsFit, ResponsesMatch
<1> QED BY <1>1, IInvHolds, PTL

LEMMA InboxPends ==
  ASSUME ClientTypeOK, NEW s \in Sessions, NEW c \in Inbox(home[s]), c.session = s,
         NEW kinds, c.kind \in kinds
  PROVE  Pending(s, kinds)
BY DEF Pending, Inbox, Posted

LEMMA SessionsFollowHolds == IInv => SessionsFollow
<1> SUFFICES ASSUME Base, Matching, Following
             PROVE  /\ \A s \in Sessions : running[s] # "none" =>
                         \/ s \in DictSessions
                         \/ s = queue["tracking"].session /\ mTracking
                         \/ Pending(s, {"stop"}) \/ s \in leftRunning
                    /\ \A s \in DictSessions :
                         \/ running[s] # "none"
                         \/ Pending(s, {"start", "stop", "update"}) \/ s \in updateRefused
                         \/ answering["flp"] = [at |-> "trip", session |-> s]
  BY DEF IInv, SessionsFollow
<1>1. ClientTypeOK /\ Typed
  BY TypesHold DEF Base
<1>2. ASSUME NEW s \in Sessions, running[s] # "none"
      PROVE  \/ s \in DictSessions
             \/ s = queue["tracking"].session /\ mTracking
             \/ Pending(s, {"stop"}) \/ s \in leftRunning
  <2>1. Stopping(s) => Pending(s, {"stop"})
    BY <1>1, InboxPends DEF Stopping
  <2> QED BY <1>2, <2>1 DEF Following, RunningKnown
<1>3. ASSUME NEW s \in DictSessions
      PROVE  \/ running[s] # "none"
             \/ Pending(s, {"start", "stop", "update"}) \/ s \in updateRefused
             \/ answering["flp"] = [at |-> "trip", session |-> s]
  <2>1. PICK i \in Ids : dict[i].session = s /\ s \in Sessions
    BY <1>1 DEF Typed
  <2>2. Served(i, s)
    BY <2>1 DEF Following, IdsServed
  <2>3. dict[i].mode # "none"
    BY <1>1, <2>1, EntityFields, Constants DEF Typed, NoEntity
  <2>4. CASE Changing(s)
    BY <1>1, <2>1, <2>4, InboxPends DEF Changing, Changes
  <2>5. CASE Ending(s)
    <3>1. CASE answering["flp"].at = "trip" /\ answering["flp"].session = s
      BY <1>1, <3>1, AnsweringFields, Constants DEF Typed
    <3>2. ASSUME NEW a \in Adapters, ClientBusy(a), answering[a].command.session = s,
                 answering[a].command.kind \in {"start", "stop", "update"}
          PROVE  Pending(s, {"start", "stop", "update"})
      <4>1. home[s] = a
        BY <3>2 DEF Base, CommandsFit, AnswererOf
      <4> QED BY <3>2, <4>1 DEF Pending, ClientBusy
    <3> QED BY <2>5, <3>1, <3>2 DEF Ending
  <2> QED BY <2>2, <2>3, <2>4, <2>5 DEF Served
<1> QED BY <1>2, <1>3

(* For any ids, sessions and requests, and wherever tracking sessions are  *)
(* started: until a queue gets out of step with its answers, a session     *)
(* that runs is known to the client, or its stop is on its way or failed,  *)
(* and an id that the client holds stands for a session that runs or is    *)
(* about to, or whose end is being told.                                   *)
THEOREM SessionsAreFollowed == ClientSpec => []SessionsFollow
<1> QED BY SessionsFollowHolds, IInvHolds, PTL
=============================================================================
