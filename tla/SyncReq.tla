------------------------------- MODULE SyncReq -------------------------------
(***************************************************************************)
(* The synchronous-request interface of the LOC API client                 *)
(* (location/loc_api/loc_api_v02/loc_api_sync_req.c).  A thread calls      *)
(* loc_sync_send_req: it takes one of the slots, registers the indication  *)
(* it waits for, sends the request to the modem and blocks in a timed wait *)
(* on the slot's condition variable.  The QMI callback thread runs         *)
(* loc_sync_process_ind for every answer: it scans the slots, copies the   *)
(* payload into the buffer of the first caller that waits for it, and      *)
(* signals or remembers the arrival.                                       *)
(*                                                                         *)
(* Locks.  loc_sync_call_mutex is held for a whole scan, so it is held     *)
(* exactly while ind # NoInd, and allocating or freeing a slot needs       *)
(* ind = NoInd.  A slot's sync_req_lock is held for one action at a time.  *)
(* The fields ind_is_selected and req_id are written and never read, and   *)
(* are left out.  A key stands for the pair (client_handle, recv_ind_id).  *)
(* Every indication of the modem carries a payload.                        *)
(***************************************************************************)
EXTENDS Integers

CONSTANTS
  Callers,   \* threads that call loc_sync_send_req
  Keys,      \* (client handle, indication id) pairs
  NSlots,    \* LOC_SYNC_REQ_BUFFER_SIZE
  MaxCalls,  \* bound on the requests sent to the modem
  NoKey, NoCaller, NoInd

ASSUME NSlotsAssumption == NSlots \in Nat \ {0}
ASSUME MaxCallsAssumption == MaxCalls \in Nat
ASSUME NullsAssumption == NoKey \notin Keys /\ NoCaller \notin Callers

Slots == 0 .. NSlots - 1
NoSlot == -1

(* What the modem answers: the key of the request and the request's serial *)
(* number, which stands for the content of the payload.                    *)
Answers == [key : Keys, serial : 1 .. MaxCalls]
ASSUME NoIndAssumption == NoInd \notin Answers

VARIABLES
  \* loc_sync_array
  inUse,      \* in_use
  slotInUse,  \* slot_in_use[]
  slotKey,    \* slots[].client_handle and recv_ind_id
  waiting,    \* slots[].ind_is_waiting
  arrived,    \* slots[].ind_has_arrived
  dest,       \* slots[].recv_ind_payload_ptr: whose buffer, NoCaller: NULL
  signalled,  \* a signal on ind_arrived_cond has not been taken by its waiter
  \* the threads inside loc_sync_send_req
  pc, sel, key, wants, status, buf,
  \* the QMI callback thread inside loc_sync_process_ind
  ind, cursor, seen, consumed,
  \* the modem
  answers, calls,
  \* history
  hit,        \* hit[s]: an indication matched slot s since it was selected
  why         \* why[c]: what ended c's wait

fieldVars == <<slotKey, waiting, arrived, dest>>
slotVars == <<inUse, slotInUse, fieldVars, signalled>>
callerVars == <<pc, sel, key, wants, status, buf>>
indVars == <<ind, cursor, seen, consumed>>
modemVars == <<answers, calls>>
vars == <<slotVars, callerVars, indVars, modemVars, hit, why>>

(* loc_sync_req_init: the calls after the first find it initialized. *)
Init ==
  /\ inUse = FALSE
  /\ slotInUse = [s \in Slots |-> FALSE]
  /\ slotKey = [s \in Slots |-> NoKey]
  /\ waiting = [s \in Slots |-> FALSE]
  /\ arrived = [s \in Slots |-> FALSE]
  /\ dest = [s \in Slots |-> NoCaller]
  /\ signalled = [s \in Slots |-> FALSE]
  /\ pc = [c \in Callers |-> "idle"]
  /\ sel = [c \in Callers |-> NoSlot]
  /\ key = [c \in Callers |-> NoKey]
  /\ wants = [c \in Callers |-> FALSE]
  /\ status = [c \in Callers |-> "SUCCESS"]
  /\ buf = [c \in Callers |-> 0]
  /\ ind = NoInd /\ cursor = 0 /\ seen = FALSE /\ consumed = FALSE
  /\ answers = {} /\ calls = 0
  /\ hit = [s \in Slots |-> FALSE]
  /\ why = [c \in Callers |-> "none"]

-----------------------------------------------------------------------------
(* A thread inside loc_sync_send_req. *)

CallMutexFree == ind = NoInd

IsFirstFree(s) == ~slotInUse[s] /\ \A t \in 0 .. s - 1 : slotInUse[t]

(* loc_sync_send_req up to loc_alloc_slot, for a request with key k and a  *)
(* payload pointer that is NULL unless w: the first free slot is taken; if *)
(* there is none the call ends, with the status it started with.           *)
AllocSlot(c, k, w) ==
  /\ pc[c] = "idle"
  /\ CallMutexFree
  /\ key' = [key EXCEPT ![c] = k]
  /\ wants' = [wants EXCEPT ![c] = w]
  /\ \/ \E s \in Slots :
          /\ IsFirstFree(s)
          /\ slotInUse' = [slotInUse EXCEPT ![s] = TRUE]
          /\ inUse' = TRUE
          /\ sel' = [sel EXCEPT ![c] = s]
          /\ pc' = [pc EXCEPT ![c] = "select"]
     \/ /\ \A s \in Slots : slotInUse[s]
        /\ sel' = [sel EXCEPT ![c] = NoSlot]
        /\ pc' = [pc EXCEPT ![c] = "done"]
        /\ UNCHANGED <<slotInUse, inUse>>
  /\ UNCHANGED <<fieldVars, signalled, status, buf, indVars, modemVars, hit, why>>

(* loc_sync_select_ind after the allocation, under the slot's lock. *)
SelectInd(c) ==
  /\ pc[c] = "select"
  /\ slotKey' = [slotKey EXCEPT ![sel[c]] = key[c]]
  /\ waiting' = [waiting EXCEPT ![sel[c]] = FALSE]
  /\ arrived' = [arrived EXCEPT ![sel[c]] = FALSE]
  /\ dest' = [dest EXCEPT ![sel[c]] = IF wants[c] THEN c ELSE NoCaller]
  /\ hit' = [hit EXCEPT ![sel[c]] = FALSE]
  /\ pc' = [pc EXCEPT ![c] = "send"]
  /\ UNCHANGED <<inUse, slotInUse, signalled, sel, key, wants, status, buf,
                 indVars, modemVars, why>>

(* locClientSendReq: accepted, and the modem may answer from now on ... *)
SendReq(c) ==
  /\ pc[c] = "send"
  /\ calls < MaxCalls
  /\ calls' = calls + 1
  /\ answers' = answers \cup {[key |-> key[c], serial |-> calls + 1]}
  /\ pc' = [pc EXCEPT ![c] = "wait"]
  /\ UNCHANGED <<slotVars, sel, key, wants, status, buf, indVars, hit, why>>

(* Mutant of SendFails: the error is returned and the slot kept.           *)
SendFailsKeepsSlot(c) ==
  /\ pc[c] = "send"
  /\ status' = [status EXCEPT ![c] = "FAILURE"]
  /\ pc' = [pc EXCEPT ![c] = "done"]
  /\ UNCHANGED <<slotVars, sel, key, wants, buf, indVars, modemVars, hit, why>>

(* ... or refused: the slot is given back and the error returned. *)
SendFails(c) ==
  /\ pc[c] = "send"
  /\ status' = [status EXCEPT ![c] = "FAILURE"]
  /\ pc' = [pc EXCEPT ![c] = "free"]
  /\ UNCHANGED <<slotVars, sel, key, wants, buf, indVars, modemVars, hit, why>>

(* loc_sync_wait_for_ind up to pthread_cond_timedwait: nothing to wait for *)
(* when the indication has arrived, an error when the slot is not in use   *)
(* (it is not freed then) or another wait is on.                           *)
WaitForInd(c) ==
  LET s == sel[c]
      error == ~slotInUse[s] \/ (~arrived[s] /\ waiting[s])
      early == ~error /\ arrived[s]
  IN
  /\ pc[c] = "wait"
  /\ pc' = [pc EXCEPT ![c] = IF ~slotInUse[s] THEN "done"
                             ELSE IF error \/ early THEN "free"
                             ELSE "blocked"]
  /\ status' = [status EXCEPT ![c] = IF error THEN "INTERNAL" ELSE @]
  /\ why' = [why EXCEPT ![c] = IF early THEN "arrived" ELSE @]
  /\ waiting' = [waiting EXCEPT ![s] = @ \/ ~(error \/ early)]
  /\ UNCHANGED <<inUse, slotInUse, slotKey, arrived, dest, signalled, sel, key,
                 wants, buf, indVars, modemVars, hit>>

(* Mutant of WakeUp: the result of the timed wait is not looked at.        *)
WakeUpIgnoresTimeout(c, reason) ==
  /\ pc[c] = "blocked"
  /\ reason = "signal" => signalled[sel[c]]
  /\ waiting' = [waiting EXCEPT ![sel[c]] = FALSE]
  /\ signalled' = [signalled EXCEPT ![sel[c]] = FALSE]
  /\ why' = [why EXCEPT ![c] = reason]
  /\ pc' = [pc EXCEPT ![c] = "free"]
  /\ UNCHANGED <<inUse, slotInUse, slotKey, arrived, dest, sel, key, wants,
                 status, buf, indVars, modemVars, hit>>

(* pthread_cond_timedwait returns, with the slot's lock held again: by the *)
(* signal, with no signal at all, or because the time is up.  The code     *)
(* does not look at ind_has_arrived again.                                 *)
WakeUp(c, reason) ==
  /\ pc[c] = "blocked"
  /\ reason = "signal" => signalled[sel[c]]
  /\ waiting' = [waiting EXCEPT ![sel[c]] = FALSE]
  /\ signalled' = [signalled EXCEPT ![sel[c]] = FALSE]
  /\ status' = [status EXCEPT ![c] =
                  IF reason = "timeout" THEN "TIMEOUT" ELSE "SUCCESS"]
  /\ why' = [why EXCEPT ![c] = reason]
  /\ pc' = [pc EXCEPT ![c] = "free"]
  /\ UNCHANGED <<inUse, slotInUse, slotKey, arrived, dest, sel, key, wants, buf,
                 indVars, modemVars, hit>>

(* Mutant of FreeSlot: freeing a slot marks the whole array as unused.     *)
FreeSlotClearsInUse(c) ==
  /\ pc[c] = "free"
  /\ CallMutexFree
  /\ slotInUse' = [slotInUse EXCEPT ![sel[c]] = FALSE]
  /\ slotKey' = [slotKey EXCEPT ![sel[c]] = NoKey]
  /\ waiting' = [waiting EXCEPT ![sel[c]] = FALSE]
  /\ arrived' = [arrived EXCEPT ![sel[c]] = FALSE]
  /\ dest' = [dest EXCEPT ![sel[c]] = NoCaller]
  /\ inUse' = FALSE
  /\ hit' = [hit EXCEPT ![sel[c]] = FALSE]
  /\ pc' = [pc EXCEPT ![c] = "done"]
  /\ UNCHANGED <<signalled, sel, key, wants, status, buf, indVars, modemVars,
                 why>>

(* loc_free_slot *)
FreeSlot(c) ==
  /\ pc[c] = "free"
  /\ CallMutexFree
  /\ slotInUse' = [slotInUse EXCEPT ![sel[c]] = FALSE]
  /\ slotKey' = [slotKey EXCEPT ![sel[c]] = NoKey]
  /\ waiting' = [waiting EXCEPT ![sel[c]] = FALSE]
  /\ arrived' = [arrived EXCEPT ![sel[c]] = FALSE]
  /\ dest' = [dest EXCEPT ![sel[c]] = NoCaller]
  /\ inUse' = (inUse /\ \E s \in Slots : s # sel[c] /\ slotInUse[s])
  /\ hit' = [hit EXCEPT ![sel[c]] = FALSE]
  /\ pc' = [pc EXCEPT ![c] = "done"]
  /\ UNCHANGED <<signalled, sel, key, wants, status, buf, indVars, modemVars,
                 why>>

(* loc_sync_send_req returns: its locals and the caller's buffer go out of *)
(* scope.                                                                  *)
Return(c) ==
  /\ pc[c] = "done"
  /\ pc' = [pc EXCEPT ![c] = "idle"]
  /\ sel' = [sel EXCEPT ![c] = NoSlot]
  /\ key' = [key EXCEPT ![c] = NoKey]
  /\ wants' = [wants EXCEPT ![c] = FALSE]
  /\ status' = [status EXCEPT ![c] = "SUCCESS"]
  /\ buf' = [buf EXCEPT ![c] = 0]
  /\ why' = [why EXCEPT ![c] = "none"]
  /\ UNCHANGED <<slotVars, indVars, modemVars, hit>>

-----------------------------------------------------------------------------
(* The QMI callback thread inside loc_sync_process_ind. *)

(* It takes loc_sync_call_mutex, and drops the indication when the array   *)
(* says that no slot is in use.                                            *)
ProcessInd(a) ==
  /\ CallMutexFree
  /\ a \in answers
  /\ answers' = answers \ {a}
  /\ IF inUse
     THEN /\ ind' = a /\ cursor' = 0
          /\ seen' = FALSE /\ consumed' = FALSE
     ELSE UNCHANGED indVars
  /\ UNCHANGED <<slotVars, callerVars, calls, hit, why>>

(* Mutant of Matches: the client handle and indication id not compared.    *)
MatchesAnyKey(s) == slotInUse[s] /\ ~arrived[s]

Matches(s) ==
  slotInUse[s] /\ slotKey[s] = ind.key /\ ~arrived[s]

(* Mutant of VisitSlot: an arrival nobody waits for yet is not remembered. *)
VisitSlotForgetsArrival ==
  /\ ind # NoInd /\ cursor \in Slots /\ ~consumed
  /\ cursor' = cursor + 1
  /\ seen' = (seen \/ slotInUse[cursor])
  /\ IF Matches(cursor)
     THEN /\ IF dest[cursor] # NoCaller
             THEN /\ buf' = [buf EXCEPT ![dest[cursor]] = ind.serial]
                  /\ consumed' = TRUE
             ELSE UNCHANGED <<buf, consumed>>
          /\ signalled' = [signalled EXCEPT ![cursor] = @ \/ waiting[cursor]]
          /\ hit' = [hit EXCEPT ![cursor] = TRUE]
     ELSE UNCHANGED <<buf, consumed, signalled, hit>>
  /\ UNCHANGED <<inUse, slotInUse, fieldVars, pc, sel, key, wants, status, ind,
                 modemVars, why>>

(* One round of the loop: the slot under the cursor. *)
VisitSlot ==
  /\ ind # NoInd /\ cursor \in Slots /\ ~consumed
  /\ cursor' = cursor + 1
  /\ seen' = (seen \/ slotInUse[cursor])
  /\ IF Matches(cursor)
     THEN /\ IF dest[cursor] # NoCaller
             THEN /\ buf' = [buf EXCEPT ![dest[cursor]] = ind.serial]
                  /\ consumed' = TRUE
             ELSE UNCHANGED <<buf, consumed>>
          /\ signalled' = [signalled EXCEPT ![cursor] = @ \/ waiting[cursor]]
          /\ arrived' = [arrived EXCEPT ![cursor] = ~waiting[cursor]]
          /\ hit' = [hit EXCEPT ![cursor] = TRUE]
     ELSE UNCHANGED <<buf, consumed, signalled, arrived, hit>>
  /\ UNCHANGED <<inUse, slotInUse, slotKey, waiting, dest, pc, sel, key, wants,
                 status, ind, modemVars, why>>

(* Mutant of EndOfScan: the mutex is not released when the scan stops      *)
(* early.                                                                  *)
EndOfScanHoldsMutex ==
  /\ ind # NoInd /\ cursor = NSlots
  /\ inUse' = (inUse /\ seen)
  /\ ind' = NoInd /\ cursor' = 0 /\ seen' = FALSE /\ consumed' = FALSE
  /\ UNCHANGED <<slotInUse, fieldVars, signalled, callerVars, modemVars, hit,
                 why>>

(* The loop ends: all slots visited, or the payload consumed. *)
EndOfScan ==
  /\ ind # NoInd /\ (cursor = NSlots \/ consumed)
  /\ inUse' = (inUse /\ seen)
  /\ ind' = NoInd /\ cursor' = 0 /\ seen' = FALSE /\ consumed' = FALSE
  /\ UNCHANGED <<slotInUse, fieldVars, signalled, callerVars, modemVars, hit,
                 why>>

(* The modem never answers, or the answer is lost on the way. *)
AnswerLost(a) ==
  /\ a \in answers
  /\ answers' = answers \ {a}
  /\ UNCHANGED <<slotVars, callerVars, indVars, calls, hit, why>>

-----------------------------------------------------------------------------
WakeReasons == {"signal", "spurious", "timeout"}

CallerStep(c) ==
  \/ SelectInd(c)
  \/ SendReq(c)
  \/ SendFails(c)
  \/ WaitForInd(c)
  \/ \E r \in WakeReasons : WakeUp(c, r)
  \/ FreeSlot(c)
  \/ Return(c)

ScanStep == VisitSlot \/ EndOfScan

Next ==
  \/ \E c \in Callers : \E k \in Keys, w \in BOOLEAN : AllocSlot(c, k, w)
  \/ \E c \in Callers : CallerStep(c)
  \/ \E a \in answers : ProcessInd(a)
  \/ ScanStep
  \/ \E a \in answers : AnswerLost(a)

Spec == Init /\ [][Next]_vars

(* A thread inside a call runs on, a timed wait ends at the latest when    *)
(* its time is up, and a scan runs to its end.  Nobody is obliged to call, *)
(* and the modem is not obliged to answer.                                 *)
Fairness ==
  /\ \A c \in Callers : WF_vars(CallerStep(c))
  /\ WF_vars(ScanStep)

FairSpec == Spec /\ Fairness

-----------------------------------------------------------------------------
(* Properties. *)

(* Every variable has its type. *)
TypeOK ==
  /\ inUse \in BOOLEAN
  /\ slotInUse \in [Slots -> BOOLEAN]
  /\ slotKey \in [Slots -> Keys \cup {NoKey}]
  /\ waiting \in [Slots -> BOOLEAN]
  /\ arrived \in [Slots -> BOOLEAN]
  /\ dest \in [Slots -> Callers \cup {NoCaller}]
  /\ signalled \in [Slots -> BOOLEAN]
  /\ pc \in [Callers -> {"idle", "select", "send", "wait", "blocked", "free",
                         "done"}]
  /\ sel \in [Callers -> Slots \cup {NoSlot}]
  /\ key \in [Callers -> Keys \cup {NoKey}]
  /\ wants \in [Callers -> BOOLEAN]
  /\ status \in [Callers -> {"SUCCESS", "FAILURE", "TIMEOUT", "INTERNAL"}]
  /\ buf \in [Callers -> 0 .. MaxCalls]
  /\ ind \in Answers \cup {NoInd}
  /\ cursor \in 0 .. NSlots
  /\ seen \in BOOLEAN /\ consumed \in BOOLEAN
  /\ answers \in SUBSET Answers
  /\ calls \in 0 .. MaxCalls
  /\ hit \in [Slots -> BOOLEAN]
  /\ why \in [Callers -> {"none", "arrived"} \cup WakeReasons]

Holds(c) == pc[c] \in {"select", "send", "wait", "blocked", "free"}

(* A slot is in use exactly while one call holds it: no two calls share a  *)
(* slot, no path through a call (refused request, early answer, timeout)   *)
(* leaks one, and so a wait never finds its slot invalid or busy.          *)
SlotOwnership ==
  /\ \A c \in Callers : Holds(c) => sel[c] \in Slots /\ slotInUse[sel[c]]
  /\ \A c, d \in Callers : Holds(c) /\ Holds(d) /\ sel[c] = sel[d] => c = d
  /\ \A s \in Slots : slotInUse[s] => \E c \in Callers : Holds(c) /\ sel[c] = s
  /\ \A c \in Callers : status[c] # "INTERNAL"

(* While any slot is in use the array says so: loc_sync_process_ind never  *)
(* drops at its entry an indication that some call waits for.              *)
InUseCoversSlots == (\E s \in Slots : slotInUse[s]) => inUse

(* No wakeup is lost: once an indication matched a call's slot, the call   *)
(* either still finds the arrival recorded before it blocks, or has a      *)
(* signal pending while it is blocked.                                     *)
NoLostWakeup ==
  \A c \in Callers :
    /\ pc[c] = "blocked" /\ hit[sel[c]] => signalled[sel[c]]
    /\ pc[c] \in {"send", "wait"} /\ hit[sel[c]] => arrived[sel[c]]

(* A call that waited and reports success, other than after a wakeup       *)
(* without a signal, was matched by an indication, and has an answer in    *)
(* its buffer if it gave one: no arrival flag, signal or payload pointer   *)
(* survives from an earlier use of the slot.                               *)
SuccessHasAnswer ==
  \A c \in Callers :
    pc[c] = "free" /\ status[c] = "SUCCESS" /\ why[c] # "spurious" =>
      hit[sel[c]] /\ (wants[c] => buf[c] # 0)

Registered(c) == pc[c] \in {"send", "wait", "blocked", "free"}

(* A running call waits for some key.                                      *)
CallHasKey == \A c \in Callers : Holds(c) => key[c] \in Keys

(* The slot of a registered call describes that call and nothing older.    *)
SlotMirrorsCall ==
  \A c \in Callers : Registered(c) =>
    /\ slotKey[sel[c]] = key[c]
    /\ dest[sel[c]] = IF wants[c] THEN c ELSE NoCaller
    /\ waiting[sel[c]] <=> pc[c] = "blocked"
    /\ arrived[sel[c]] => hit[sel[c]]
    /\ signalled[sel[c]] => pc[c] = "blocked" /\ hit[sel[c]]
    /\ hit[sel[c]] /\ wants[c] => buf[c] # 0

(* A slot nobody registered in matches no indication.                      *)
UnregisteredSlotsClean ==
  \A s \in Slots :
    (\A c \in Callers : Registered(c) => sel[c] # s) =>
      /\ slotKey[s] = NoKey /\ dest[s] = NoCaller
      /\ ~waiting[s] /\ ~arrived[s] /\ ~signalled[s] /\ ~hit[s]

(* What the scan has seen so far.                                          *)
ScanConsistent ==
  /\ ind # NoInd => inUse
  /\ ind = NoInd => ~consumed
  /\ consumed => seen
  /\ ind # NoInd /\ ~seen => \A s \in Slots : s < cursor => ~slotInUse[s]

(* The answer being processed is not outstanding any more, and the next    *)
(* request's serial number is fresh.                                       *)
SerialsFresh ==
  /\ \A a \in answers : a.serial <= calls
  /\ ind # NoInd => ind.serial <= calls /\ ind \notin answers

(* The inductive invariant. *)
IInv ==
  /\ TypeOK
  /\ SlotOwnership
  /\ InUseCoversSlots
  /\ NoLostWakeup
  /\ SuccessHasAnswer
  /\ CallHasKey
  /\ SlotMirrorsCall
  /\ UnregisteredSlotsClean
  /\ ScanConsistent
  /\ SerialsFresh

(* loc_sync_send_req is a synchronous call as SyncCall describes it: its   *)
(* buffer is written only while it runs, only by an answer with its key,   *)
(* and each answer is written once.                                        *)
Sync == INSTANCE SyncCall WITH
  calling <- [c \in Callers |-> pc[c] # "idle"],
  waitsFor <- key,
  buffer <- buf,
  open <- answers \cup (IF ind = NoInd \/ consumed THEN {} ELSE {ind}),
  asked <- calls

ImplementsSyncCall == Sync!Spec

(* Every call returns, answered or not. *)
CallsReturn == \A c \in Callers : (pc[c] # "idle") ~> (pc[c] = "idle")

(* "Thread safe synchronous request" (loc_api_sync_req.h:54, and           *)
(* loc_api_sync_req.c:476): while a call runs, the answer it was given is  *)
(* not replaced by another one, which some other call waits for.           *)
AnswerKept ==
  [][\A c \in Callers : pc[c] # "done" /\ buf[c] # 0 => buf'[c] = buf[c]]_vars
=============================================================================
