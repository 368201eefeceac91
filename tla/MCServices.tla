----------------------------- MODULE MCServices -----------------------------
(***************************************************************************)
(* Services of the process that share no state, each on its own: a         *)
(* behaviour chooses one at the beginning, and its actions run.  The data  *)
(* item observer with two clients of one and of two items, network         *)
(* initiated requests, a message task, a client of the location API with   *)
(* two ids and two adapters, the heap of rankable objects, and the         *)
(* positions on demand.                                                    *)
(***************************************************************************)
EXTENDS OsObserver, NiRequests, MsgTask, ApiClient, LocHeap, Odcpi, TLC

CONSTANTS o1, o2, i1, i2, id1, id2, x1, x2, x3, x4, x5

MCObservers == {o1, o2}
MCItems == {i1, i2}
MCUses == o1 :> MCItems @@ o2 :> {i1}

MCRankables == {x1, x2, x3, x4, x5}
MCRank == x1 :> 1 @@ x2 :> 1 @@ x3 :> 2 @@ x4 :> 2 @@ x5 :> 3

VARIABLE part

servicesVars == <<observerVars, niVars, taskVars, clientVars>>
partVars == <<part, servicesVars, heapVars, odcpiVars>>

(* A part that does not run begins in one of its initial states only. *)
ServicesInit ==
  /\ part \in {"observer", "ni", "task", "client", "heap", "odcpi"}
  /\ ObserverInit /\ NiInit /\ TaskInit /\ ClientInit /\ HeapInit /\ OdcpiInit
  /\ part = "ni" \/ niKind = [r \in Requests |-> "session"]
  /\ part = "task" \/ joinable

Service(p, A) == part = p /\ A /\ UNCHANGED <<part, heapVars, odcpiVars>>
Observer(A) == Service("observer", A) /\ UNCHANGED <<niVars, taskVars, clientVars>>
Ni(A) == Service("ni", A) /\ UNCHANGED <<observerVars, taskVars, clientVars>>
Task(A) == Service("task", A) /\ UNCHANGED <<observerVars, niVars, clientVars>>
Client(A) == Service("client", A) /\ UNCHANGED <<observerVars, niVars, taskVars>>
Heap(A) == part = "heap" /\ A /\ UNCHANGED <<part, servicesVars, odcpiVars>>
OnDemand(A) == part = "odcpi" /\ A /\ UNCHANGED <<part, servicesVars, heapVars>>

ServicesNext ==
  \/ Observer(ObserverNext)
  \/ Ni(NiNext)
  \/ Task(TaskNext)
  \/ Client(ClientNext)
  \/ Heap(HeapNext)
  \/ OnDemand(OdcpiNext)

(* The fairness of the part that runs: of the adapter's MsgTask or of the  *)
(* message task's thread, and of the other threads.                        *)
ServicesFairness ==
  /\ WF_partVars(Ni(AdapterStep) \/ Task(TaskThreadStep))
  /\ \A r \in Requests : WF_partVars(Ni(NiThreadStep(r)) \/ Task(OwnerStep))

ServicesSpec == ServicesInit /\ [][ServicesNext]_partVars /\ ServicesFairness

(* The variables of all parts have the values their code gives them.       *)
PartsTypeOK == ObserverTypeOK /\ NiTypeOK /\ TaskTypeOK /\ ClientTypeOK
               /\ HeapTypeOK /\ OdcpiTypeOK
=============================================================================
