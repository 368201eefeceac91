---------------------------- MODULE SyncReqProofs ----------------------------
(***************************************************************************)
(* Proofs about SyncReq, for any number of callers, keys, slots and        *)
(* requests.  The inductive invariant IInv joins the properties with what  *)
(* they rest on: the slot of a registered call describes that call         *)
(* (SlotMirrorsCall), a slot nobody registered in matches nothing          *)
(* (UnregisteredSlotsClean), and the scan's local variables agree with the *)
(* slots visited so far (ScanConsistent).  The refinement theorem maps     *)
(* each step to a step of SyncCall or to a stutter under IInv.             *)
(***************************************************************************)
EXTENDS SyncReq, TLAPS

USE DEF slotVars, fieldVars, callerVars, indVars, modemVars

(* What the assumptions on the constants give.                             *)
LEMMA ConstantFacts ==
  /\ Slots \subseteq Nat
  /\ NSlots \in Nat
  /\ MaxCalls \in Nat
  /\ NoSlot \notin Slots
  /\ NoKey \notin Keys
  /\ NoCaller \notin Callers
  /\ NoInd \notin Answers
BY NSlotsAssumption, MaxCallsAssumption, NullsAssumption, NoIndAssumption
   DEF Slots, NoSlot

(* One lemma per action follows: each preserves the inductive invariant.   *)
LEMMA AllocSlotPreserves ==
  ASSUME IInv, NEW c \in Callers, NEW k \in Keys, NEW w \in BOOLEAN, AllocSlot(c, k, w)
  PROVE  IInv'
<1>1. TypeOK'
  <2>1. CASE \E s \in Slots : /\ slotInUse' = [slotInUse EXCEPT ![s] = TRUE]
                              /\ inUse' = TRUE
                              /\ sel' = [sel EXCEPT ![c] = s] /\ pc' = [pc EXCEPT ![c] = "select"]
    BY <2>1 DEF IInv, TypeOK, AllocSlot
  <2>2. CASE pc' = [pc EXCEPT ![c] = "done"] /\ sel' = [sel EXCEPT ![c] = NoSlot]
             /\ UNCHANGED <<slotInUse, inUse>>
    BY <2>2 DEF IInv, TypeOK, AllocSlot
  <2>3. QED
    BY <2>1, <2>2 DEF AllocSlot
<1>2. SlotOwnership'
  <2>1. CASE \E s \in Slots : ~slotInUse[s] /\ slotInUse' = [slotInUse EXCEPT ![s] = TRUE]
                              /\ sel' = [sel EXCEPT ![c] = s] /\ pc' = [pc EXCEPT ![c] = "select"]
    BY <2>1, ConstantFacts DEF IInv, TypeOK, SlotOwnership, Holds, AllocSlot
  <2>2. CASE pc' = [pc EXCEPT ![c] = "done"] /\ sel' = [sel EXCEPT ![c] = NoSlot]
             /\ UNCHANGED slotInUse
    BY <2>2, ConstantFacts DEF IInv, TypeOK, SlotOwnership, Holds, AllocSlot
  <2>3. QED
    BY <2>1, <2>2 DEF AllocSlot, IsFirstFree
<1>3. InUseCoversSlots'
  BY ConstantFacts DEF IInv, TypeOK, InUseCoversSlots, AllocSlot, IsFirstFree
<1>4. NoLostWakeup'
  BY ConstantFacts
     DEF IInv, TypeOK, NoLostWakeup, SlotOwnership, SlotMirrorsCall, Holds,
         Registered, AllocSlot, IsFirstFree
<1>5. SuccessHasAnswer'
  BY ConstantFacts
     DEF IInv, TypeOK, SuccessHasAnswer, SlotOwnership, SlotMirrorsCall, Holds,
         Registered, AllocSlot, IsFirstFree
<1>6. CallHasKey'
  BY ConstantFacts DEF IInv, TypeOK, CallHasKey, Holds, AllocSlot, IsFirstFree
<1>7. SlotMirrorsCall'
  BY ConstantFacts
     DEF IInv, TypeOK, SlotOwnership, SlotMirrorsCall, Holds, Registered,
         AllocSlot, IsFirstFree
<1>8. UnregisteredSlotsClean'
  BY ConstantFacts
     DEF IInv, TypeOK, SlotOwnership, UnregisteredSlotsClean, SlotMirrorsCall,
         Holds, Registered, AllocSlot, IsFirstFree
<1>9. ScanConsistent'
  BY ConstantFacts
     DEF IInv, TypeOK, ScanConsistent, CallMutexFree, AllocSlot, IsFirstFree
<1>10. SerialsFresh'
  BY ConstantFacts DEF IInv, TypeOK, SerialsFresh, AllocSlot, IsFirstFree
<1> QED
  BY <1>1, <1>2, <1>3, <1>4, <1>5, <1>6, <1>7, <1>8, <1>9, <1>10 DEF IInv

(* SelectInd preserves the inductive invariant.                            *)
LEMMA SelectIndPreserves ==
  ASSUME IInv, NEW c \in Callers, SelectInd(c)
  PROVE  IInv'
<1>1. TypeOK'
  BY ConstantFacts DEF IInv, TypeOK, SelectInd
<1>2. SlotOwnership'
  BY ConstantFacts DEF IInv, TypeOK, SlotOwnership, Holds, SelectInd
<1>3. InUseCoversSlots'
  BY ConstantFacts DEF IInv, TypeOK, InUseCoversSlots, SelectInd
<1>4. NoLostWakeup'
  BY ConstantFacts
     DEF IInv, TypeOK, NoLostWakeup, SlotOwnership, SlotMirrorsCall, Holds,
         Registered, SelectInd
<1>5. SuccessHasAnswer'
  BY ConstantFacts
     DEF IInv, TypeOK, SuccessHasAnswer, SlotOwnership, SlotMirrorsCall, Holds,
         Registered, SelectInd
<1>6. CallHasKey'
  BY ConstantFacts DEF IInv, TypeOK, CallHasKey, Holds, SelectInd
<1>7. SlotMirrorsCall'
  <2> SUFFICES ASSUME NEW d \in Callers, Registered(d)'
               PROVE  /\ slotKey'[sel'[d]] = key'[d]
                      /\ dest'[sel'[d]] = IF wants'[d] THEN d ELSE NoCaller
                      /\ waiting'[sel'[d]] <=> pc'[d] = "blocked"
                      /\ arrived'[sel'[d]] => hit'[sel'[d]]
                      /\ signalled'[sel'[d]] => pc'[d] = "blocked" /\ hit'[sel'[d]]
                      /\ hit'[sel'[d]] /\ wants'[d] => buf'[d] # 0
    BY DEF SlotMirrorsCall
  <2>1. sel[c] \in Slots /\ sel[d] \in Slots /\ sel' = sel
    BY DEF IInv, SlotOwnership, Holds, Registered, SelectInd
  <2>2. CASE d = c
    BY <2>1, <2>2
       DEF IInv, TypeOK, UnregisteredSlotsClean, SlotOwnership, Holds,
           Registered, SelectInd
  <2>3. CASE d # c
    <3>1. sel[d] # sel[c] /\ Registered(d) /\ pc'[d] = pc[d]
      BY <2>3 DEF IInv, TypeOK, SlotOwnership, Holds, Registered, SelectInd
    <3>2. QED
      BY <2>1, <2>3, <3>1
         DEF IInv, TypeOK, SlotMirrorsCall, Registered, SelectInd
  <2>4. QED
    BY <2>2, <2>3
<1>8. UnregisteredSlotsClean'
  BY ConstantFacts
     DEF IInv, TypeOK, SlotOwnership, UnregisteredSlotsClean, SlotMirrorsCall,
         Holds, Registered, SelectInd
<1>9. ScanConsistent'
  BY ConstantFacts DEF IInv, TypeOK, ScanConsistent, CallMutexFree, SelectInd
<1>10. SerialsFresh'
  BY ConstantFacts DEF IInv, TypeOK, SerialsFresh, SelectInd
<1> QED
  BY <1>1, <1>2, <1>3, <1>4, <1>5, <1>6, <1>7, <1>8, <1>9, <1>10 DEF IInv

(* SendReq preserves the inductive invariant.                              *)
LEMMA SendReqPreserves ==
  ASSUME IInv, NEW c \in Callers, SendReq(c)
  PROVE  IInv'
<1>1. TypeOK'
  <2>1. calls + 1 \in 1 .. MaxCalls /\ calls' \in 0 .. MaxCalls
    BY ConstantFacts DEF IInv, TypeOK, SendReq
  <2>2. key[c] \in Keys
    BY DEF IInv, TypeOK, CallHasKey, Holds, SendReq
  <2>3. answers' \in SUBSET Answers
    BY <2>1, <2>2 DEF IInv, TypeOK, SendReq, Answers
  <2>4. QED
    BY <2>1, <2>3 DEF IInv, TypeOK, SendReq
<1>2. SlotOwnership'
  BY ConstantFacts DEF IInv, TypeOK, SlotOwnership, Holds, SendReq, Answers
<1>3. InUseCoversSlots'
  BY ConstantFacts DEF IInv, TypeOK, InUseCoversSlots, SendReq, Answers
<1>4. NoLostWakeup'
  BY DEF IInv, TypeOK, NoLostWakeup, SlotMirrorsCall, Registered, SendReq
<1>5. SuccessHasAnswer'
  BY ConstantFacts
     DEF IInv, TypeOK, SuccessHasAnswer, SlotOwnership, SlotMirrorsCall, Holds,
         Registered, SendReq, Answers
<1>6. CallHasKey'
  BY ConstantFacts DEF IInv, TypeOK, CallHasKey, Holds, SendReq, Answers
<1>7. SlotMirrorsCall'
  BY ConstantFacts
     DEF IInv, TypeOK, SlotOwnership, SlotMirrorsCall, Holds, Registered,
         SendReq, Answers
<1>8. UnregisteredSlotsClean'
  BY ConstantFacts
     DEF IInv, TypeOK, SlotOwnership, UnregisteredSlotsClean, SlotMirrorsCall,
         Holds, Registered, SendReq, Answers
<1>9. ScanConsistent'
  BY ConstantFacts
     DEF IInv, TypeOK, ScanConsistent, CallMutexFree, SendReq, Answers
<1>10. SerialsFresh'
  BY ConstantFacts DEF IInv, TypeOK, SerialsFresh, SendReq, Answers
<1> QED
  BY <1>1, <1>2, <1>3, <1>4, <1>5, <1>6, <1>7, <1>8, <1>9, <1>10 DEF IInv

(* SendFails preserves the inductive invariant.                            *)
LEMMA SendFailsPreserves ==
  ASSUME IInv, NEW c \in Callers, SendFails(c)
  PROVE  IInv'
<1>1. TypeOK'
  BY ConstantFacts DEF IInv, TypeOK, SendFails
<1>2. SlotOwnership'
  BY ConstantFacts DEF IInv, TypeOK, SlotOwnership, Holds, SendFails
<1>3. InUseCoversSlots'
  BY ConstantFacts DEF IInv, TypeOK, InUseCoversSlots, SendFails
<1>4. NoLostWakeup'
  BY ConstantFacts
     DEF IInv, TypeOK, NoLostWakeup, SlotOwnership, SlotMirrorsCall, Holds,
         Registered, SendFails
<1>5. SuccessHasAnswer'
  BY ConstantFacts
     DEF IInv, TypeOK, SuccessHasAnswer, SlotOwnership, SlotMirrorsCall, Holds,
         Registered, SendFails
<1>6. CallHasKey'
  BY ConstantFacts DEF IInv, TypeOK, CallHasKey, Holds, SendFails
<1>7. SlotMirrorsCall'
  BY ConstantFacts
     DEF IInv, TypeOK, SlotOwnership, SlotMirrorsCall, Holds, Registered,
         SendFails
<1>8. UnregisteredSlotsClean'
  BY ConstantFacts
     DEF IInv, TypeOK, SlotOwnership, UnregisteredSlotsClean, SlotMirrorsCall,
         Holds, Registered, SendFails
<1>9. ScanConsistent'
  BY ConstantFacts DEF IInv, TypeOK, ScanConsistent, CallMutexFree, SendFails
<1>10. SerialsFresh'
  BY ConstantFacts DEF IInv, TypeOK, SerialsFresh, SendFails
<1> QED
  BY <1>1, <1>2, <1>3, <1>4, <1>5, <1>6, <1>7, <1>8, <1>9, <1>10 DEF IInv

(* WaitForInd preserves the inductive invariant.                           *)
LEMMA WaitForIndPreserves ==
  ASSUME IInv, NEW c \in Callers, WaitForInd(c)
  PROVE  IInv'
<1>1. TypeOK'
  BY ConstantFacts DEF IInv, TypeOK, WaitForInd
<1>2. SlotOwnership'
  <2>1. slotInUse[sel[c]] /\ sel[c] \in Slots
    BY DEF IInv, SlotOwnership, Holds, WaitForInd
  <2>2. ~(~arrived[sel[c]] /\ waiting[sel[c]])
    BY DEF IInv, SlotMirrorsCall, Registered, WaitForInd
  <2>3. /\ pc' = [pc EXCEPT ![c] = IF arrived[sel[c]] THEN "free" ELSE "blocked"]
        /\ status' = status
    BY <2>1, <2>2 DEF IInv, TypeOK, WaitForInd
  <2>4. QED
    BY <2>3 DEF IInv, TypeOK, SlotOwnership, Holds, WaitForInd
<1>3. InUseCoversSlots'
  BY ConstantFacts DEF IInv, TypeOK, InUseCoversSlots, WaitForInd
<1>4. NoLostWakeup'
  BY ConstantFacts
     DEF IInv, TypeOK, NoLostWakeup, SlotOwnership, SlotMirrorsCall, Holds,
         Registered, WaitForInd
<1>5. SuccessHasAnswer'
  BY ConstantFacts
     DEF IInv, TypeOK, SuccessHasAnswer, SlotOwnership, SlotMirrorsCall, Holds,
         Registered, WaitForInd
<1>6. CallHasKey'
  BY ConstantFacts DEF IInv, TypeOK, CallHasKey, Holds, WaitForInd
<1>7. SlotMirrorsCall'
  <2> SUFFICES ASSUME NEW d \in Callers, Registered(d)'
               PROVE  /\ slotKey'[sel'[d]] = key'[d]
                      /\ dest'[sel'[d]] = IF wants'[d] THEN d ELSE NoCaller
                      /\ waiting'[sel'[d]] <=> pc'[d] = "blocked"
                      /\ arrived'[sel'[d]] => hit'[sel'[d]]
                      /\ signalled'[sel'[d]] => pc'[d] = "blocked" /\ hit'[sel'[d]]
                      /\ hit'[sel'[d]] /\ wants'[d] => buf'[d] # 0
    BY DEF SlotMirrorsCall
  <2>1. sel[c] \in Slots /\ sel[d] \in Slots /\ sel' = sel
    BY DEF IInv, SlotOwnership, Holds, Registered, WaitForInd
  <2>2. CASE d = c
    BY <2>1, <2>2
       DEF IInv, TypeOK, SlotOwnership, Holds, SlotMirrorsCall, Registered,
           WaitForInd
  <2>3. CASE d # c
    <3>1. sel[d] # sel[c] /\ Registered(d) /\ pc'[d] = pc[d]
      BY <2>3 DEF IInv, TypeOK, SlotOwnership, Holds, Registered, WaitForInd
    <3>2. QED
      BY <2>1, <2>3, <3>1
         DEF IInv, TypeOK, SlotMirrorsCall, Registered, WaitForInd
  <2>4. QED
    BY <2>2, <2>3
<1>8. UnregisteredSlotsClean'
  BY ConstantFacts
     DEF IInv, TypeOK, SlotOwnership, UnregisteredSlotsClean, SlotMirrorsCall,
         Holds, Registered, WaitForInd
<1>9. ScanConsistent'
  BY ConstantFacts DEF IInv, TypeOK, ScanConsistent, CallMutexFree, WaitForInd
<1>10. SerialsFresh'
  BY ConstantFacts DEF IInv, TypeOK, SerialsFresh, WaitForInd
<1> QED
  BY <1>1, <1>2, <1>3, <1>4, <1>5, <1>6, <1>7, <1>8, <1>9, <1>10 DEF IInv

(* WakeUp preserves the inductive invariant.                               *)
LEMMA WakeUpPreserves ==
  ASSUME IInv, NEW c \in Callers, NEW r \in WakeReasons, WakeUp(c, r)
  PROVE  IInv'
<1>1. TypeOK'
  BY ConstantFacts DEF IInv, TypeOK, WakeUp, WakeReasons
<1>2. SlotOwnership'
  BY ConstantFacts DEF IInv, TypeOK, SlotOwnership, Holds, WakeUp, WakeReasons
<1>3. InUseCoversSlots'
  BY ConstantFacts DEF IInv, TypeOK, InUseCoversSlots, WakeUp, WakeReasons
<1>4. NoLostWakeup'
  BY ConstantFacts
     DEF IInv, TypeOK, NoLostWakeup, SlotOwnership, SlotMirrorsCall, Holds,
         Registered, WakeUp, WakeReasons
<1>5. SuccessHasAnswer'
  BY ConstantFacts
     DEF IInv, TypeOK, SuccessHasAnswer, SlotOwnership, SlotMirrorsCall, Holds,
         Registered, WakeUp, WakeReasons
<1>6. CallHasKey'
  BY ConstantFacts DEF IInv, TypeOK, CallHasKey, Holds, WakeUp, WakeReasons
<1>7. SlotMirrorsCall'
  BY ConstantFacts
     DEF IInv, TypeOK, SlotOwnership, SlotMirrorsCall, Holds, Registered,
         WakeUp, WakeReasons
<1>8. UnregisteredSlotsClean'
  BY ConstantFacts
     DEF IInv, TypeOK, SlotOwnership, UnregisteredSlotsClean, SlotMirrorsCall,
         Holds, Registered, WakeUp, WakeReasons
<1>9. ScanConsistent'
  BY ConstantFacts
     DEF IInv, TypeOK, ScanConsistent, CallMutexFree, WakeUp, WakeReasons
<1>10. SerialsFresh'
  BY ConstantFacts DEF IInv, TypeOK, SerialsFresh, WakeUp, WakeReasons
<1> QED
  BY <1>1, <1>2, <1>3, <1>4, <1>5, <1>6, <1>7, <1>8, <1>9, <1>10 DEF IInv

(* FreeSlot preserves the inductive invariant.                             *)
LEMMA FreeSlotPreserves ==
  ASSUME IInv, NEW c \in Callers, FreeSlot(c)
  PROVE  IInv'
<1>1. TypeOK'
  BY ConstantFacts DEF IInv, TypeOK, FreeSlot
<1>2. SlotOwnership'
  BY ConstantFacts DEF IInv, TypeOK, SlotOwnership, Holds, FreeSlot
<1>3. InUseCoversSlots'
  BY ConstantFacts DEF IInv, TypeOK, InUseCoversSlots, FreeSlot
<1>4. NoLostWakeup'
  BY ConstantFacts
     DEF IInv, TypeOK, NoLostWakeup, SlotOwnership, SlotMirrorsCall, Holds,
         Registered, FreeSlot
<1>5. SuccessHasAnswer'
  BY ConstantFacts
     DEF IInv, TypeOK, SuccessHasAnswer, SlotOwnership, SlotMirrorsCall, Holds,
         Registered, FreeSlot
<1>6. CallHasKey'
  BY ConstantFacts DEF IInv, TypeOK, CallHasKey, Holds, FreeSlot
<1>7. SlotMirrorsCall'
  BY ConstantFacts
     DEF IInv, TypeOK, SlotOwnership, SlotMirrorsCall, Holds, Registered,
         FreeSlot
<1>8. UnregisteredSlotsClean'
  BY ConstantFacts
     DEF IInv, TypeOK, SlotOwnership, UnregisteredSlotsClean, SlotMirrorsCall,
         Holds, Registered, FreeSlot
<1>9. ScanConsistent'
  BY ConstantFacts DEF IInv, TypeOK, ScanConsistent, CallMutexFree, FreeSlot
<1>10. SerialsFresh'
  BY ConstantFacts DEF IInv, TypeOK, SerialsFresh, FreeSlot
<1> QED
  BY <1>1, <1>2, <1>3, <1>4, <1>5, <1>6, <1>7, <1>8, <1>9, <1>10 DEF IInv

(* Return preserves the inductive invariant.                               *)
LEMMA ReturnPreserves ==
  ASSUME IInv, NEW c \in Callers, Return(c)
  PROVE  IInv'
<1>1. TypeOK'
  BY ConstantFacts DEF IInv, TypeOK, Return
<1>2. SlotOwnership'
  BY ConstantFacts DEF IInv, TypeOK, SlotOwnership, Holds, Return
<1>3. InUseCoversSlots'
  BY ConstantFacts DEF IInv, TypeOK, InUseCoversSlots, Return
<1>4. NoLostWakeup'
  BY ConstantFacts
     DEF IInv, TypeOK, NoLostWakeup, SlotOwnership, SlotMirrorsCall, Holds,
         Registered, Return
<1>5. SuccessHasAnswer'
  BY ConstantFacts
     DEF IInv, TypeOK, SuccessHasAnswer, SlotOwnership, SlotMirrorsCall, Holds,
         Registered, Return
<1>6. CallHasKey'
  BY ConstantFacts DEF IInv, TypeOK, CallHasKey, Holds, Return
<1>7. SlotMirrorsCall'
  BY ConstantFacts
     DEF IInv, TypeOK, SlotOwnership, SlotMirrorsCall, Holds, Registered,
         Return
<1>8. UnregisteredSlotsClean'
  BY ConstantFacts
     DEF IInv, TypeOK, SlotOwnership, UnregisteredSlotsClean, SlotMirrorsCall,
         Holds, Registered, Return
<1>9. ScanConsistent'
  BY ConstantFacts DEF IInv, TypeOK, ScanConsistent, CallMutexFree, Return
<1>10. SerialsFresh'
  BY ConstantFacts DEF IInv, TypeOK, SerialsFresh, Return
<1> QED
  BY <1>1, <1>2, <1>3, <1>4, <1>5, <1>6, <1>7, <1>8, <1>9, <1>10 DEF IInv

(* ProcessInd preserves the inductive invariant.                           *)
LEMMA ProcessIndPreserves ==
  ASSUME IInv, NEW a \in answers, ProcessInd(a)
  PROVE  IInv'
<1>1. TypeOK'
  <2>1. a \in Answers /\ answers' \in SUBSET Answers
    BY DEF IInv, TypeOK, ProcessInd
  <2>2. 0 \in 0 .. NSlots
    BY ConstantFacts
  <2>3. QED
    BY <2>1, <2>2 DEF IInv, TypeOK, ProcessInd
<1>2. SlotOwnership'
  BY ConstantFacts DEF IInv, TypeOK, SlotOwnership, Holds, ProcessInd, Answers
<1>3. InUseCoversSlots'
  BY ConstantFacts DEF IInv, TypeOK, InUseCoversSlots, ProcessInd, Answers
<1>4. NoLostWakeup'
  BY ConstantFacts
     DEF IInv, TypeOK, NoLostWakeup, SlotOwnership, SlotMirrorsCall, Holds,
         Registered, ProcessInd, Answers
<1>5. SuccessHasAnswer'
  BY ConstantFacts
     DEF IInv, TypeOK, SuccessHasAnswer, SlotOwnership, SlotMirrorsCall, Holds,
         Registered, ProcessInd, Answers
<1>6. CallHasKey'
  BY ConstantFacts DEF IInv, TypeOK, CallHasKey, Holds, ProcessInd, Answers
<1>7. SlotMirrorsCall'
  BY ConstantFacts
     DEF IInv, TypeOK, SlotOwnership, SlotMirrorsCall, Holds, Registered,
         ProcessInd, Answers
<1>8. UnregisteredSlotsClean'
  BY ConstantFacts
     DEF IInv, TypeOK, SlotOwnership, UnregisteredSlotsClean, SlotMirrorsCall,
         Holds, Registered, ProcessInd, Answers
<1>9. ScanConsistent'
  BY ConstantFacts
     DEF IInv, TypeOK, ScanConsistent, CallMutexFree, ProcessInd, Answers
<1>10. SerialsFresh'
  BY ConstantFacts DEF IInv, TypeOK, SerialsFresh, ProcessInd, Answers
<1> QED
  BY <1>1, <1>2, <1>3, <1>4, <1>5, <1>6, <1>7, <1>8, <1>9, <1>10 DEF IInv

(* VisitSlot preserves the inductive invariant.                            *)
LEMMA VisitSlotPreserves ==
  ASSUME IInv, VisitSlot
  PROVE  IInv'
<1>1. /\ cursor \in Slots /\ ind \in Answers /\ ind.key \in Keys
      /\ cursor + 1 \in 0 .. NSlots /\ ind.serial \in 1 .. MaxCalls
      /\ ind.serial \in 0 .. MaxCalls /\ ind.serial # 0
  BY ConstantFacts DEF IInv, TypeOK, VisitSlot, Slots, Answers
<1>2. UNCHANGED <<pc, sel, key, wants, status, why, slotInUse, slotKey, waiting,
                   dest, ind, inUse, answers, calls>>
  BY DEF VisitSlot
<1>3. /\ arrived' \in [Slots -> BOOLEAN]
      /\ signalled' \in [Slots -> BOOLEAN]
      /\ hit' \in [Slots -> BOOLEAN]
      /\ buf' \in [Callers -> 0 .. MaxCalls]
      /\ consumed' \in BOOLEAN /\ seen' \in BOOLEAN /\ cursor' \in 0 .. NSlots
  <2>1. arrived' \in [Slots -> BOOLEAN] /\ hit' \in [Slots -> BOOLEAN]
    BY DEF IInv, TypeOK, VisitSlot
  <2>2. signalled' \in [Slots -> BOOLEAN]
    BY DEF IInv, TypeOK, VisitSlot
  <2>3. /\ buf' \in [Callers -> 0 .. MaxCalls]
        /\ consumed' \in BOOLEAN /\ seen' \in BOOLEAN /\ cursor' \in 0 .. NSlots
    BY <1>1 DEF IInv, TypeOK, VisitSlot
  <2> QED
    BY <2>1, <2>2, <2>3
<1>4. \A s \in Slots : s # cursor \/ ~Matches(cursor) =>
        arrived'[s] = arrived[s] /\ signalled'[s] = signalled[s] /\ hit'[s] = hit[s]
  BY DEF IInv, TypeOK, VisitSlot
<1>5. Matches(cursor) =>
        /\ hit'[cursor] /\ arrived'[cursor] = ~waiting[cursor]
        /\ signalled'[cursor] = (signalled[cursor] \/ waiting[cursor])
        /\ \E c \in Callers : Registered(c) /\ sel[c] = cursor
        /\ dest[cursor] # NoCaller => buf'[dest[cursor]] # 0
  <2> SUFFICES ASSUME Matches(cursor)
               PROVE  /\ hit'[cursor] /\ arrived'[cursor] = ~waiting[cursor]
                      /\ signalled'[cursor] = (signalled[cursor] \/ waiting[cursor])
                      /\ \E c \in Callers : Registered(c) /\ sel[c] = cursor
                      /\ dest[cursor] # NoCaller => buf'[dest[cursor]] # 0
    OBVIOUS
  <2>1. hit'[cursor] /\ arrived'[cursor] = ~waiting[cursor]
        /\ signalled'[cursor] = (signalled[cursor] \/ waiting[cursor])
    BY <1>1 DEF IInv, TypeOK, VisitSlot
  <2>2. \E c \in Callers : Registered(c) /\ sel[c] = cursor
    BY <1>1, ConstantFacts DEF IInv, UnregisteredSlotsClean, Matches
  <2>3. dest[cursor] # NoCaller => buf'[dest[cursor]] # 0
    BY <1>1 DEF IInv, TypeOK, VisitSlot
  <2>4. QED
    BY <2>1, <2>2, <2>3
<1>6. \A c \in Callers : buf[c] # 0 => buf'[c] # 0
  BY <1>1 DEF IInv, TypeOK, VisitSlot
<1>7. TypeOK'
  BY <1>2, <1>3 DEF IInv, TypeOK
<1>8. SlotOwnership'
  BY <1>2 DEF IInv, SlotOwnership, Holds
<1>9. InUseCoversSlots'
  BY <1>2 DEF IInv, InUseCoversSlots
<1>10. NoLostWakeup'
  <2> SUFFICES ASSUME NEW c \in Callers
               PROVE  /\ pc[c] = "blocked" /\ hit'[sel[c]] => signalled'[sel[c]]
                      /\ pc[c] \in {"send", "wait"} /\ hit'[sel[c]] => arrived'[sel[c]]
    BY <1>2 DEF NoLostWakeup
  <2>1. CASE Registered(c) /\ sel[c] = cursor /\ Matches(cursor)
    BY <2>1, <1>5 DEF IInv, SlotMirrorsCall, Registered
  <2>2. CASE Registered(c) /\ ~(sel[c] = cursor /\ Matches(cursor))
    BY <2>2, <1>4 DEF IInv, SlotOwnership, NoLostWakeup, Holds, Registered
  <2>3. CASE ~Registered(c)
    BY <2>3 DEF Registered
  <2>4. QED
    BY <2>1, <2>2, <2>3
<1>11. SuccessHasAnswer'
  <2> SUFFICES ASSUME NEW c \in Callers, pc[c] = "free", status[c] = "SUCCESS",
                      why[c] # "spurious"
               PROVE  hit'[sel[c]] /\ (wants[c] => buf'[c] # 0)
    BY <1>2 DEF SuccessHasAnswer
  <2>1. sel[c] \in Slots /\ hit[sel[c]] /\ (wants[c] => buf[c] # 0)
    BY DEF IInv, SuccessHasAnswer, SlotOwnership, Holds
  <2>2. QED
    BY <2>1, <1>4, <1>5, <1>6
<1>12. CallHasKey'
  BY <1>2 DEF IInv, CallHasKey, Holds
<1>13. SlotMirrorsCall'
  <2> SUFFICES ASSUME NEW c \in Callers, Registered(c)
               PROVE  /\ slotKey[sel[c]] = key[c]
                      /\ dest[sel[c]] = IF wants[c] THEN c ELSE NoCaller
                      /\ waiting[sel[c]] <=> pc[c] = "blocked"
                      /\ arrived'[sel[c]] => hit'[sel[c]]
                      /\ signalled'[sel[c]] => pc[c] = "blocked" /\ hit'[sel[c]]
                      /\ hit'[sel[c]] /\ wants[c] => buf'[c] # 0
    BY <1>2 DEF SlotMirrorsCall, Registered
  <2>1. /\ slotKey[sel[c]] = key[c]
        /\ dest[sel[c]] = IF wants[c] THEN c ELSE NoCaller
        /\ waiting[sel[c]] <=> pc[c] = "blocked"
        /\ arrived[sel[c]] => hit[sel[c]]
        /\ signalled[sel[c]] => pc[c] = "blocked" /\ hit[sel[c]]
        /\ hit[sel[c]] /\ wants[c] => buf[c] # 0
        /\ sel[c] \in Slots
    BY DEF IInv, SlotMirrorsCall, SlotOwnership, Holds, Registered
  <2>2. CASE sel[c] = cursor /\ Matches(cursor)
    BY <2>1, <2>2, <1>5, ConstantFacts
  <2>3. CASE ~(sel[c] = cursor /\ Matches(cursor))
    BY <2>1, <2>3, <1>4, <1>6
  <2>4. QED
    BY <2>2, <2>3
<1>14. UnregisteredSlotsClean'
  BY <1>1, <1>2, <1>3, <1>4, <1>5
     DEF IInv, TypeOK, UnregisteredSlotsClean, Registered
<1>15. ScanConsistent'
  BY <1>1, <1>2, ConstantFacts
     DEF IInv, TypeOK, ScanConsistent, VisitSlot, Matches, Slots
<1>16. SerialsFresh'
  BY <1>2 DEF IInv, SerialsFresh
<1> QED
  BY <1>7, <1>8, <1>9, <1>10, <1>11, <1>12, <1>13, <1>14, <1>15, <1>16 DEF IInv

(* EndOfScan preserves the inductive invariant.                            *)
LEMMA EndOfScanPreserves ==
  ASSUME IInv, EndOfScan
  PROVE  IInv'
<1>1. TypeOK'
  <2>1. 0 \in 0 .. NSlots
    BY ConstantFacts
  <2>2. QED
    BY <2>1 DEF IInv, TypeOK, EndOfScan
<1>2. SlotOwnership'
  BY ConstantFacts DEF IInv, TypeOK, SlotOwnership, Holds, EndOfScan
<1>3. InUseCoversSlots'
  <2>1. CASE seen
    BY <2>1 DEF IInv, TypeOK, InUseCoversSlots, EndOfScan
  <2>2. CASE ~seen
    <3>1. cursor = NSlots
      BY <2>2 DEF IInv, ScanConsistent, EndOfScan
    <3>2. \A s \in Slots : s < cursor
      BY <3>1, ConstantFacts DEF Slots
    <3>3. \A s \in Slots : ~slotInUse[s]
      BY <2>2, <3>2 DEF IInv, ScanConsistent, EndOfScan
    <3>4. QED
      BY <3>3 DEF InUseCoversSlots, EndOfScan
  <2>3. QED
    BY <2>1, <2>2 DEF IInv, TypeOK
<1>4. NoLostWakeup'
  BY ConstantFacts
     DEF IInv, TypeOK, NoLostWakeup, SlotOwnership, SlotMirrorsCall, Holds,
         Registered, EndOfScan
<1>5. SuccessHasAnswer'
  BY ConstantFacts
     DEF IInv, TypeOK, SuccessHasAnswer, SlotOwnership, SlotMirrorsCall, Holds,
         Registered, EndOfScan
<1>6. CallHasKey'
  BY ConstantFacts DEF IInv, TypeOK, CallHasKey, Holds, EndOfScan
<1>7. SlotMirrorsCall'
  BY ConstantFacts
     DEF IInv, TypeOK, SlotOwnership, SlotMirrorsCall, Holds, Registered,
         EndOfScan
<1>8. UnregisteredSlotsClean'
  BY ConstantFacts
     DEF IInv, TypeOK, SlotOwnership, UnregisteredSlotsClean, SlotMirrorsCall,
         Holds, Registered, EndOfScan
<1>9. ScanConsistent'
  BY ConstantFacts DEF IInv, TypeOK, ScanConsistent, CallMutexFree, EndOfScan
<1>10. SerialsFresh'
  BY ConstantFacts DEF IInv, TypeOK, SerialsFresh, EndOfScan
<1> QED
  BY <1>1, <1>2, <1>3, <1>4, <1>5, <1>6, <1>7, <1>8, <1>9, <1>10 DEF IInv

(* AnswerLost preserves the inductive invariant.                           *)
LEMMA AnswerLostPreserves ==
  ASSUME IInv, NEW a \in answers, AnswerLost(a)
  PROVE  IInv'
<1>1. TypeOK'
  BY ConstantFacts DEF IInv, TypeOK, AnswerLost, Answers
<1>2. SlotOwnership'
  BY ConstantFacts DEF IInv, TypeOK, SlotOwnership, Holds, AnswerLost, Answers
<1>3. InUseCoversSlots'
  BY ConstantFacts DEF IInv, TypeOK, InUseCoversSlots, AnswerLost, Answers
<1>4. NoLostWakeup'
  BY ConstantFacts
     DEF IInv, TypeOK, NoLostWakeup, SlotOwnership, SlotMirrorsCall, Holds,
         Registered, AnswerLost, Answers
<1>5. SuccessHasAnswer'
  BY ConstantFacts
     DEF IInv, TypeOK, SuccessHasAnswer, SlotOwnership, SlotMirrorsCall, Holds,
         Registered, AnswerLost, Answers
<1>6. CallHasKey'
  BY ConstantFacts DEF IInv, TypeOK, CallHasKey, Holds, AnswerLost, Answers
<1>7. SlotMirrorsCall'
  BY ConstantFacts
     DEF IInv, TypeOK, SlotOwnership, SlotMirrorsCall, Holds, Registered,
         AnswerLost, Answers
<1>8. UnregisteredSlotsClean'
  BY ConstantFacts
     DEF IInv, TypeOK, SlotOwnership, UnregisteredSlotsClean, SlotMirrorsCall,
         Holds, Registered, AnswerLost, Answers
<1>9. ScanConsistent'
  BY ConstantFacts
     DEF IInv, TypeOK, ScanConsistent, CallMutexFree, AnswerLost, Answers
<1>10. SerialsFresh'
  BY ConstantFacts DEF IInv, TypeOK, SerialsFresh, AnswerLost, Answers
<1> QED
  BY <1>1, <1>2, <1>3, <1>4, <1>5, <1>6, <1>7, <1>8, <1>9, <1>10 DEF IInv

-----------------------------------------------------------------------------
(* The initial state satisfies the inductive invariant.                    *)
LEMMA InitImpliesIInv == Init => IInv
<1> SUFFICES ASSUME Init
             PROVE  IInv
  OBVIOUS
<1>1. TypeOK
  <2>1. 0 \in 0 .. MaxCalls /\ 0 \in 0 .. NSlots
    BY ConstantFacts
  <2>2. answers \in SUBSET Answers /\ ind \in Answers \cup {NoInd}
    BY DEF Init
  <2>3. QED
    BY <2>1, <2>2 DEF Init, TypeOK
<1>2. SlotOwnership /\ InUseCoversSlots /\ NoLostWakeup /\ SuccessHasAnswer
  BY DEF Init, SlotOwnership, InUseCoversSlots, NoLostWakeup, SuccessHasAnswer,
         Holds
<1>3. CallHasKey /\ SlotMirrorsCall /\ UnregisteredSlotsClean
  BY DEF Init, CallHasKey, SlotMirrorsCall, UnregisteredSlotsClean, Holds,
         Registered
<1>4. ScanConsistent /\ SerialsFresh
  BY DEF Init, ScanConsistent, SerialsFresh
<1>5. QED
  BY <1>1, <1>2, <1>3, <1>4 DEF IInv

(* A step that changes nothing preserves the inductive invariant.          *)
LEMMA StutterPreserves ==
  ASSUME IInv, UNCHANGED vars
  PROVE  IInv'
BY DEF IInv, vars, TypeOK, SlotOwnership, InUseCoversSlots, NoLostWakeup,
       SuccessHasAnswer, CallHasKey, SlotMirrorsCall, UnregisteredSlotsClean,
       ScanConsistent, SerialsFresh, Holds, Registered

(* The inductive invariant holds in every reachable state. *)
THEOREM IInvHolds == Spec => []IInv
<1>1. Init => IInv
  BY InitImpliesIInv
<1>2. IInv /\ [Next]_vars => IInv'
  <2> SUFFICES ASSUME IInv, [Next]_vars
               PROVE  IInv'
    OBVIOUS
  <2>1. ASSUME NEW c \in Callers, NEW k \in Keys, NEW w \in BOOLEAN, AllocSlot(c, k, w)
        PROVE  IInv'
    BY <2>1, AllocSlotPreserves
  <2>2. ASSUME NEW c \in Callers, CallerStep(c)
        PROVE  IInv'
    BY <2>2, SelectIndPreserves, SendReqPreserves, SendFailsPreserves,
       WaitForIndPreserves, WakeUpPreserves, FreeSlotPreserves, ReturnPreserves
       DEF CallerStep
  <2>3. ASSUME NEW a \in answers, ProcessInd(a) \/ AnswerLost(a)
        PROVE  IInv'
    BY <2>3, ProcessIndPreserves, AnswerLostPreserves
  <2>4. CASE ScanStep
    BY <2>4, VisitSlotPreserves, EndOfScanPreserves DEF ScanStep
  <2>5. CASE UNCHANGED vars
    BY <2>5, StutterPreserves
  <2>6. QED
    BY <2>1, <2>2, <2>3, <2>4, <2>5 DEF Next
<1>3. QED
  BY <1>1, <1>2, PTL DEF Spec

(* Every variable keeps its type. *)
THEOREM TypeCorrect == Spec => []TypeOK
<1>1. IInv => TypeOK
  BY DEF IInv
<1>2. QED
  BY <1>1, IInvHolds, PTL

(* For any number of callers and slots: a slot belongs to exactly one call *)
(* from its allocation until it is freed, and no path leaks one.           *)
THEOREM SlotsAreOwned == Spec => []SlotOwnership
<1>1. IInv => SlotOwnership
  BY DEF IInv
<1>2. QED
  BY <1>1, IInvHolds, PTL

(* No indication a call waits for is dropped at the entry of               *)
(* loc_sync_process_ind.                                                   *)
THEOREM NoIndicationDropped == Spec => []InUseCoversSlots
<1>1. IInv => InUseCoversSlots
  BY DEF IInv
<1>2. QED
  BY <1>1, IInvHolds, PTL

(* No wakeup is lost between the scan, the early arrival and the wait. *)
THEOREM WakeupsAreKept == Spec => []NoLostWakeup
<1>1. IInv => NoLostWakeup
  BY DEF IInv
<1>2. QED
  BY <1>1, IInvHolds, PTL

(* A signalled or early success has an answer in the buffer. *)
THEOREM SuccessIsAnswered == Spec => []SuccessHasAnswer
<1>1. IInv => SuccessHasAnswer
  BY DEF IInv
<1>2. QED
  BY <1>1, IInvHolds, PTL

-----------------------------------------------------------------------------
(* Refinement: every step of SyncReq is a step of SyncCall or a stutter. *)

Open == answers \cup (IF ind = NoInd \/ consumed THEN {} ELSE {ind})
Calling == [c \in Callers |-> pc[c] # "idle"]

(* Every step of SyncReq is a step of SyncCall or a stutter.               *)
LEMMA StepSimulation ==
  ASSUME IInv, IInv', [Next]_vars
  PROVE  [Sync!Next]_(Sync!avars)
<1> USE ConstantFacts DEF IInv, TypeOK, Sync!avars
<1>1. ASSUME NEW c \in Callers, NEW k \in Keys, NEW w \in BOOLEAN, AllocSlot(c, k, w)
      PROVE  Sync!Call(c, k)
  <2>1. /\ pc[c] = "idle" /\ UNCHANGED <<buf, ind, consumed, answers, calls>>
        /\ key' = [key EXCEPT ![c] = k]
    BY <1>1 DEF AllocSlot
  <2>2. pc' = [pc EXCEPT ![c] = "select"] \/ pc' = [pc EXCEPT ![c] = "done"]
    BY <1>1 DEF AllocSlot
  <2>3. Calling' = [Calling EXCEPT ![c] = TRUE] /\ ~Calling[c]
    <3>0. pc'[c] # "idle" /\ \A d \in Callers : d # c => pc'[d] = pc[d]
      BY <2>2
    <3> HIDE DEF IInv, TypeOK
    <3>1. \A d \in Callers : (pc'[d] # "idle") = (IF d = c THEN TRUE ELSE pc[d] # "idle")
      BY <3>0
    <3>2. Calling' = [d \in Callers |-> IF d = c THEN TRUE ELSE pc[d] # "idle"]
      BY <3>1, Zenon DEF Calling
    <3>3. [Calling EXCEPT ![c] = TRUE]
            = [d \in Callers |-> IF d = c THEN TRUE ELSE pc[d] # "idle"]
      BY Zenon DEF Calling
    <3>4. QED
      BY <2>1, <3>2, <3>3 DEF Calling
  <2>4. QED
    BY <2>1, <2>3 DEF Sync!Call, Calling
<1>2. ASSUME NEW c \in Callers, SendReq(c)
      PROVE  Sync!Ask(c)
  <2>1. /\ pc[c] = "send" /\ pc' = [pc EXCEPT ![c] = "wait"] /\ calls' = calls + 1
        /\ answers' = answers \cup {[key |-> key[c], serial |-> calls + 1]}
        /\ UNCHANGED <<key, buf, ind, consumed>>
    BY <1>2 DEF SendReq
  <2>2. \A d \in Callers : pc'[d] = IF d = c THEN "wait" ELSE pc[d]
    BY <2>1
  <2> HIDE DEF IInv, TypeOK
  <2>3. Calling' = Calling /\ Calling[c]
    <3>1. \A d \in Callers : (pc'[d] # "idle") = (pc[d] # "idle")
      BY <2>1, <2>2
    <3>2. Calling' = Calling
      BY <3>1, Zenon DEF Calling
    <3> QED
      BY <2>1, <3>2 DEF Calling
  <2>4. Open' = Open \cup {[key |-> key[c], serial |-> calls + 1]}
    BY <2>1 DEF Open
  <2> QED
    BY <2>1, <2>3, <2>4 DEF Sync!Ask, Calling, Open
<1>3. ASSUME NEW c \in Callers, Return(c)
      PROVE  Sync!Return(c)
  <2>1. /\ pc[c] = "done" /\ pc' = [pc EXCEPT ![c] = "idle"]
        /\ key' = [key EXCEPT ![c] = NoKey] /\ buf' = [buf EXCEPT ![c] = 0]
        /\ UNCHANGED <<calls, answers, ind, consumed>>
    BY <1>3 DEF Return
  <2>2. \A d \in Callers : pc'[d] = IF d = c THEN "idle" ELSE pc[d]
    BY <2>1
  <2> HIDE DEF IInv, TypeOK
  <2>3. Calling' = [Calling EXCEPT ![c] = FALSE] /\ Calling[c]
    BY <2>1, <2>2 DEF Calling
  <2>4. Open' = Open
    BY <2>1 DEF Open
  <2> QED
    BY <2>1, <2>3, <2>4 DEF Sync!Return, Calling, Open
<1>4. ASSUME NEW c \in Callers,
             \/ SelectInd(c) \/ SendFails(c) \/ WaitForInd(c) \/ FreeSlot(c)
             \/ \E r \in WakeReasons : WakeUp(c, r)
      PROVE  UNCHANGED Sync!avars
  <2>1. UNCHANGED <<key, buf, ind, consumed, answers, calls>>
    BY <1>4 DEF SelectInd, SendFails, WaitForInd, FreeSlot, WakeUp
  <2>2. \A d \in Callers : pc'[d] = "idle" <=> pc[d] = "idle"
    BY <1>4 DEF SelectInd, SendFails, WaitForInd, FreeSlot, WakeUp
  <2>3. QED
    BY <2>1, <2>2
<1>5. ASSUME NEW a \in answers, ProcessInd(a)
      PROVE  Sync!Drop(a) \/ UNCHANGED Sync!avars
  <2>1. /\ UNCHANGED <<pc, key, buf, calls>> /\ ind = NoInd /\ a # NoInd
        /\ answers' = answers \ {a}
    BY <1>5 DEF ProcessInd, CallMutexFree
  <2>2. CASE inUse
    BY <1>5, <2>1, <2>2 DEF ProcessInd
  <2>3. CASE ~inUse
    BY <1>5, <2>1, <2>3 DEF ProcessInd, Sync!Drop
  <2>4. QED
    BY <2>2, <2>3
<1>6. ASSUME VisitSlot
      PROVE  \/ \E c \in Callers : Sync!Deliver(c, ind) /\ ind \in Open
             \/ UNCHANGED Sync!avars
  <2>1. /\ UNCHANGED <<pc, key, ind, answers, calls>>
        /\ ind # NoInd /\ ~consumed /\ cursor \in Slots
    BY <1>6 DEF VisitSlot
  <2>2. CASE Matches(cursor) /\ dest[cursor] # NoCaller
    <3>1. PICK c \in Callers : Registered(c) /\ sel[c] = cursor
      BY <2>1, <2>2 DEF UnregisteredSlotsClean
    <3>2. dest[cursor] = c /\ key[c] = ind.key /\ pc[c] # "idle"
      BY <2>2, <3>1 DEF SlotMirrorsCall, Matches, Registered
    <3>3. buf' = [buf EXCEPT ![c] = ind.serial] /\ consumed'
      BY <1>6, <2>2, <3>2 DEF VisitSlot
    <3>4. ind \in Open /\ ind \notin answers
      BY <2>1 DEF Open, SerialsFresh
    <3>5. Sync!Deliver(c, ind)
      <4> HIDE DEF IInv, TypeOK
      <4>1. Calling[c] /\ Calling' = Calling
        BY <2>1, <3>2 DEF Calling
      <4>2. Open' = Open \ {ind}
        BY <2>1, <3>3, <3>4 DEF Open
      <4> QED
        BY <2>1, <3>2, <3>3, <3>4, <4>1, <4>2 DEF Sync!Deliver, Open, Calling
    <3>6. QED
      BY <3>4, <3>5
  <2>3. CASE ~(Matches(cursor) /\ dest[cursor] # NoCaller)
    <3>1. UNCHANGED <<buf, consumed>>
      BY <1>6, <2>3 DEF VisitSlot
    <3>2. QED
      BY <2>1, <3>1
  <2>4. QED
    BY <2>2, <2>3
<1>7. ASSUME EndOfScan
      PROVE  \/ Sync!Drop(ind) /\ ind \in Open
             \/ UNCHANGED Sync!avars
  <2>1. /\ UNCHANGED <<pc, key, buf, answers, calls>>
        /\ ind # NoInd /\ ind' = NoInd /\ ~consumed'
    BY <1>7 DEF EndOfScan
  <2>2. CASE consumed
    BY <2>1, <2>2
  <2>3. CASE ~consumed
    BY <2>1, <2>3 DEF Sync!Drop, Open, SerialsFresh
  <2>4. QED
    BY <2>2, <2>3
<1>8. ASSUME NEW a \in answers, AnswerLost(a)
      PROVE  Sync!Drop(a)
  <2>1. UNCHANGED <<pc, key, buf, ind, consumed, calls>> /\ answers' = answers \ {a}
    BY <1>8 DEF AnswerLost
  <2>2. ind # NoInd => a # ind
    BY DEF SerialsFresh
  <2>3. QED
    BY <2>1, <2>2 DEF Sync!Drop
<1>9. ASSUME UNCHANGED vars
      PROVE  UNCHANGED Sync!avars
  BY <1>9 DEF vars
<1>10. answers \subseteq Open
  BY DEF Open
<1>11. QED
  BY <1>1, <1>2, <1>3, <1>4, <1>5, <1>6, <1>7, <1>8, <1>9, <1>10
     DEF Next, CallerStep, ScanStep, Sync!Next, Open

(* For any number of callers, keys, slots and requests: the slots, locks   *)
(* and scans of loc_api_sync_req.c implement a synchronous call whose      *)
(* buffer only its own answers reach.                                      *)
THEOREM Refinement == Spec => ImplementsSyncCall
<1>1. Init => Sync!Init
  BY DEF Init, Sync!Init
<1>2. IInv /\ IInv' /\ [Next]_vars => [Sync!Next]_(Sync!avars)
  BY StepSimulation
<1>3. QED
  BY <1>1, <1>2, IInvHolds, PTL DEF Spec, ImplementsSyncCall, Sync!Spec
=============================================================================
