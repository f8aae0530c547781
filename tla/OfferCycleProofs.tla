-------------------------- MODULE OfferCycleProofs --------------------------
(***************************************************************************)
(* Proofs about module OfferCycle, for any number of tasks, ids, offers and *)
(* re-registrations and any capacity of the queue.                          *)
(***************************************************************************)
EXTENDS OfferCycle, SequenceTheorems, TLAPS

-----------------------------------------------------------------------------
(* 1. Types                                                                 *)

(* What OfferQueue.remove leaves of the queue is a shorter queue.           *)
LEMMA RemoveAtType ==
    ASSUME NEW S, NEW q \in Seq(S), NEW i \in DOMAIN q
    PROVE  /\ SubSeq(q, 1, i - 1) \o SubSeq(q, i + 1, Len(q)) \in Seq(S)
           /\ Len(SubSeq(q, 1, i - 1) \o SubSeq(q, i + 1, Len(q))) = Len(q) - 1
<1> DEFINE s1 == SubSeq(q, 1, i - 1)
           s2 == SubSeq(q, i + 1, Len(q))
<1>1. Len(q) \in Nat /\ i \in 1 .. Len(q) /\ \A j \in 1 .. Len(q) : q[j] \in S
  BY LenProperties, ElementOfSeq
<1>2. s1 \in Seq(S) /\ Len(s1) = i - 1
  BY <1>1, SubSeqProperties
<1>3. s2 \in Seq(S) /\ Len(s2) = Len(q) - i
  BY <1>1, SubSeqProperties
<1> HIDE DEF s1, s2
<1>4. s1 \o s2 \in Seq(S) /\ Len(s1 \o s2) = Len(s1) + Len(s2)
  BY <1>2, <1>3, ConcatProperties
<1>5. Len(s1 \o s2) = Len(q) - 1
  BY <1>1, <1>2, <1>3, <1>4
<1> QED BY <1>4, <1>5 DEF s1, s2

LEMMA InitTypeOK == Init => TypeOK
<1> SUFFICES ASSUME Init PROVE TypeOK
  OBVIOUS
<1> USE OfferCycleAssumption, BackoffAssumption, StoreAssumption
<1>1. StoreTypeOK
  BY DEF Init, StoreTypeOK
<1>2. ReconcilerTypeOK
  <2>1. toReconcile \in [Threads -> SUBSET TaskIds] /\ backOffMs \in BaseBackoff .. MaxBackoff
    BY DEF Init, ReconcilerInit
  <2>2. implicitTriggered \in BOOLEAN /\ timerExpired \in BOOLEAN
    BY DEF Init, ReconcilerInit
  <2> QED
    BY <2>1, <2>2 DEF Init, ReconcilerInit, ReconcilerTypeOK
<1>3. StoredIds \subseteq TaskIds /\ LiveStatusIds \subseteq TaskIds
  BY DEF Init, StoredIds, LiveStatusIds, StoredStatuses, TaskStatuses
<1>4. PcTypeOK
  BY DEF Init, PcTypeOK, DriverLabels, OfferLabels, ReconcilerLabels
<1>5. OffersTypeOK
  BY EmptySeq DEF Init, OffersTypeOK, Offers, PlanLabels
<1>6. LaunchTypeOK
  BY <1>3 DEF Init, LaunchTypeOK
<1>7. StatusTypeOK
  BY <1>3 DEF Init, StatusTypeOK
<1>8. MesosTypeOK
  BY <1>3 DEF Init, MesosTypeOK
<1> QED
  BY <1>1, <1>2, <1>4, <1>5, <1>6, <1>7, <1>8 DEF Init, TypeOK
(* A thread that goes to a label of its own leaves the other where it is.   *)
LEMMA GotoDriver ==
    ASSUME PcTypeOK, NEW l \in DriverLabels, Goto("driver", l)
    PROVE  PcTypeOK' /\ pc'["driver"] = l /\ pc'["offers"] = pc["offers"]
BY OfferCycleAssumption DEF PcTypeOK, Goto

LEMMA GotoOffers ==
    ASSUME PcTypeOK, NEW l \in OfferLabels, Goto("offers", l)
    PROVE  PcTypeOK' /\ pc'["offers"] = l /\ pc'["driver"] = pc["driver"]
BY OfferCycleAssumption DEF PcTypeOK, Goto

(* Every step inside the reconciler ends at a label of the reconciler.      *)
LEMMA ReconcilerStepGoto ==
    ASSUME NEW t \in Threads, ReconcilerStep(t)
    PROVE  /\ pc[t] \in ReconcilerLabels
           /\ \E l \in ReconcilerLabels \ {"start"} :
                 Goto(t, l) /\ (l = "startAdd" => pc[t] = "start")
<1> USE DEF ReconcilerLabels
<1>1. CASE StartFetch(t)
  BY <1>1 DEF StartFetch
<1>2. CASE StartAdd(t)
  BY <1>2 DEF StartAdd
<1>3. CASE ReconcileCheck(t)
  BY <1>3 DEF ReconcileCheck
<1>4. CASE ReconcileLocked(t)
  BY <1>4 DEF ReconcileLocked
<1>5. CASE ReconcileTrigger(t)
  BY <1>5 DEF ReconcileTrigger
<1>6. CASE ReconcileSend(t)
  BY <1>6 DEF ReconcileSend
<1> QED
  BY <1>1, <1>2, <1>3, <1>4, <1>5, <1>6 DEF ReconcilerStep

LEMMA LiveStatusIdsType == StoreTypeOK => LiveStatusIds \subseteq TaskIds
BY DEF StoreTypeOK, LiveStatusIds, StoredStatuses, TaskStatuses

LEMMA ReconcilerStepTypeOK ==
    ASSUME StoreTypeOK, ReconcilerTypeOK, NEW t \in Threads, ReconcilerStep(t)
    PROVE  ReconcilerTypeOK'
<1> USE BackoffAssumption DEF ReconcilerTypeOK
<1>1. CASE StartFetch(t)
  BY <1>1, LiveStatusIdsType DEF StartFetch
<1>2. CASE StartAdd(t)
  BY <1>2 DEF StartAdd
<1>3. CASE ReconcileCheck(t)
  BY <1>3 DEF ReconcileCheck, reconcilerVars
<1>4. CASE ReconcileLocked(t)
  <2>1. toReconcile' \in [Threads -> SUBSET TaskIds]
    BY <1>4 DEF ReconcileLocked
  <2>2. timerExpired' \in BOOLEAN
    BY <1>4 DEF ReconcileLocked
  <2>3. backOffMs' \in BaseBackoff .. MaxBackoff
    BY <1>4 DEF ReconcileLocked
  <2> QED
    BY <1>4, <2>1, <2>2, <2>3 DEF ReconcileLocked
<1>5. CASE ReconcileTrigger(t)
  BY <1>5 DEF ReconcileTrigger
<1>6. CASE ReconcileSend(t)
  BY <1>6 DEF ReconcileSend
<1> QED
  BY <1>1, <1>2, <1>3, <1>4, <1>5, <1>6 DEF ReconcilerStep

(* Every step keeps the types.                                              *)
LEMMA NextTypeOK == TypeOK /\ [Next]_vars => TypeOK'
<1> SUFFICES ASSUME TypeOK, [Next]_vars PROVE TypeOK'
  OBVIOUS
<1> USE OfferCycleAssumption DEF TypeOK
<1>1. ASSUME Registered PROVE TypeOK'
  <2>1. PcTypeOK' /\ pc'["offers"] = pc["offers"] /\ pc'["driver"] = "start"
    BY <1>1, GotoDriver DEF Registered, DriverLabels, ReconcilerLabels
  <2>2. StoreTypeOK' /\ ReconcilerTypeOK' /\ MesosTypeOK'
    BY <1>1 DEF Registered, StoreTypeOK, storeVars, ReconcilerTypeOK, reconcilerVars, MesosTypeOK, mesosVars
  <2>3. OffersTypeOK' /\ LaunchTypeOK' /\ StatusTypeOK'
    BY <1>1, <2>1 DEF Registered, OffersTypeOK, offerVars, LaunchTypeOK, launchVars, StatusTypeOK, statusVars, PlanLabels
  <2>4. (apiServerStarted \in BOOLEAN /\ isInitialized \in BOOLEAN)'
    BY <1>1 DEF Registered, flagVars
  <2> QED
    BY <2>1, <2>2, <2>3, <2>4
<1>2. ASSUME DriverReconciles PROVE TypeOK'
  <2>1. PcTypeOK' /\ pc'["offers"] = pc["offers"] /\ pc'["driver"] \in ReconcilerLabels
    BY <1>2, ReconcilerStepGoto, GotoDriver DEF DriverReconciles, DriverLabels
  <2>2. StoreTypeOK' /\ MesosTypeOK'
    BY <1>2 DEF DriverReconciles, StoreTypeOK, storeVars, MesosTypeOK, mesosVars
  <2>3. OffersTypeOK' /\ LaunchTypeOK'
    BY <1>2, <2>1 DEF DriverReconciles, OffersTypeOK, offerVars, LaunchTypeOK, launchVars, PlanLabels, ReconcilerLabels
  <2>4. ReconcilerTypeOK'
    BY <1>2, ReconcilerStepTypeOK DEF DriverReconciles
  <2>5. StatusTypeOK'
    BY <1>2, <2>1 DEF DriverReconciles, StatusTypeOK, statusVars, ReconcilerLabels
  <2>6. (apiServerStarted \in BOOLEAN /\ isInitialized \in BOOLEAN)'
    BY <1>2 DEF DriverReconciles, flagVars
  <2> QED
    BY <2>1, <2>2, <2>3, <2>4, <2>5, <2>6
<1>3. ASSUME RegisteredEnd PROVE TypeOK'
  <2>1. PcTypeOK' /\ pc'["offers"] = pc["offers"] /\ pc'["driver"] = "idle"
    BY <1>3, GotoDriver DEF RegisteredEnd, DriverLabels, ReconcilerLabels
  <2>2. StoreTypeOK' /\ ReconcilerTypeOK' /\ MesosTypeOK'
    BY <1>3 DEF RegisteredEnd, StoreTypeOK, storeVars, ReconcilerTypeOK, reconcilerVars, MesosTypeOK, mesosVars
  <2>3. OffersTypeOK' /\ LaunchTypeOK' /\ StatusTypeOK'
    BY <1>3, <2>1 DEF RegisteredEnd, OffersTypeOK, offerVars, LaunchTypeOK, launchVars, StatusTypeOK, statusVars, PlanLabels
  <2>4. (apiServerStarted \in BOOLEAN /\ isInitialized \in BOOLEAN)'
    BY <1>3 DEF RegisteredEnd, flagVars
  <2> QED
    BY <2>1, <2>2, <2>3, <2>4
<1>4. ASSUME Enqueue PROVE TypeOK'
  <2>1. PcTypeOK' /\ pc'["offers"] = pc["offers"] /\ pc'["driver"] \in {"enqueue", "full"}
    BY <1>4, GotoDriver DEF Enqueue, DriverLabels, PcTypeOK
  <2>2. StoreTypeOK' /\ ReconcilerTypeOK' /\ MesosTypeOK'
    BY <1>4 DEF Enqueue, StoreTypeOK, storeVars, ReconcilerTypeOK, reconcilerVars, MesosTypeOK, mesosVars
  <2>3. LaunchTypeOK' /\ StatusTypeOK'
    BY <1>4, <2>1 DEF Enqueue, LaunchTypeOK, launchVars, StatusTypeOK, statusVars, PlanLabels
  <2>4. OffersTypeOK'
    <3> PICK o \in NextIncoming :
          \/ Len(queue) < Capacity /\ queue' = Append(queue, o)
             /\ incoming' = incoming \ {o} /\ UNCHANGED answered
          \/ Answer({o}) /\ UNCHANGED <<queue, incoming>>
      BY <1>4 DEF Enqueue
    <3>1. o \in Offers
      BY DEF NextIncoming, OffersTypeOK
    <3>2. queue' \in Seq(Offers) /\ Len(queue') <= Capacity
      BY <3>1, AppendProperties, LenProperties DEF OffersTypeOK
    <3>3. answered' \in [Offers -> Nat]
      BY DEF Answer, OffersTypeOK
    <3> QED
      BY <1>4, <2>1, <3>2, <3>3 DEF Enqueue, OffersTypeOK
  <2>5. (apiServerStarted \in BOOLEAN /\ isInitialized \in BOOLEAN)'
    BY <1>4 DEF Enqueue, flagVars
  <2> QED
    BY <2>1, <2>2, <2>3, <2>4, <2>5
<1>5. ASSUME RemoveDeclined PROVE TypeOK'
  <2>1. PcTypeOK' /\ pc'["offers"] = pc["offers"] /\ pc'["driver"] = "enqueue"
    BY <1>5, GotoDriver DEF RemoveDeclined, DriverLabels, ReconcilerLabels
  <2>2. StoreTypeOK' /\ ReconcilerTypeOK' /\ MesosTypeOK'
    BY <1>5 DEF RemoveDeclined, StoreTypeOK, storeVars, ReconcilerTypeOK, reconcilerVars, MesosTypeOK, mesosVars
  <2>3. OffersTypeOK' /\ LaunchTypeOK' /\ StatusTypeOK'
    BY <1>5, <2>1 DEF RemoveDeclined, OffersTypeOK, offerVars, LaunchTypeOK, launchVars, StatusTypeOK, statusVars, PlanLabels
  <2>4. (apiServerStarted \in BOOLEAN /\ isInitialized \in BOOLEAN)'
    BY <1>5 DEF RemoveDeclined, flagVars
  <2> QED
    BY <2>1, <2>2, <2>3, <2>4
<1>6. ASSUME EnqueueEnd PROVE TypeOK'
  <2>1. PcTypeOK' /\ pc'["offers"] = pc["offers"] /\ pc'["driver"] = "idle"
    BY <1>6, GotoDriver DEF EnqueueEnd, DriverLabels, ReconcilerLabels
  <2>2. StoreTypeOK' /\ ReconcilerTypeOK' /\ MesosTypeOK'
    BY <1>6 DEF EnqueueEnd, StoreTypeOK, storeVars, ReconcilerTypeOK, reconcilerVars, MesosTypeOK, mesosVars
  <2>3. OffersTypeOK' /\ LaunchTypeOK' /\ StatusTypeOK'
    BY <1>6, <2>1 DEF EnqueueEnd, OffersTypeOK, offerVars, LaunchTypeOK, launchVars, StatusTypeOK, statusVars, PlanLabels
  <2>4. (apiServerStarted \in BOOLEAN /\ isInitialized \in BOOLEAN)'
    BY <1>6 DEF EnqueueEnd, flagVars
  <2> QED
    BY <2>1, <2>2, <2>3, <2>4
<1>7. ASSUME StatusStore PROVE TypeOK'
  <2>1. PcTypeOK' /\ pc'["offers"] = pc["offers"] /\ pc'["driver"] \in {"clean", "set"}
    BY <1>7, GotoDriver DEF StatusStore, DriverLabels, ReconcilerLabels
  <2>2. StoreTypeOK' /\ ReconcilerTypeOK' /\ MesosTypeOK'
    BY <1>7 DEF StatusStore, StoreTypeOK, storeVars, ReconcilerTypeOK, reconcilerVars, MesosTypeOK, mesosVars
  <2>3. OffersTypeOK' /\ LaunchTypeOK' /\ StatusTypeOK'
    BY <1>7, <2>1 DEF StatusStore, OffersTypeOK, offerVars, LaunchTypeOK, launchVars, StatusTypeOK, statusVars, PlanLabels
  <2>4. (apiServerStarted \in BOOLEAN /\ isInitialized \in BOOLEAN)'
    BY <1>7 DEF StatusStore, flagVars
  <2> QED
    BY <2>1, <2>2, <2>3, <2>4
<1>8. ASSUME StatusReconcile PROVE TypeOK'
  <2>1. PcTypeOK' /\ pc'["offers"] = pc["offers"] /\ pc'["driver"] = "clean"
    BY <1>8, GotoDriver DEF StatusReconcile, DriverLabels, ReconcilerLabels
  <2>2. StoreTypeOK' /\ MesosTypeOK'
    BY <1>8 DEF StatusReconcile, StoreTypeOK, storeVars, MesosTypeOK, mesosVars
  <2>3. OffersTypeOK' /\ LaunchTypeOK'
    BY <1>8, <2>1 DEF StatusReconcile, OffersTypeOK, offerVars, LaunchTypeOK, launchVars, PlanLabels, ReconcilerLabels
  <2>4. ReconcilerTypeOK'
    BY <1>8 DEF StatusReconcile, Update, ReconcilerTypeOK
  <2>5. StatusTypeOK'
    <3>1. current.status.id \in TaskIds
      BY <1>8 DEF StatusReconcile, StatusTypeOK, TaskStatuses
    <3> QED
      BY <1>8, <2>1, <3>1 DEF StatusReconcile, StatusTypeOK
  <2>6. (apiServerStarted \in BOOLEAN /\ isInitialized \in BOOLEAN)'
    BY <1>8 DEF StatusReconcile, flagVars
  <2> QED
    BY <2>1, <2>2, <2>3, <2>4, <2>5, <2>6
<1>9. ASSUME StatusClean PROVE TypeOK'
  <2>1. PcTypeOK' /\ pc'["offers"] = pc["offers"] /\ pc'["driver"] = "idle"
    BY <1>9, GotoDriver DEF StatusClean, DriverLabels, ReconcilerLabels
  <2>2. StoreTypeOK' /\ ReconcilerTypeOK' /\ MesosTypeOK'
    BY <1>9 DEF StatusClean, StoreTypeOK, storeVars, ReconcilerTypeOK, reconcilerVars, MesosTypeOK, mesosVars
  <2>3. OffersTypeOK' /\ LaunchTypeOK' /\ StatusTypeOK'
    BY <1>9, <2>1 DEF StatusClean, OffersTypeOK, offerVars, LaunchTypeOK, launchVars, StatusTypeOK, statusVars, PlanLabels
  <2>4. (apiServerStarted \in BOOLEAN /\ isInitialized \in BOOLEAN)'
    BY <1>9 DEF StatusClean, flagVars
  <2> QED
    BY <2>1, <2>2, <2>3, <2>4
<1>10. ASSUME Poll PROVE TypeOK'
  <2>1. PcTypeOK' /\ pc'["driver"] = pc["driver"] /\ pc'["offers"] = "drain"
    BY <1>10, GotoOffers DEF Poll, OfferLabels, ReconcilerLabels, PlanLabels
  <2>2. StoreTypeOK' /\ ReconcilerTypeOK' /\ MesosTypeOK'
    BY <1>10 DEF Poll, StoreTypeOK, storeVars, ReconcilerTypeOK, reconcilerVars, MesosTypeOK, mesosVars
  <2>3. OffersTypeOK' /\ LaunchTypeOK' /\ StatusTypeOK'
    BY <1>10, <2>1 DEF Poll, OffersTypeOK, offerVars, LaunchTypeOK, launchVars, StatusTypeOK, statusVars, PlanLabels
  <2>4. (apiServerStarted \in BOOLEAN /\ isInitialized \in BOOLEAN)'
    BY <1>10 DEF Poll, flagVars
  <2> QED
    BY <2>1, <2>2, <2>3, <2>4
<1>11. ASSUME Drain PROVE TypeOK'
  <2>1. PcTypeOK' /\ pc'["driver"] = pc["driver"] /\ pc'["offers"] = "gate"
    BY <1>11, GotoOffers DEF Drain, OfferLabels, ReconcilerLabels, PlanLabels
  <2>2. StoreTypeOK' /\ ReconcilerTypeOK' /\ MesosTypeOK'
    BY <1>11 DEF Drain, StoreTypeOK, storeVars, ReconcilerTypeOK, reconcilerVars, MesosTypeOK, mesosVars
  <2>3. OffersTypeOK' /\ LaunchTypeOK' /\ StatusTypeOK'
    BY <1>11, <2>1 DEF Drain, OffersTypeOK, offerVars, LaunchTypeOK, launchVars, StatusTypeOK, statusVars, PlanLabels
  <2>4. (apiServerStarted \in BOOLEAN /\ isInitialized \in BOOLEAN)'
    BY <1>11 DEF Drain, flagVars
  <2> QED
    BY <2>1, <2>2, <2>3, <2>4
<1>12. ASSUME Gate PROVE TypeOK'
  <2>1. PcTypeOK' /\ pc'["driver"] = pc["driver"] /\ pc'["offers"] \in {"finish", "reconcile"}
    BY <1>12, GotoOffers DEF Gate, OfferLabels, ReconcilerLabels, PlanLabels
  <2>2. StoreTypeOK' /\ ReconcilerTypeOK' /\ MesosTypeOK'
    BY <1>12 DEF Gate, StoreTypeOK, storeVars, ReconcilerTypeOK, reconcilerVars, MesosTypeOK, mesosVars
  <2>3. OffersTypeOK' /\ LaunchTypeOK' /\ StatusTypeOK'
    BY <1>12, <2>1 DEF Gate, OffersTypeOK, offerVars, LaunchTypeOK, launchVars, StatusTypeOK, statusVars, PlanLabels
  <2>4. (apiServerStarted \in BOOLEAN /\ isInitialized \in BOOLEAN)'
    BY <1>12 DEF Gate, flagVars
  <2> QED
    BY <2>1, <2>2, <2>3, <2>4
<1>13. ASSUME OffersReconcile PROVE TypeOK'
  <2>1. PcTypeOK' /\ pc'["driver"] = pc["driver"] /\ pc'["offers"] \in ReconcilerLabels
    <3>1. pc["offers"] # "start"
      BY DEF PcTypeOK, OfferLabels, PlanLabels
    <3>2. PICK l \in ReconcilerLabels \ {"start", "startAdd"} : Goto("offers", l)
      BY <1>13, <3>1, ReconcilerStepGoto DEF OffersReconcile
    <3>3. l \in OfferLabels
      BY DEF OfferLabels
    <3> QED
      BY <3>2, <3>3, GotoOffers
  <2>2. StoreTypeOK' /\ MesosTypeOK'
    BY <1>13 DEF OffersReconcile, StoreTypeOK, storeVars, MesosTypeOK, mesosVars
  <2>3. StatusTypeOK'
    BY <1>13, <2>1 DEF OffersReconcile, StatusTypeOK, statusVars, PlanLabels, ReconcilerLabels
  <2>4. OffersTypeOK'
    <3>1. pc["offers"] \notin PlanLabels /\ pc'["offers"] \notin PlanLabels
      BY <1>13, <2>1, ReconcilerStepGoto DEF OffersReconcile, ReconcilerLabels, PlanLabels
    <3> QED
      BY <1>13, <3>1 DEF OffersReconcile, OffersTypeOK, offerVars
  <2>5. LaunchTypeOK'
    BY <1>13, <2>1 DEF OffersReconcile, LaunchTypeOK, launchVars, ReconcilerLabels
  <2>6. ReconcilerTypeOK'
    BY <1>13, ReconcilerStepTypeOK DEF OffersReconcile
  <2>7. (apiServerStarted \in BOOLEAN /\ isInitialized \in BOOLEAN)'
    BY <1>13 DEF OffersReconcile, flagVars
  <2> QED
    BY <2>1, <2>2, <2>3, <2>4, <2>5, <2>6, <2>7
<1>14. ASSUME ReconcileGate PROVE TypeOK'
  <2>1. PcTypeOK' /\ pc'["driver"] = pc["driver"] /\ pc'["offers"] \in {"work", "finish"}
    BY <1>14, GotoOffers DEF ReconcileGate, OfferLabels, ReconcilerLabels, PlanLabels
  <2>2. StoreTypeOK' /\ ReconcilerTypeOK' /\ MesosTypeOK'
    BY <1>14 DEF ReconcileGate, StoreTypeOK, storeVars, ReconcilerTypeOK, reconcilerVars, MesosTypeOK, mesosVars
  <2>3. LaunchTypeOK' /\ StatusTypeOK'
    BY <1>14, <2>1 DEF ReconcileGate, LaunchTypeOK, launchVars, StatusTypeOK, statusVars, PlanLabels, ReconcilerLabels
  <2>4. OffersTypeOK'
    <3>1. available = {}
      BY <1>14 DEF ReconcileGate, OffersTypeOK, PlanLabels
    <3>2. available' \subseteq batch' /\ (pc'["offers"] \notin PlanLabels => available' = {})
      BY <1>14, <2>1, <3>1, GotoOffers DEF ReconcileGate, PlanLabels, OfferLabels
    <3>3. answered' \in [Offers -> Nat]
      BY <1>14 DEF ReconcileGate, Answer, OffersTypeOK
    <3> QED
      BY <1>14, <3>2, <3>3 DEF ReconcileGate, OffersTypeOK
  <2>5. (apiServerStarted \in BOOLEAN /\ isInitialized \in BOOLEAN)'
    BY <1>14 DEF ReconcileGate, flagVars
  <2> QED
    BY <2>1, <2>2, <2>3, <2>4, <2>5
<1>15. ASSUME NEW t \in Tasks, KillOld(t) PROVE TypeOK'
  <2>1. PcTypeOK' /\ pc'["driver"] = pc["driver"] /\ pc'["offers"] = "evaluate"
    BY <1>15, GotoOffers DEF KillOld, OfferLabels, ReconcilerLabels, PlanLabels
  <2>2. StoreTypeOK' /\ ReconcilerTypeOK' /\ MesosTypeOK'
    BY <1>15 DEF KillOld, StoreTypeOK, storeVars, ReconcilerTypeOK, reconcilerVars, MesosTypeOK, mesosVars
  <2>3. OffersTypeOK' /\ StatusTypeOK'
    BY <1>15, <2>1 DEF KillOld, OffersTypeOK, offerVars, StatusTypeOK, statusVars, PlanLabels
  <2>4. LaunchTypeOK'
    BY <1>15, <2>1 DEF KillOld, LaunchTypeOK, Launches
  <2>5. (apiServerStarted \in BOOLEAN /\ isInitialized \in BOOLEAN)'
    BY <1>15 DEF KillOld, flagVars
  <2> QED
    BY <2>1, <2>2, <2>3, <2>4, <2>5
<1>16. ASSUME EvaluateNothing PROVE TypeOK'
  <2>1. PcTypeOK' /\ pc'["driver"] = pc["driver"] /\ pc'["offers"] = "work"
    BY <1>16, GotoOffers DEF EvaluateNothing, OfferLabels, ReconcilerLabels, PlanLabels
  <2>2. StoreTypeOK' /\ ReconcilerTypeOK' /\ MesosTypeOK'
    BY <1>16 DEF EvaluateNothing, StoreTypeOK, storeVars, ReconcilerTypeOK, reconcilerVars, MesosTypeOK, mesosVars
  <2>3. OffersTypeOK' /\ LaunchTypeOK' /\ StatusTypeOK'
    BY <1>16, <2>1 DEF EvaluateNothing, OffersTypeOK, offerVars, LaunchTypeOK, launchVars, StatusTypeOK, statusVars, PlanLabels
  <2>4. (apiServerStarted \in BOOLEAN /\ isInitialized \in BOOLEAN)'
    BY <1>16 DEF EvaluateNothing, flagVars
  <2> QED
    BY <2>1, <2>2, <2>3, <2>4
<1>17. ASSUME NEW o \in Offers, NEW id \in TaskIds, Evaluate(o, id) PROVE TypeOK'
  <2>1. PcTypeOK' /\ pc'["driver"] = pc["driver"] /\ pc'["offers"] = "recordInfo"
    BY <1>17, GotoOffers DEF Evaluate, OfferLabels, ReconcilerLabels, PlanLabels
  <2>2. StoreTypeOK' /\ ReconcilerTypeOK' /\ MesosTypeOK'
    BY <1>17 DEF Evaluate, StoreTypeOK, storeVars, ReconcilerTypeOK, reconcilerVars, MesosTypeOK, mesosVars
  <2>3. OffersTypeOK' /\ StatusTypeOK'
    BY <1>17, <2>1 DEF Evaluate, OffersTypeOK, offerVars, StatusTypeOK, statusVars, PlanLabels
  <2>4. LaunchTypeOK'
    <3>1. launch' \in [task : Tasks, id : TaskIds, offer : Offers]
      BY <1>17 DEF Evaluate, LaunchTypeOK, Launches
    <3> QED
      BY <1>17, <2>1, <3>1 DEF Evaluate, LaunchTypeOK, Launches
  <2>5. (apiServerStarted \in BOOLEAN /\ isInitialized \in BOOLEAN)'
    BY <1>17 DEF Evaluate, flagVars
  <2> QED
    BY <2>1, <2>2, <2>3, <2>4, <2>5
<1>18. ASSUME RecordInfo PROVE TypeOK'
  <2>1. PcTypeOK' /\ pc'["driver"] = pc["driver"] /\ pc'["offers"] = "recordStatus"
    BY <1>18, GotoOffers DEF RecordInfo, OfferLabels, ReconcilerLabels, PlanLabels
  <2>2. ReconcilerTypeOK' /\ MesosTypeOK'
    BY <1>18 DEF RecordInfo, ReconcilerTypeOK, reconcilerVars, MesosTypeOK, mesosVars
  <2>3. OffersTypeOK' /\ LaunchTypeOK' /\ StatusTypeOK'
    BY <1>18, <2>1 DEF RecordInfo, OffersTypeOK, offerVars, LaunchTypeOK, launchVars, StatusTypeOK, statusVars, PlanLabels
  <2>4. StoreTypeOK'
    BY <1>18 DEF RecordInfo, StoreTasks, StoreTypeOK, LaunchTypeOK
  <2>5. (apiServerStarted \in BOOLEAN /\ isInitialized \in BOOLEAN)'
    BY <1>18 DEF RecordInfo, flagVars
  <2> QED
    BY <2>1, <2>2, <2>3, <2>4, <2>5
<1>19. ASSUME RecordStatus PROVE TypeOK'
  <2>1. PcTypeOK' /\ pc'["driver"] = pc["driver"] /\ pc'["offers"] = "accept"
    BY <1>19, GotoOffers DEF RecordStatus, OfferLabels, ReconcilerLabels, PlanLabels
  <2>2. ReconcilerTypeOK' /\ MesosTypeOK'
    BY <1>19 DEF RecordStatus, ReconcilerTypeOK, reconcilerVars, MesosTypeOK, mesosVars
  <2>3. OffersTypeOK' /\ LaunchTypeOK' /\ StatusTypeOK'
    BY <1>19, <2>1 DEF RecordStatus, OffersTypeOK, offerVars, LaunchTypeOK, launchVars, StatusTypeOK, statusVars, PlanLabels
  <2>4. StoreTypeOK'
    <3>1. launch.task \in Tasks /\ StatusOf(launch.id, "STAGING") \in TaskStatuses
      BY <1>19 DEF RecordStatus, LaunchTypeOK, StatusOf, TaskStatuses, TaskStates
    <3> QED
      BY <1>19, <3>1 DEF RecordStatus, StoreStatus, StoreTypeOK
  <2>5. (apiServerStarted \in BOOLEAN /\ isInitialized \in BOOLEAN)'
    BY <1>19 DEF RecordStatus, flagVars
  <2> QED
    BY <2>1, <2>2, <2>3, <2>4, <2>5
<1>20. ASSUME RecordFails PROVE TypeOK'
  <2>1. PcTypeOK' /\ pc'["driver"] = pc["driver"] /\ pc'["offers"] = "work"
    BY <1>20, GotoOffers DEF RecordFails, OfferLabels, ReconcilerLabels, PlanLabels
  <2>2. StoreTypeOK' /\ ReconcilerTypeOK' /\ MesosTypeOK'
    BY <1>20 DEF RecordFails, StoreTypeOK, storeVars, ReconcilerTypeOK, reconcilerVars, MesosTypeOK, mesosVars
  <2>3. OffersTypeOK' /\ LaunchTypeOK' /\ StatusTypeOK'
    BY <1>20, <2>1 DEF RecordFails, OffersTypeOK, offerVars, LaunchTypeOK, launchVars, StatusTypeOK, statusVars, PlanLabels
  <2>4. (apiServerStarted \in BOOLEAN /\ isInitialized \in BOOLEAN)'
    BY <1>20 DEF RecordFails, flagVars
  <2> QED
    BY <2>1, <2>2, <2>3, <2>4
<1>21. ASSUME AcceptOffers PROVE TypeOK'
  <2>1. PcTypeOK' /\ pc'["driver"] = pc["driver"] /\ pc'["offers"] = "work"
    BY <1>21, GotoOffers DEF AcceptOffers, OfferLabels, ReconcilerLabels, PlanLabels
  <2>2. StoreTypeOK' /\ ReconcilerTypeOK'
    BY <1>21 DEF AcceptOffers, StoreTypeOK, storeVars, ReconcilerTypeOK, reconcilerVars
  <2>3. LaunchTypeOK' /\ StatusTypeOK'
    BY <1>21, <2>1 DEF AcceptOffers, LaunchTypeOK, launchVars, StatusTypeOK, statusVars, PlanLabels
  <2>4. OffersTypeOK'
    <3>1. answered' \in [Offers -> Nat]
      BY <1>21 DEF AcceptOffers, Answer, OffersTypeOK
    <3> QED
      BY <1>21, <2>1, <3>1 DEF AcceptOffers, OffersTypeOK, PlanLabels
  <2>5. MesosTypeOK'
    <3>1. launch.id \in TaskIds
      BY <1>21 DEF AcceptOffers, LaunchTypeOK
    <3> QED
      BY <1>21, <3>1 DEF AcceptOffers, MesosTypeOK
  <2>6. (apiServerStarted \in BOOLEAN /\ isInitialized \in BOOLEAN)'
    BY <1>21 DEF AcceptOffers, flagVars
  <2> QED
    BY <2>1, <2>2, <2>3, <2>4, <2>5, <2>6
<1>22. ASSUME DeclineUnused PROVE TypeOK'
  <2>1. PcTypeOK' /\ pc'["driver"] = pc["driver"] /\ pc'["offers"] = "finish"
    BY <1>22, GotoOffers DEF DeclineUnused, OfferLabels, ReconcilerLabels, PlanLabels
  <2>2. StoreTypeOK' /\ ReconcilerTypeOK' /\ MesosTypeOK'
    BY <1>22 DEF DeclineUnused, StoreTypeOK, storeVars, ReconcilerTypeOK, reconcilerVars, MesosTypeOK, mesosVars
  <2>3. LaunchTypeOK' /\ StatusTypeOK'
    BY <1>22, <2>1 DEF DeclineUnused, LaunchTypeOK, launchVars, StatusTypeOK, statusVars, PlanLabels
  <2>4. OffersTypeOK'
    <3>1. answered' \in [Offers -> Nat]
      BY <1>22 DEF DeclineUnused, Answer, OffersTypeOK
    <3> QED
      BY <1>22, <2>1, <3>1 DEF DeclineUnused, OffersTypeOK
  <2>5. (apiServerStarted \in BOOLEAN /\ isInitialized \in BOOLEAN)'
    BY <1>22 DEF DeclineUnused, flagVars
  <2> QED
    BY <2>1, <2>2, <2>3, <2>4, <2>5
<1>23. ASSUME Finish PROVE TypeOK'
  <2>1. PcTypeOK' /\ pc'["driver"] = pc["driver"] /\ pc'["offers"] = "poll"
    BY <1>23, GotoOffers DEF Finish, OfferLabels, ReconcilerLabels, PlanLabels
  <2>2. StoreTypeOK' /\ ReconcilerTypeOK' /\ MesosTypeOK'
    BY <1>23 DEF Finish, StoreTypeOK, storeVars, ReconcilerTypeOK, reconcilerVars, MesosTypeOK, mesosVars
  <2>3. OffersTypeOK' /\ LaunchTypeOK' /\ StatusTypeOK'
    BY <1>23, <2>1 DEF Finish, OffersTypeOK, offerVars, LaunchTypeOK, launchVars, StatusTypeOK, statusVars, PlanLabels
  <2>4. (apiServerStarted \in BOOLEAN /\ isInitialized \in BOOLEAN)'
    BY <1>23 DEF Finish, flagVars
  <2> QED
    BY <2>1, <2>2, <2>3, <2>4
<1>24. ASSUME Reregistered PROVE TypeOK'
  <2>1. PcTypeOK' /\ pc'["offers"] = pc["offers"] /\ pc'["driver"] = "start"
    BY <1>24, GotoDriver DEF Reregistered, DriverLabels, ReconcilerLabels
  <2>2. StoreTypeOK' /\ ReconcilerTypeOK' /\ MesosTypeOK'
    BY <1>24 DEF Reregistered, StoreTypeOK, storeVars, ReconcilerTypeOK, reconcilerVars, MesosTypeOK, mesosVars
  <2>3. LaunchTypeOK' /\ StatusTypeOK'
    BY <1>24, <2>1 DEF Reregistered, LaunchTypeOK, launchVars, StatusTypeOK, statusVars, PlanLabels
  <2>4. OffersTypeOK'
    <3>1. rescinded' \subseteq Offers
      <4>1. 1 .. received \subseteq Offers
        BY DEF OffersTypeOK, Offers
      <4> QED
        BY <1>24, <4>1 DEF Reregistered, OffersTypeOK
    <3> QED
      BY <1>24, <2>1, <3>1 DEF Reregistered, OffersTypeOK
  <2>5. (apiServerStarted \in BOOLEAN /\ isInitialized \in BOOLEAN)'
    BY <1>24 DEF Reregistered, flagVars
  <2> QED
    BY <2>1, <2>2, <2>3, <2>4, <2>5
<1>25. ASSUME ResourceOffers PROVE TypeOK'
  <2>1. PcTypeOK' /\ pc'["offers"] = pc["offers"] /\ pc'["driver"] \in {"idle", "enqueue"}
    <3>1. CASE UNCHANGED pc
      BY <1>25, <3>1 DEF ResourceOffers, PcTypeOK
    <3>2. CASE Goto("driver", "enqueue")
      BY <3>2, GotoDriver DEF DriverLabels
    <3> QED
      BY <1>25, <3>1, <3>2 DEF ResourceOffers
  <2>2. StoreTypeOK' /\ ReconcilerTypeOK' /\ MesosTypeOK'
    BY <1>25 DEF ResourceOffers, StoreTypeOK, storeVars, ReconcilerTypeOK, reconcilerVars, MesosTypeOK, mesosVars
  <2>3. LaunchTypeOK' /\ StatusTypeOK'
    BY <1>25, <2>1 DEF ResourceOffers, LaunchTypeOK, launchVars, StatusTypeOK, statusVars, PlanLabels
  <2>4. OffersTypeOK'
    <3>1. PICK last \in received + 1 .. MaxOffers :
             /\ received' = last
             /\ \/ Answer(received + 1 .. last) /\ UNCHANGED <<offersInProgress, incoming>>
                \/ /\ offersInProgress' = offersInProgress \cup (received + 1 .. last)
                   /\ incoming' = received + 1 .. last
                   /\ UNCHANGED answered
      BY <1>25 DEF ResourceOffers
    <3>2. received + 1 .. last \subseteq Offers /\ received' \in 0 .. MaxOffers
      BY <3>1 DEF OffersTypeOK, Offers
    <3>3. answered' \in [Offers -> Nat]
      BY <3>1 DEF Answer, OffersTypeOK
    <3>4. offersInProgress' \subseteq Offers /\ incoming' \subseteq Offers
      BY <3>1, <3>2 DEF OffersTypeOK
    <3> QED
      BY <1>25, <2>1, <3>2, <3>3, <3>4 DEF ResourceOffers, OffersTypeOK
  <2>5. (apiServerStarted \in BOOLEAN /\ isInitialized \in BOOLEAN)'
    BY <1>25 DEF ResourceOffers, flagVars
  <2> QED
    BY <2>1, <2>2, <2>3, <2>4, <2>5
<1>26. ASSUME OfferRescinded PROVE TypeOK'
  <2>1. StoreTypeOK' /\ ReconcilerTypeOK' /\ LaunchTypeOK' /\ StatusTypeOK' /\ MesosTypeOK'
    BY <1>26 DEF OfferRescinded, StoreTypeOK, storeVars, ReconcilerTypeOK, reconcilerVars, LaunchTypeOK, launchVars, StatusTypeOK, statusVars, MesosTypeOK, mesosVars
  <2>2. OffersTypeOK'
    <3>1. queue' \in Seq(Offers) /\ Len(queue') <= Capacity
      <4>1. CASE UNCHANGED queue
        BY <4>1 DEF OffersTypeOK
      <4>2. ASSUME NEW i \in DOMAIN queue,
                   queue' = SubSeq(queue, 1, i - 1) \o SubSeq(queue, i + 1, Len(queue))
            PROVE  queue' \in Seq(Offers) /\ Len(queue') <= Capacity
        BY <4>2, RemoveAtType, LenProperties DEF OffersTypeOK
      <4> QED
        BY <1>26, <4>1, <4>2 DEF OfferRescinded
    <3>2. rescinded' \subseteq Offers
      BY <1>26 DEF OfferRescinded, OffersTypeOK, Offers
    <3> QED
      BY <1>26, <3>1, <3>2 DEF OfferRescinded, OffersTypeOK
  <2>3. (apiServerStarted \in BOOLEAN /\ isInitialized \in BOOLEAN)'
    BY <1>26 DEF OfferRescinded, flagVars
  <2> QED
    BY <1>26, <2>1, <2>2, <2>3 DEF OfferRescinded, PcTypeOK
<1>27. ASSUME NEW id \in TaskIds, DeliverStatus(id) PROVE TypeOK'
  <2>1. PICK state \in Truth(id) : StatusUpdate(id, state)
    BY <1>27 DEF DeliverStatus
  <2>2. StatusOf(id, state) \in TaskStatuses
    BY DEF Truth, StatusOf, TaskStatuses, TaskStates
  <2>3. PICK l \in {"store", "clean"} : /\ Goto("driver", l)
                                        /\ current' \in [task : Tasks \cup {None}, status : TaskStatuses]
                                        /\ l = "store" => current' \in [task : Tasks, status : TaskStatuses]
    BY <2>1, <2>2 DEF StatusUpdate
  <2>4. PcTypeOK' /\ pc'["offers"] = pc["offers"] /\ pc'["driver"] = l
    BY <2>3, GotoDriver DEF DriverLabels
  <2>5. StoreTypeOK' /\ ReconcilerTypeOK'
    BY <2>1 DEF StatusUpdate, StoreTypeOK, ReconcilerTypeOK, storeVars, reconcilerVars
  <2>6. OffersTypeOK' /\ LaunchTypeOK'
    BY <2>1, <2>4 DEF StatusUpdate, OffersTypeOK, LaunchTypeOK, offerVars, launchVars
  <2>7. StatusTypeOK'
    BY <2>1, <2>3, <2>4 DEF StatusUpdate, StatusTypeOK
  <2>8. MesosTypeOK'
    BY <1>27 DEF DeliverStatus, MesosTypeOK
  <2>9. (apiServerStarted \in BOOLEAN /\ isInitialized \in BOOLEAN)'
    BY <2>1 DEF StatusUpdate, flagVars
  <2> QED
    BY <2>4, <2>5, <2>6, <2>7, <2>8, <2>9
<1>28. ASSUME NEW r \in SUBSET TaskIds, MasterAnswer(r) PROVE TypeOK'
  <2>1. StoreTypeOK' /\ ReconcilerTypeOK' /\ OffersTypeOK' /\ LaunchTypeOK' /\ StatusTypeOK' /\ MesosTypeOK'
    BY <1>28 DEF MasterAnswer, StoreTypeOK, storeVars, ReconcilerTypeOK, reconcilerVars, OffersTypeOK, offerVars, LaunchTypeOK, launchVars, StatusTypeOK, statusVars, MesosTypeOK, mesosVars
  <2>2. (apiServerStarted \in BOOLEAN /\ isInitialized \in BOOLEAN)'
    BY <1>28 DEF MasterAnswer, flagVars
  <2> QED
    BY <1>28, <2>1, <2>2 DEF MasterAnswer, PcTypeOK
<1>29. ASSUME NEW id \in TaskIds, TaskDies(id) PROVE TypeOK'
  <2>1. StoreTypeOK' /\ ReconcilerTypeOK' /\ OffersTypeOK' /\ LaunchTypeOK' /\ StatusTypeOK' /\ MesosTypeOK'
    BY <1>29 DEF TaskDies, StoreTypeOK, storeVars, ReconcilerTypeOK, reconcilerVars, OffersTypeOK, offerVars, LaunchTypeOK, launchVars, StatusTypeOK, statusVars, MesosTypeOK, mesosVars
  <2>2. (apiServerStarted \in BOOLEAN /\ isInitialized \in BOOLEAN)'
    BY <1>29 DEF TaskDies, flagVars
  <2> QED
    BY <1>29, <2>1, <2>2 DEF TaskDies, PcTypeOK
<1>30. ASSUME NEW id \in TaskIds, AgentResends(id) PROVE TypeOK'
  <2>1. StoreTypeOK' /\ ReconcilerTypeOK' /\ OffersTypeOK' /\ LaunchTypeOK' /\ StatusTypeOK' /\ MesosTypeOK'
    BY <1>30 DEF AgentResends, StoreTypeOK, storeVars, ReconcilerTypeOK, reconcilerVars, OffersTypeOK, offerVars, LaunchTypeOK, launchVars, StatusTypeOK, statusVars, MesosTypeOK, mesosVars
  <2>2. (apiServerStarted \in BOOLEAN /\ isInitialized \in BOOLEAN)'
    BY <1>30 DEF AgentResends, flagVars
  <2> QED
    BY <1>30, <2>1, <2>2 DEF AgentResends, PcTypeOK
<1>31. ASSUME ApiServerStarted PROVE TypeOK'
  <2>1. StoreTypeOK' /\ ReconcilerTypeOK' /\ OffersTypeOK' /\ LaunchTypeOK' /\ StatusTypeOK' /\ MesosTypeOK'
    BY <1>31 DEF ApiServerStarted, StoreTypeOK, storeVars, ReconcilerTypeOK, reconcilerVars, OffersTypeOK, offerVars, LaunchTypeOK, launchVars, StatusTypeOK, statusVars, MesosTypeOK, mesosVars
  <2>2. (apiServerStarted \in BOOLEAN /\ isInitialized \in BOOLEAN)'
    BY <1>31 DEF ApiServerStarted, flagVars
  <2> QED
    BY <1>31, <2>1, <2>2 DEF ApiServerStarted, PcTypeOK
<1>32. ASSUME TimerExpires PROVE TypeOK'
  <2>1. StoreTypeOK' /\ ReconcilerTypeOK' /\ OffersTypeOK' /\ LaunchTypeOK' /\ StatusTypeOK' /\ MesosTypeOK'
    BY <1>32 DEF TimerExpires, StoreTypeOK, storeVars, ReconcilerTypeOK, reconcilerVars, OffersTypeOK, offerVars, LaunchTypeOK, launchVars, StatusTypeOK, statusVars, MesosTypeOK, mesosVars
  <2>2. (apiServerStarted \in BOOLEAN /\ isInitialized \in BOOLEAN)'
    BY <1>32 DEF TimerExpires, flagVars
  <2> QED
    BY <1>32, <2>1, <2>2 DEF TimerExpires, PcTypeOK
<1>33. ASSUME UNCHANGED vars PROVE TypeOK'
  BY <1>33 DEF vars, StoreTypeOK, ReconcilerTypeOK, PcTypeOK, OffersTypeOK, LaunchTypeOK, StatusTypeOK,
     MesosTypeOK, storeVars, reconcilerVars, flagVars, offerVars, launchVars, statusVars, mesosVars
<1>34. ASSUME StatusSet PROVE TypeOK'
  <2>1. PcTypeOK' /\ pc'["offers"] = pc["offers"] /\ pc'["driver"] = "update"
    BY <1>34, GotoDriver DEF StatusSet, DriverLabels, ReconcilerLabels
  <2>2. ReconcilerTypeOK' /\ MesosTypeOK'
    BY <1>34 DEF StatusSet, ReconcilerTypeOK, reconcilerVars, MesosTypeOK, mesosVars
  <2>3. OffersTypeOK' /\ LaunchTypeOK' /\ StatusTypeOK'
    BY <1>34, <2>1 DEF StatusSet, OffersTypeOK, offerVars, LaunchTypeOK, launchVars, StatusTypeOK, statusVars, PlanLabels
  <2>4. StoreTypeOK'
    <3>1. current.task \in Tasks /\ current.status \in TaskStatuses
      BY <1>34 DEF StatusSet, StatusTypeOK
    <3> QED
      BY <1>34, <3>1 DEF StatusSet, StoreStatus, StoreTypeOK
  <2>5. (apiServerStarted \in BOOLEAN /\ isInitialized \in BOOLEAN)'
    BY <1>34 DEF StatusSet, flagVars
  <2> QED
    BY <2>1, <2>2, <2>3, <2>4, <2>5
<1> QED
  BY <1>1, <1>2, <1>3, <1>4, <1>5, <1>6, <1>7, <1>8, <1>9, <1>10, <1>11, <1>12, <1>13, <1>14, <1>15, <1>16, <1>17, <1>18, <1>19, <1>20, <1>21, <1>22, <1>23, <1>24, <1>25, <1>26, <1>27, <1>28, <1>29, <1>30, <1>31, <1>32, <1>33, <1>34 DEF Next, DriverCallback, OfferThread, Mesos

(* The thread-local variables, the shared ones and the bound on the queue   *)
(* have their types in every reachable state.                               *)
THEOREM TypeCorrect == Spec => []TypeOK
<1>1. Init => TypeOK
  BY InitTypeOK
<1>2. TypeOK /\ [Next]_vars => TypeOK'
  BY NextTypeOK
<1> QED
  BY <1>1, <1>2, PTL DEF Spec

-----------------------------------------------------------------------------
(* 2. Nothing is launched before the process is reconciled                  *)

(* Until registered() has returned there is no offer in the process, so the *)
(* offer thread goes round without looking at the plans.                    *)
NotInitialized ==
    ~isInitialized =>
        /\ pc["driver"] \in ReconcilerLabels \cup {"unregistered"}
        /\ pc["offers"] \in {"poll", "drain", "gate", "finish"}
        /\ queue = <<>>
        /\ batch = {}

(* Where the ids are that the process believed to be alive when it started: *)
(* in the state store, then in start(), then unreconciled or heard of.      *)
BelievedTracked ==
    /\ ~isInitialized /\ pc["driver"] \in {"unregistered", "start"} => believed \subseteq LiveStatusIds
    /\ ~isInitialized /\ pc["driver"] = "startAdd" => believed \subseteq fetched
    /\ isInitialized \/ pc["driver"] \notin {"unregistered", "start", "startAdd"} =>
          believed \subseteq unreconciled \cup heard
    /\ ReconciledBeforePlans

ReconciledInv == NotInitialized /\ BelievedTracked

LEMMA InitReconciledInv == Init => ReconciledInv
BY OfferCycleAssumption DEF Init, ReconcilerInit, ReconciledInv, NotInitialized, BelievedTracked, ReconciledBeforePlans,
   PlanLabels

LEMMA NextReconciledInv ==
    TypeOK /\ ReconciledInv /\ [Next]_vars => ReconciledInv'
<1> SUFFICES ASSUME TypeOK, ReconciledInv, [Next]_vars PROVE ReconciledInv'
  OBVIOUS
<1> USE OfferCycleAssumption DEF TypeOK, PcTypeOK, ReconciledInv, NotInitialized, BelievedTracked, ReconciledBeforePlans,
        PlanLabels, ReconcilerLabels, Goto
<1>1. ASSUME Registered PROVE ReconciledInv'
  BY <1>1 DEF Registered, storeVars, reconcilerVars, flagVars, offerVars, launchVars, statusVars, mesosVars, LiveStatusIds, StoredStatuses
<1>2. ASSUME DriverReconciles PROVE ReconciledInv'
  <2>1. UNCHANGED <<storeVars, flagVars, offerVars, statusVars>> /\ ReconcilerStep("driver")
    BY <1>2 DEF DriverReconciles
  <2>2. CASE StartFetch("driver")
    BY <2>1, <2>2 DEF StartFetch, reconcilerVars, storeVars, flagVars, offerVars, statusVars, LiveStatusIds, StoredStatuses
  <2>3. CASE StartAdd("driver")
    BY <2>1, <2>3 DEF StartAdd, reconcilerVars, storeVars, flagVars, offerVars, statusVars, LiveStatusIds, StoredStatuses
  <2>4. CASE ReconcileCheck("driver")
    BY <2>1, <2>4 DEF ReconcileCheck, reconcilerVars, storeVars, flagVars, offerVars, statusVars, LiveStatusIds, StoredStatuses
  <2>5. CASE ReconcileLocked("driver")
    BY <2>1, <2>5 DEF ReconcileLocked, reconcilerVars, storeVars, flagVars, offerVars, statusVars, LiveStatusIds, StoredStatuses
  <2>6. CASE ReconcileTrigger("driver")
    BY <2>1, <2>6 DEF ReconcileTrigger, reconcilerVars, storeVars, flagVars, offerVars, statusVars, LiveStatusIds, StoredStatuses
  <2>7. CASE ReconcileSend("driver")
    BY <2>1, <2>7 DEF ReconcileSend, reconcilerVars, storeVars, flagVars, offerVars, statusVars, LiveStatusIds, StoredStatuses
  <2> QED
    BY <2>1, <2>2, <2>3, <2>4, <2>5, <2>6, <2>7 DEF ReconcilerStep
<1>3. ASSUME RegisteredEnd PROVE ReconciledInv'
  BY <1>3 DEF RegisteredEnd, storeVars, reconcilerVars, flagVars, offerVars, launchVars, statusVars, mesosVars, LiveStatusIds, StoredStatuses
<1>4. ASSUME Enqueue PROVE ReconciledInv'
  BY <1>4 DEF Enqueue, storeVars, reconcilerVars, flagVars, offerVars, launchVars, statusVars, mesosVars, LiveStatusIds, StoredStatuses
<1>5. ASSUME RemoveDeclined PROVE ReconciledInv'
  BY <1>5 DEF RemoveDeclined, storeVars, reconcilerVars, flagVars, offerVars, launchVars, statusVars, mesosVars, LiveStatusIds, StoredStatuses
<1>6. ASSUME EnqueueEnd PROVE ReconciledInv'
  BY <1>6 DEF EnqueueEnd, storeVars, reconcilerVars, flagVars, offerVars, launchVars, statusVars, mesosVars, LiveStatusIds, StoredStatuses
<1>7. ASSUME StatusStore PROVE ReconciledInv'
  BY <1>7 DEF StatusStore, storeVars, reconcilerVars, flagVars, offerVars, launchVars, statusVars, mesosVars, LiveStatusIds, StoredStatuses
<1>8. ASSUME StatusReconcile PROVE ReconciledInv'
  BY <1>8 DEF StatusReconcile, Update, flagVars, offerVars
<1>9. ASSUME StatusClean PROVE ReconciledInv'
  BY <1>9 DEF StatusClean, storeVars, reconcilerVars, flagVars, offerVars, launchVars, statusVars, mesosVars, LiveStatusIds, StoredStatuses
<1>10. ASSUME Poll PROVE ReconciledInv'
  BY <1>10 DEF Poll, storeVars, reconcilerVars, flagVars, offerVars, launchVars, statusVars, mesosVars, LiveStatusIds, StoredStatuses
<1>11. ASSUME Drain PROVE ReconciledInv'
  BY <1>11 DEF Drain, storeVars, reconcilerVars, flagVars, offerVars, launchVars, statusVars, mesosVars, LiveStatusIds, StoredStatuses
<1>12. ASSUME Gate PROVE ReconciledInv'
  BY <1>12 DEF Gate, storeVars, reconcilerVars, flagVars, offerVars, launchVars, statusVars, mesosVars, LiveStatusIds, StoredStatuses
<1>13. ASSUME OffersReconcile PROVE ReconciledInv'
  <2>1. UNCHANGED <<storeVars, flagVars, offerVars, statusVars>> /\ ReconcilerStep("offers")
    BY <1>13 DEF OffersReconcile
  <2>2. pc["offers"] \notin {"start", "startAdd"}
    BY DEF OfferLabels
  <2>3. CASE StartFetch("offers")
    BY <2>1, <2>3, <2>2 DEF StartFetch, reconcilerVars, storeVars, flagVars, offerVars, statusVars, LiveStatusIds, StoredStatuses
  <2>4. CASE StartAdd("offers")
    BY <2>1, <2>4, <2>2 DEF StartAdd, reconcilerVars, storeVars, flagVars, offerVars, statusVars, LiveStatusIds, StoredStatuses
  <2>5. CASE ReconcileCheck("offers")
    BY <2>1, <2>5, <2>2 DEF ReconcileCheck, reconcilerVars, storeVars, flagVars, offerVars, statusVars, LiveStatusIds, StoredStatuses
  <2>6. CASE ReconcileLocked("offers")
    BY <2>1, <2>6, <2>2 DEF ReconcileLocked, reconcilerVars, storeVars, flagVars, offerVars, statusVars, LiveStatusIds, StoredStatuses
  <2>7. CASE ReconcileTrigger("offers")
    BY <2>1, <2>7, <2>2 DEF ReconcileTrigger, reconcilerVars, storeVars, flagVars, offerVars, statusVars, LiveStatusIds, StoredStatuses
  <2>8. CASE ReconcileSend("offers")
    BY <2>1, <2>8, <2>2 DEF ReconcileSend, reconcilerVars, storeVars, flagVars, offerVars, statusVars, LiveStatusIds, StoredStatuses
  <2> QED
    BY <2>1, <2>3, <2>4, <2>5, <2>6, <2>7, <2>8 DEF ReconcilerStep
<1>14. ASSUME ReconcileGate PROVE ReconciledInv'
  <2>1. isInitialized
    BY <1>14 DEF ReconcileGate
  <2>2. CASE IsReconciled /\ Goto("offers", "work")
    BY <1>14, <2>1, <2>2 DEF ReconcileGate, IsReconciled, reconcilerVars, flagVars, statusVars
  <2>3. CASE Goto("offers", "finish")
    BY <1>14, <2>1, <2>3 DEF ReconcileGate, reconcilerVars, flagVars, statusVars
  <2> QED
    BY <1>14, <2>2, <2>3 DEF ReconcileGate
<1>15. ASSUME NEW t \in Tasks, KillOld(t) PROVE ReconciledInv'
  BY <1>15 DEF KillOld, storeVars, reconcilerVars, flagVars, offerVars, launchVars, statusVars, mesosVars, LiveStatusIds, StoredStatuses
<1>16. ASSUME EvaluateNothing PROVE ReconciledInv'
  BY <1>16 DEF EvaluateNothing, storeVars, reconcilerVars, flagVars, offerVars, launchVars, statusVars, mesosVars, LiveStatusIds, StoredStatuses
<1>17. ASSUME NEW o \in Offers, NEW id \in TaskIds, Evaluate(o, id) PROVE ReconciledInv'
  BY <1>17 DEF Evaluate, storeVars, reconcilerVars, flagVars, offerVars, launchVars, statusVars, mesosVars, LiveStatusIds, StoredStatuses
<1>18. ASSUME RecordInfo PROVE ReconciledInv'
  BY <1>18 DEF RecordInfo, storeVars, reconcilerVars, flagVars, offerVars, launchVars, statusVars, mesosVars, LiveStatusIds, StoredStatuses
<1>19. ASSUME RecordStatus PROVE ReconciledInv'
  BY <1>19 DEF RecordStatus, storeVars, reconcilerVars, flagVars, offerVars, launchVars, statusVars, mesosVars, LiveStatusIds, StoredStatuses
<1>20. ASSUME RecordFails PROVE ReconciledInv'
  BY <1>20 DEF RecordFails, storeVars, reconcilerVars, flagVars, offerVars, launchVars, statusVars, mesosVars, LiveStatusIds, StoredStatuses
<1>21. ASSUME AcceptOffers PROVE ReconciledInv'
  BY <1>21 DEF AcceptOffers, storeVars, reconcilerVars, flagVars, offerVars, launchVars, statusVars, mesosVars, LiveStatusIds, StoredStatuses
<1>22. ASSUME DeclineUnused PROVE ReconciledInv'
  BY <1>22 DEF DeclineUnused, storeVars, reconcilerVars, flagVars, offerVars, launchVars, statusVars, mesosVars, LiveStatusIds, StoredStatuses
<1>23. ASSUME Finish PROVE ReconciledInv'
  BY <1>23 DEF Finish, storeVars, reconcilerVars, flagVars, offerVars, launchVars, statusVars, mesosVars, LiveStatusIds, StoredStatuses
<1>24. ASSUME Reregistered PROVE ReconciledInv'
  BY <1>24 DEF Reregistered, storeVars, reconcilerVars, flagVars, offerVars, launchVars, statusVars, mesosVars, LiveStatusIds, StoredStatuses
<1>25. ASSUME ResourceOffers PROVE ReconciledInv'
  BY <1>25 DEF ResourceOffers, storeVars, reconcilerVars, flagVars, offerVars, launchVars, statusVars, mesosVars, LiveStatusIds, StoredStatuses
<1>26. ASSUME OfferRescinded PROVE ReconciledInv'
  BY <1>26 DEF OfferRescinded, storeVars, reconcilerVars, flagVars, offerVars, launchVars, statusVars, mesosVars, LiveStatusIds, StoredStatuses
<1>27. ASSUME NEW id \in TaskIds, DeliverStatus(id) PROVE ReconciledInv'
  <2>1. PICK state \in Truth(id) : StatusUpdate(id, state)
    BY <1>27 DEF DeliverStatus
  <2>2. isInitialized /\ pc["driver"] = "idle"
    BY <2>1 DEF StatusUpdate
  <2>3. PICK l \in {"store", "clean"} : Goto("driver", l)
    BY <2>1 DEF StatusUpdate
  <2>4. UNCHANGED <<flagVars, reconcilerVars, offerVars, heard, believed>>
    BY <2>1 DEF StatusUpdate
  <2> QED
    BY <2>2, <2>3, <2>4 DEF flagVars, reconcilerVars, offerVars
<1>28. ASSUME NEW r \in SUBSET TaskIds, MasterAnswer(r) PROVE ReconciledInv'
  BY <1>28 DEF MasterAnswer, storeVars, reconcilerVars, flagVars, offerVars, launchVars, statusVars, mesosVars, LiveStatusIds, StoredStatuses
<1>29. ASSUME NEW id \in TaskIds, TaskDies(id) PROVE ReconciledInv'
  BY <1>29 DEF TaskDies, storeVars, reconcilerVars, flagVars, offerVars, launchVars, statusVars, mesosVars, LiveStatusIds, StoredStatuses
<1>30. ASSUME NEW id \in TaskIds, AgentResends(id) PROVE ReconciledInv'
  BY <1>30 DEF AgentResends, storeVars, reconcilerVars, flagVars, offerVars, launchVars, statusVars, mesosVars, LiveStatusIds, StoredStatuses
<1>31. ASSUME ApiServerStarted PROVE ReconciledInv'
  BY <1>31 DEF ApiServerStarted, storeVars, reconcilerVars, flagVars, offerVars, launchVars, statusVars, mesosVars, LiveStatusIds, StoredStatuses
<1>32. ASSUME TimerExpires PROVE ReconciledInv'
  BY <1>32 DEF TimerExpires, storeVars, reconcilerVars, flagVars, offerVars, launchVars, statusVars, mesosVars, LiveStatusIds, StoredStatuses
<1>33. ASSUME UNCHANGED vars PROVE ReconciledInv'
  BY <1>33 DEF vars, storeVars, reconcilerVars, flagVars, offerVars, launchVars, statusVars, mesosVars, LiveStatusIds, StoredStatuses
<1>34. ASSUME StatusSet PROVE ReconciledInv'
  BY <1>34 DEF StatusSet, storeVars, reconcilerVars, flagVars, offerVars, launchVars, statusVars, mesosVars, LiveStatusIds, StoredStatuses
<1> QED
  BY <1>1, <1>2, <1>3, <1>4, <1>5, <1>6, <1>7, <1>8, <1>9, <1>10, <1>11, <1>12, <1>13, <1>14, <1>15, <1>16, <1>17, <1>18, <1>19, <1>20, <1>21, <1>22, <1>23, <1>24, <1>25, <1>26, <1>27, <1>28, <1>29, <1>30, <1>31, <1>32, <1>33, <1>34 DEF Next, DriverCallback, OfferThread, Mesos

(* No plan sees an offer, and nothing is launched, before the process has   *)
(* heard of every task that it believed to be alive when it started.        *)
THEOREM ReconciledFirst == Spec => []ReconciledBeforePlans
<1>1. Init => ReconciledInv
  BY InitReconciledInv
<1>2. TypeOK /\ ReconciledInv /\ [Next]_vars => ReconciledInv'
  BY NextReconciledInv
<1>3. ReconciledInv => ReconciledBeforePlans
  BY DEF ReconciledInv, BelievedTracked
<1> QED
  BY <1>1, <1>2, <1>3, TypeCorrect, PTL DEF Spec

-----------------------------------------------------------------------------
(* OfferCycle implements OfferLedger.  The argument is about where an offer *)
(* is: with the driver's thread (incoming), in the queue, or with the offer *)
(* thread (batch), and about what of it has been answered at each label.    *)

(* 3. The queue as a set                                                    *)

Elements(q) == {q[i] : i \in DOMAIN q}

NoRepeats(q) == \A i, j \in DOMAIN q : q[i] = q[j] => i = j

LEMMA EmptyQueue == Elements(<<>>) = {} /\ NoRepeats(<<>>)
BY DEF Elements, NoRepeats

LEMMA AppendQueue ==
    ASSUME NEW q \in Seq(Offers), NEW o \in Offers
    PROVE  /\ Elements(Append(q, o)) = Elements(q) \cup {o}
           /\ NoRepeats(q) /\ o \notin Elements(q) => NoRepeats(Append(q, o))
<1>1. Len(q) \in Nat /\ DOMAIN q = 1 .. Len(q)
  BY LenProperties
<1>2. DOMAIN Append(q, o) = 1 .. Len(q) + 1
  BY AppendProperties, LenProperties
<1>3. \A i \in 1 .. Len(q) : Append(q, o)[i] = q[i]
  BY AppendProperties
<1>4. Append(q, o)[Len(q) + 1] = o
  BY AppendProperties
<1> QED
  BY <1>1, <1>2, <1>3, <1>4 DEF Elements, NoRepeats

LEMMA TailQueue ==
    ASSUME NEW q \in Seq(Offers), q # <<>>
    PROVE  /\ Head(q) \in Elements(q)
           /\ Elements(q) = Elements(Tail(q)) \cup {Head(q)}
           /\ NoRepeats(q) => NoRepeats(Tail(q)) /\ Head(q) \notin Elements(Tail(q))
<1>1. Len(q) \in Nat \ {0} /\ DOMAIN q = 1 .. Len(q)
  BY LenProperties, EmptySeq
<1>2. Head(q) = q[1]
  OBVIOUS
<1>3. DOMAIN Tail(q) = 1 .. Len(q) - 1
  BY HeadTailProperties, LenProperties
<1>4. \A i \in 1 .. Len(q) - 1 : Tail(q)[i] = q[i + 1]
  BY HeadTailProperties
<1>5. Head(q) \in Elements(q)
  BY <1>1, <1>2 DEF Elements
<1>6. Elements(Tail(q)) \subseteq Elements(q)
  BY <1>1, <1>3, <1>4 DEF Elements
<1>7. ASSUME NEW i \in DOMAIN q, i # 1 PROVE q[i] \in Elements(Tail(q))
  <2>1. i - 1 \in DOMAIN Tail(q) /\ Tail(q)[i - 1] = q[i]
    BY <1>1, <1>3, <1>4, <1>7
  <2> QED
    BY <2>1 DEF Elements
<1>8. Elements(q) = Elements(Tail(q)) \cup {Head(q)}
  BY <1>2, <1>5, <1>6, <1>7 DEF Elements
<1>9. ASSUME NoRepeats(q) PROVE NoRepeats(Tail(q)) /\ Head(q) \notin Elements(Tail(q))
  BY <1>1, <1>2, <1>3, <1>4, <1>9 DEF Elements, NoRepeats
<1> QED
  BY <1>5, <1>8, <1>9

Without(q, i) == SubSeq(q, 1, i - 1) \o SubSeq(q, i + 1, Len(q))

LEMMA WithoutQueue ==
    ASSUME NEW q \in Seq(Offers), NEW i \in DOMAIN q, NoRepeats(q)
    PROVE  Elements(Without(q, i)) = Elements(q) \ {q[i]} /\ NoRepeats(Without(q, i))
<1> DEFINE s1 == SubSeq(q, 1, i - 1)
           s2 == SubSeq(q, i + 1, Len(q))
           rest == Without(q, i)
<1>1. Len(q) \in Nat /\ DOMAIN q = 1 .. Len(q) /\ i \in 1 .. Len(q) /\ \A j \in 1 .. Len(q) : q[j] \in Offers
  BY LenProperties, ElementOfSeq
<1>2. s1 \in Seq(Offers) /\ Len(s1) = i - 1 /\ \A j \in 1 .. i - 1 : s1[j] = q[j]
  BY <1>1, SubSeqProperties
<1>3. s2 \in Seq(Offers) /\ Len(s2) = Len(q) - i /\ \A j \in 1 .. Len(q) - i : s2[j] = q[i + j]
  BY <1>1, SubSeqProperties
<1>4. rest = s1 \o s2 /\ rest = Without(q, i)
  BY DEF Without
<1> HIDE DEF s1, s2, rest
<1>5. /\ rest \in Seq(Offers)
      /\ Len(rest) = Len(s1) + Len(s2)
      /\ \A j \in 1 .. Len(s1) + Len(s2) : rest[j] = IF j <= Len(s1) THEN s1[j] ELSE s2[j - Len(s1)]
  <2>1. /\ s1 \o s2 \in Seq(Offers)
        /\ Len(s1 \o s2) = Len(s1) + Len(s2)
        /\ \A j \in 1 .. Len(s1) + Len(s2) : (s1 \o s2)[j] = IF j <= Len(s1) THEN s1[j] ELSE s2[j - Len(s1)]
    BY <1>2, <1>3, ConcatProperties
  <2> QED
    BY <1>4, <2>1
<1>6. DOMAIN rest = 1 .. Len(q) - 1
  BY <1>1, <1>2, <1>3, <1>5, LenProperties
<1>7. ASSUME NEW j \in 1 .. Len(q) - 1 PROVE rest[j] = IF j < i THEN q[j] ELSE q[j + 1]
  <2>1. CASE j < i
    BY <1>1, <1>2, <1>3, <1>5, <2>1
  <2>2. CASE j >= i
    <3>1. j - (i - 1) \in 1 .. Len(q) - i /\ i + (j - (i - 1)) = j + 1
      BY <1>1, <2>2
    <3>2. rest[j] = s2[j - (i - 1)]
      BY <1>1, <1>2, <1>3, <1>5, <2>2
    <3> QED
      BY <1>1, <1>3, <2>2, <3>1, <3>2
  <2> QED
    BY <1>1, <2>1, <2>2
<1>8. NoRepeats(rest)
  BY <1>1, <1>6, <1>7 DEF NoRepeats
<1>9. Elements(rest) \subseteq Elements(q) \ {q[i]}
  BY <1>1, <1>6, <1>7 DEF NoRepeats, Elements
<1>10. ASSUME NEW j \in DOMAIN q, j # i PROVE q[j] \in Elements(rest)
  <2>1. CASE j < i
    <3>1. j \in DOMAIN rest /\ rest[j] = q[j]
      BY <1>1, <1>6, <1>7, <2>1
    <3> QED
      BY <3>1 DEF Elements
  <2>2. CASE j > i
    <3>1. j - 1 \in DOMAIN rest /\ rest[j - 1] = q[j]
      BY <1>1, <1>6, <1>7, <2>2
    <3> QED
      BY <3>1 DEF Elements
  <2> QED
    BY <1>1, <1>10, <2>1, <2>2
<1>11. Elements(rest) = Elements(q) \ {q[i]}
  BY <1>9, <1>10 DEF Elements
<1> QED
  BY <1>4, <1>8, <1>11

-----------------------------------------------------------------------------
(* 4. Where offers are, and what has been answered                          *)

Queued == Elements(queue)

InHand == incoming \cup Queued \cup batch

(* An offer that one of the threads, or the queue, has is in one place only,*)
(* and is in progress.                                                      *)
HandInv ==
    /\ InHand \subseteq (1 .. received) \cap offersInProgress
    /\ NoRepeats(queue)
    /\ incoming \cap Queued = {}
    /\ incoming \cap batch = {}
    /\ Queued \cap batch = {}
    /\ incoming # {} => pc["driver"] \in {"enqueue", "full"}
    /\ pc["offers"] = "poll" => batch = {}

(* Nothing is answered twice; what is still open is in hand; what waits in  *)
(* the callback or in the queue has not been answered, but for the offer    *)
(* that was just found not to fit.                                          *)
AnswersInv ==
    /\ rescinded \subseteq 1 .. received
    /\ \A o \in Offers : answered[o] <= 1
    /\ \A o \in Offers : o > received => answered[o] = 0
    /\ \A o \in 1 .. received : answered[o] = 0 /\ o \notin rescinded => o \in InHand
    /\ \A o \in Queued : answered[o] = 0
    /\ \A o \in incoming : answered[o] = IF pc["driver"] = "full" /\ o \in NextIncoming THEN 1 ELSE 0

(* Of the batch, what the plans can still use has not been answered, and    *)
(* all else has; a launch is for an offer that can still be used.           *)
BatchInv ==
    /\ \A o \in batch :
          answered[o] = IF pc["offers"] \in PlanLabels \cup {"finish"} /\ o \notin available THEN 1 ELSE 0
    /\ pc["offers"] \in {"recordInfo", "recordStatus", "accept"} => launch.offer \in available

LedgerInv == HandInv /\ AnswersInv /\ BatchInv

LEMMA InitLedgerInv == Init => LedgerInv
BY OfferCycleAssumption, EmptyQueue
DEF Init, LedgerInv, HandInv, AnswersInv, BatchInv, InHand, Queued, PlanLabels, Offers

(* Steps that touch no offer: a thread may go to another label if it has    *)
(* nothing in hand there, or if the label says the same of the batch.       *)
LEMMA LedgerFrame ==
    ASSUME TypeOK, LedgerInv, UNCHANGED offerVars,
           pc'["driver"] = pc["driver"] \/ incoming = {},
           \/ pc'["offers"] = pc["offers"]
           \/ batch = {}
           \/ pc["offers"] \in PlanLabels /\ pc'["offers"] \in PlanLabels
           \/ /\ pc["offers"] \notin PlanLabels \cup {"finish"}
              /\ pc'["offers"] \notin PlanLabels \cup {"finish", "poll"},
           pc'["offers"] \in {"recordInfo", "recordStatus", "accept"} => launch'.offer \in available
    PROVE  LedgerInv'
<1>1. Queued' = Queued /\ InHand' = InHand /\ NextIncoming' = NextIncoming
  BY DEF offerVars, Queued, InHand, NextIncoming
<1>2. HandInv'
  BY <1>1 DEF offerVars, LedgerInv, HandInv, PlanLabels
<1>3. AnswersInv'
  BY <1>1 DEF offerVars, LedgerInv, AnswersInv
<1>4. BatchInv'
  BY DEF offerVars, LedgerInv, BatchInv, TypeOK, OffersTypeOK
<1> QED
  BY <1>2, <1>3, <1>4 DEF LedgerInv


LEMMA ResourceOffersLedger ==
    ASSUME TypeOK, LedgerInv, ResourceOffers
    PROVE  LedgerInv' /\ Ledger!Next
<1> USE DEF LedgerInv
<1>1. PICK last \in received + 1 .. MaxOffers :
         /\ received' = last
         /\ \/ /\ Answer(received + 1 .. last)
               /\ UNCHANGED <<pc, offersInProgress, incoming>>
            \/ /\ offersInProgress' = offersInProgress \cup (received + 1 .. last)
               /\ incoming' = received + 1 .. last
               /\ Goto("driver", "enqueue")
               /\ UNCHANGED answered
  BY DEF ResourceOffers
<1> DEFINE new == received + 1 .. last
<1>2. UNCHANGED <<queue, batch, available, rescinded, launch>> /\ incoming = {} /\ pc["driver"] = "idle"
  BY DEF ResourceOffers, HandInv, launchVars
<1>3. received \in Nat /\ received < last /\ last <= MaxOffers /\ last \in Nat /\ MaxOffers \in Nat
  BY <1>1, OfferCycleAssumption DEF TypeOK, OffersTypeOK
<1>4. /\ new \subseteq Offers
      /\ new \cap (1 .. received) = {}
      /\ 1 .. last = (1 .. received) \cup new
      /\ \A o \in Offers : o > last => o > received
      /\ \A o \in new : o > received
  BY <1>3 DEF Offers
<1>5. /\ answered \in [Offers -> Nat]
      /\ \A o \in new : answered[o] = 0
      /\ \A o \in InHand : o \notin new
  BY <1>4 DEF TypeOK, OffersTypeOK, AnswersInv, HandInv
<1>6. Queued' = Queued
  BY <1>2 DEF Queued
<1> HIDE DEF new
<1>7. CASE Answer(new) /\ UNCHANGED <<pc, offersInProgress, incoming>>
  <2>1. InHand' = InHand /\ NextIncoming' = NextIncoming
    BY <1>2, <1>6, <1>7 DEF InHand, NextIncoming
  <2>2. answered' = [o \in Offers |-> IF o \in new THEN 1 ELSE answered[o]]
    BY <1>5, <1>7 DEF Answer
  <2>3. HandInv'
    BY <1>1, <1>2, <1>4, <1>6, <1>7, <2>1 DEF HandInv, new
  <2>4. \A o \in InHand : answered'[o] = answered[o]
    BY <1>4, <1>5, <2>2, <1>3 DEF HandInv, Offers
  <2>5. AnswersInv'
    <3>1. \A o \in Offers : answered'[o] = IF o \in new THEN 1 ELSE answered[o]
      BY <2>2
    <3>2. rescinded' \subseteq 1 .. received'
      BY <1>1, <1>2, <1>4 DEF AnswersInv
    <3>3. \A o \in Offers : answered'[o] <= 1 /\ (o > received' => answered'[o] = 0)
      BY <1>1, <1>4, <3>1 DEF AnswersInv, new
    <3>4. \A o \in 1 .. received' : answered'[o] = 0 /\ o \notin rescinded' => o \in InHand'
      <4>1. 1 .. received' = (1 .. received) \cup new /\ 1 .. received' \subseteq Offers
        BY <1>1, <1>3, <1>4 DEF Offers
      <4> QED
        BY <1>2, <2>1, <3>1, <4>1 DEF AnswersInv
    <3>5. \A o \in Queued' : answered'[o] = 0
      BY <1>6, <2>4 DEF AnswersInv, InHand
    <3>6. incoming' = {}
      BY <1>2, <1>7
    <3> QED
      BY <3>2, <3>3, <3>4, <3>5, <3>6 DEF AnswersInv
  <2>6. BatchInv'
    BY <1>2, <1>7, <2>4 DEF BatchInv, InHand
  <2>7. Ledger!TurnDown(last)
    BY <1>1, <1>2, <1>7, <2>2 DEF Ledger!TurnDown, Ledger!AnswersAdd, Offers, new
  <2> QED
    BY <1>1, <2>3, <2>5, <2>6, <2>7 DEF Ledger!Next
<1>8. CASE /\ offersInProgress' = offersInProgress \cup new
           /\ incoming' = new
           /\ Goto("driver", "enqueue")
           /\ UNCHANGED answered
  <2>1. pc'["driver"] = "enqueue" /\ pc'["offers"] = pc["offers"]
    BY <1>8, GotoDriver DEF TypeOK, DriverLabels
  <2>2. InHand' = InHand \cup new
    BY <1>2, <1>6, <1>8 DEF InHand
  <2>3. HandInv'
    BY <1>1, <1>2, <1>4, <1>5, <1>6, <1>8, <2>1, <2>2 DEF HandInv, InHand, new
  <2>4. AnswersInv'
    BY <1>1, <1>2, <1>4, <1>5, <1>6, <1>8, <2>1, <2>2 DEF AnswersInv, new
  <2>5. BatchInv'
    BY <1>2, <1>8, <2>1 DEF BatchInv
  <2>6. Ledger!TakeUp(last)
    BY <1>1, <1>2, <1>8 DEF Ledger!TakeUp, new
  <2> QED
    BY <1>1, <2>3, <2>4, <2>5, <2>6 DEF Ledger!Next
<1> QED
  BY <1>1, <1>7, <1>8 DEF new

LEMMA EnqueueLedger ==
    ASSUME TypeOK, LedgerInv, Enqueue
    PROVE  LedgerInv' /\ [Ledger!Next]_(Ledger!ledgerVars)
<1> USE DEF LedgerInv
<1>1. PICK o \in NextIncoming :
         \/ /\ queue' = Append(queue, o)
            /\ incoming' = incoming \ {o}
            /\ UNCHANGED <<pc, answered>>
         \/ /\ Answer({o})
            /\ Goto("driver", "full")
            /\ UNCHANGED <<queue, incoming>>
  BY DEF Enqueue
<1>2. UNCHANGED <<offersInProgress, batch, available, received, rescinded, launch>> /\ pc["driver"] = "enqueue"
  BY DEF Enqueue, launchVars
<1>3. o \in incoming /\ o \in Offers /\ o \notin Queued /\ o \notin batch /\ answered[o] = 0
      /\ answered \in [Offers -> Nat] /\ queue \in Seq(Offers)
  BY <1>1, <1>2 DEF NextIncoming, TypeOK, OffersTypeOK, HandInv, AnswersInv
<1>4. CASE /\ queue' = Append(queue, o)
           /\ incoming' = incoming \ {o}
           /\ UNCHANGED <<pc, answered>>
  <2>1. Queued' = Queued \cup {o} /\ NoRepeats(queue')
    BY <1>3, <1>4, AppendQueue DEF Queued, HandInv
  <2>2. InHand' = InHand
    BY <1>2, <1>3, <1>4, <2>1 DEF InHand
  <2>3. HandInv'
    BY <1>2, <1>3, <1>4, <2>1, <2>2 DEF HandInv
  <2>4. AnswersInv'
    BY <1>2, <1>3, <1>4, <2>1, <2>2 DEF AnswersInv
  <2>5. BatchInv'
    BY <1>2, <1>4 DEF BatchInv
  <2> QED
    BY <1>2, <1>4, <2>3, <2>4, <2>5 DEF Ledger!ledgerVars
<1>5. CASE /\ Answer({o})
           /\ Goto("driver", "full")
           /\ UNCHANGED <<queue, incoming>>
  <2>1. pc'["driver"] = "full" /\ pc'["offers"] = pc["offers"]
    BY <1>5, GotoDriver DEF TypeOK, DriverLabels
  <2>2. Queued' = Queued /\ InHand' = InHand /\ NextIncoming' = NextIncoming
    BY <1>2, <1>5 DEF Queued, InHand, NextIncoming
  <2>3. answered' = [p \in Offers |-> IF p \in {o} THEN 1 ELSE answered[p]]
    BY <1>3, <1>5 DEF Answer
  <2>4. NextIncoming = {o}
    <3>1. \A p \in NextIncoming : p <= o /\ o <= p
      BY <1>1 DEF NextIncoming
    <3>2. NextIncoming \subseteq Nat /\ o \in Nat
      <4>1. NextIncoming \subseteq Offers
        BY DEF NextIncoming, TypeOK, OffersTypeOK
      <4>2. Offers \subseteq Nat
        BY OfferCycleAssumption DEF Offers
      <4> QED
        BY <1>1, <4>1, <4>2
    <3>3. \A p \in NextIncoming : p = o
      BY <3>1, <3>2
    <3>4. o \in NextIncoming
      BY <1>1
    <3> QED
      BY <3>3, <3>4
  <2>5. HandInv'
    BY <1>2, <1>5, <2>1, <2>2 DEF HandInv
  <2>6. AnswersInv'
    <3>1. \A p \in Offers : answered'[p] <= 1 /\ (p # o => answered'[p] = answered[p])
      BY <2>3 DEF AnswersInv
    <3>2. o \in 1 .. received /\ received \in Nat /\ answered'[o] = 1
      BY <1>3, <2>3 DEF HandInv, InHand, TypeOK, OffersTypeOK
    <3>3. incoming \subseteq Offers /\ Queued \subseteq Offers /\ 1 .. received \subseteq Offers
      BY <3>2, OfferCycleAssumption DEF HandInv, InHand, TypeOK, OffersTypeOK, Offers
    <3> QED
      BY <1>2, <1>3, <1>5, <2>1, <2>2, <2>4, <3>1, <3>2, <3>3 DEF AnswersInv, Offers
  <2>7. BatchInv'
    BY <1>2, <1>3, <1>5, <2>1, <2>3 DEF BatchInv, TypeOK, OffersTypeOK
  <2>8. Ledger!Answer({o})
    BY <1>2, <1>3, <2>3 DEF Ledger!Answer, Ledger!AnswersAdd, Offers, HandInv, InHand
  <2> QED
    BY <1>3, <2>5, <2>6, <2>7, <2>8 DEF Ledger!Next, Offers
<1> QED
  BY <1>1, <1>4, <1>5

LEMMA RemoveDeclinedLedger ==
    ASSUME TypeOK, LedgerInv, RemoveDeclined
    PROVE  LedgerInv' /\ Ledger!Next
<1> USE DEF LedgerInv
<1>1. /\ offersInProgress' = offersInProgress \ NextIncoming
      /\ incoming' = incoming \ NextIncoming
      /\ UNCHANGED <<queue, batch, available, received, answered, rescinded, launch>>
      /\ pc["driver"] = "full"
  BY DEF RemoveDeclined, launchVars
<1>2. pc'["driver"] = "enqueue" /\ pc'["offers"] = pc["offers"]
  BY GotoDriver DEF RemoveDeclined, TypeOK, DriverLabels
<1>3. NextIncoming \subseteq incoming /\ Queued' = Queued /\ InHand' = InHand \ NextIncoming
  BY <1>1 DEF NextIncoming, Queued, InHand, HandInv
<1>4. \A o \in NextIncoming : answered[o] = 1 /\ o \in offersInProgress /\ o \in Offers
  BY <1>1, <1>3 DEF AnswersInv, HandInv, InHand, TypeOK, OffersTypeOK
<1>5. HandInv'
  BY <1>1, <1>2, <1>3 DEF HandInv, InHand
<1>6. AnswersInv'
  BY <1>1, <1>2, <1>3, <1>4 DEF AnswersInv
<1>7. BatchInv'
  BY <1>1, <1>2 DEF BatchInv
<1>8. Ledger!Finish(NextIncoming) /\ NextIncoming \in SUBSET (1 .. MaxOffers)
  BY <1>1, <1>4 DEF Ledger!Finish, Ledger!Closed, Offers
<1> QED
  BY <1>5, <1>6, <1>7, <1>8 DEF Ledger!Next

LEMMA OfferRescindedLedger ==
    ASSUME TypeOK, LedgerInv, OfferRescinded
    PROVE  LedgerInv' /\ Ledger!Next
<1> USE DEF LedgerInv
<1>1. PICK o \in (1 .. received) \ rescinded :
         /\ answered[o] = 0
         /\ rescinded' = rescinded \cup {o}
         /\ \/ UNCHANGED queue
            \/ \E i \in DOMAIN queue : queue[i] = o /\ queue' = Without(queue, i)
  BY DEF OfferRescinded, Without
<1>2. UNCHANGED <<pc, offersInProgress, incoming, batch, available, received, answered, launch>>
      /\ incoming = {}
  BY DEF OfferRescinded, HandInv, launchVars
<1>3. Queued' \subseteq Queued /\ Queued \subseteq Queued' \cup {o} /\ NoRepeats(queue')
  <2>1. CASE UNCHANGED queue
    BY <2>1 DEF Queued, HandInv
  <2>2. ASSUME NEW i \in DOMAIN queue, queue[i] = o, queue' = Without(queue, i)
        PROVE  Elements(queue') = Elements(queue) \ {o} /\ NoRepeats(queue')
    <3>1. queue \in Seq(Offers) /\ NoRepeats(queue)
      BY DEF HandInv, TypeOK, OffersTypeOK
    <3> QED
      BY <2>2, <3>1, WithoutQueue
  <2> QED
    BY <1>1, <2>1, <2>2 DEF Queued
<1>4. InHand' \subseteq InHand /\ InHand \subseteq InHand' \cup {o}
  BY <1>2, <1>3 DEF InHand
<1>5. HandInv'
  BY <1>2, <1>3, <1>4 DEF HandInv
<1>6. AnswersInv'
  BY <1>1, <1>2, <1>3, <1>4 DEF AnswersInv
<1>7. BatchInv'
  BY <1>2 DEF BatchInv
<1>8. Ledger!Withdraw({o})
  BY <1>1, <1>2 DEF Ledger!Withdraw
<1>9. {o} \in SUBSET (1 .. MaxOffers)
  BY <1>1, OfferCycleAssumption DEF TypeOK, OffersTypeOK
<1> QED
  BY <1>5, <1>6, <1>7, <1>8, <1>9 DEF Ledger!Next

LEMMA ReregisteredLedger ==
    ASSUME TypeOK, LedgerInv, Reregistered
    PROVE  LedgerInv' /\ [Ledger!Next]_(Ledger!ledgerVars)
<1> USE DEF LedgerInv
<1> DEFINE void == {o \in 1 .. received : answered[o] = 0}
<1>1. /\ UNCHANGED <<queue, offersInProgress, incoming, batch, available, received, answered, launch>>
      /\ incoming = {}
      /\ rescinded' = rescinded \/ rescinded' = rescinded \cup void
  BY DEF Reregistered, HandInv, launchVars
<1>2. pc'["offers"] = pc["offers"]
  BY GotoDriver DEF Reregistered, TypeOK, DriverLabels, ReconcilerLabels
<1>3. Queued' = Queued /\ InHand' = InHand
  BY <1>1 DEF Queued, InHand
<1>4. HandInv'
  BY <1>1, <1>2, <1>3 DEF HandInv
<1>5. AnswersInv'
  BY <1>1, <1>3 DEF AnswersInv
<1>6. BatchInv'
  BY <1>1, <1>2 DEF BatchInv
<1>7. CASE rescinded' = rescinded
  BY <1>1, <1>4, <1>5, <1>6, <1>7 DEF Ledger!ledgerVars
<1>8. CASE rescinded' = rescinded \cup void
  <2>1. Ledger!Withdraw(void)
    BY <1>1, <1>8 DEF Ledger!Withdraw
  <2>2. void \in SUBSET (1 .. MaxOffers)
    BY OfferCycleAssumption DEF TypeOK, OffersTypeOK
  <2> QED
    BY <1>4, <1>5, <1>6, <2>1, <2>2 DEF Ledger!Next
<1> QED
  BY <1>1, <1>7, <1>8

(* The two steps of takeAll() only move offers from the queue to the batch. *)
LEMMA TakeAllLedger ==
    ASSUME TypeOK, LedgerInv, Poll \/ Drain
    PROVE  LedgerInv' /\ UNCHANGED (Ledger!ledgerVars)
<1> USE DEF LedgerInv
<1>1. UNCHANGED <<offersInProgress, incoming, available, received, answered, rescinded, launch>>
  BY DEF Poll, Drain, launchVars
<1>2. /\ pc["offers"] \in {"poll", "drain"}
      /\ pc'["offers"] \in {"drain", "gate"}
      /\ pc'["driver"] = pc["driver"]
  BY GotoOffers DEF Poll, Drain, TypeOK, OfferLabels
<1>3. /\ Queued' \cup batch' = Queued \cup batch
      /\ Queued' \subseteq Queued
      /\ Queued' \cap batch' = {}
      /\ NoRepeats(queue')
  <2>1. CASE Poll /\ queue = <<>>
    BY <2>1, EmptyQueue DEF Poll, Queued, HandInv
  <2>2. CASE Poll /\ queue # <<>>
    <3>1. queue \in Seq(Offers) /\ NoRepeats(queue) /\ batch = {}
      BY <2>2 DEF Poll, HandInv, TypeOK, OffersTypeOK
    <3>2. queue' = Tail(queue) /\ batch' = {Head(queue)}
      BY <2>2 DEF Poll
    <3> QED
      BY <2>2, <3>1, <3>2, TailQueue DEF Queued
  <2>3. CASE Drain
    <3>1. batch' = batch \cup Queued /\ queue' = <<>>
      BY <2>3 DEF Drain, Queued, Elements
    <3> QED
      BY <3>1, EmptyQueue DEF Queued
  <2> QED
    BY <2>1, <2>2, <2>3
<1>4. InHand' = InHand /\ NextIncoming' = NextIncoming
  BY <1>1, <1>3 DEF InHand, NextIncoming
<1>5. HandInv'
  BY <1>1, <1>2, <1>3, <1>4 DEF HandInv
<1>6. AnswersInv'
  BY <1>1, <1>2, <1>3, <1>4 DEF AnswersInv
<1>7. BatchInv'
  <2>1. \A o \in batch' : answered[o] = 0
    BY <1>2, <1>3 DEF BatchInv, AnswersInv, PlanLabels
  <2> QED
    BY <1>1, <1>2, <2>1 DEF BatchInv, PlanLabels
<1> QED
  BY <1>1, <1>5, <1>6, <1>7 DEF Ledger!ledgerVars

(* The offer thread answers some of the batch that have not been answered.  *)
LEMMA AnswerSome ==
    ASSUME TypeOK, LedgerInv, NEW os \in SUBSET batch, \A o \in os : answered[o] = 0, Answer(os),
           UNCHANGED <<queue, offersInProgress, incoming, batch, received, rescinded>>,
           pc'["driver"] = pc["driver"], pc'["offers"] # "poll"
    PROVE  HandInv' /\ AnswersInv' /\ Ledger!Next /\ \A o \in batch : answered'[o] = IF o \in os THEN 1 ELSE answered[o]
<1> USE DEF LedgerInv
<1>1. Queued' = Queued /\ InHand' = InHand /\ NextIncoming' = NextIncoming
  BY DEF Queued, InHand, NextIncoming
<1>2. /\ os \subseteq Offers /\ batch \subseteq Offers
      /\ answered \in [Offers -> Nat]
      /\ 1 .. received \subseteq Offers
  BY OfferCycleAssumption DEF TypeOK, OffersTypeOK, Offers
<1>3. answered' = [o \in Offers |-> IF o \in os THEN 1 ELSE answered[o]]
  BY <1>2 DEF Answer
<1>4. \A o \in Offers : answered'[o] = IF o \in os THEN 1 ELSE answered[o]
  BY <1>3
<1>5. HandInv'
  BY <1>1 DEF HandInv
<1>6. AnswersInv'
  <2>1. \A o \in os : o \notin Queued /\ o \notin incoming /\ o \in 1 .. received
    BY DEF HandInv, InHand
  <2>2. \A o \in Offers : answered'[o] <= 1 /\ (o > received' => answered'[o] = 0)
    BY <1>4, <2>1 DEF AnswersInv, TypeOK, OffersTypeOK
  <2>3. \A o \in Queued \cup incoming : answered'[o] = answered[o]
    BY <1>2, <1>4, <2>1 DEF HandInv, InHand
  <2>4. \A o \in 1 .. received : answered'[o] = 0 => answered[o] = 0
    BY <1>2, <1>4
  <2> QED
    BY <1>1, <2>2, <2>3, <2>4 DEF AnswersInv
<1>7. Ledger!Answer(os)
  BY <1>3 DEF Ledger!Answer, Ledger!AnswersAdd, Offers, HandInv, InHand
<1> QED
  BY <1>2, <1>4, <1>5, <1>6, <1>7 DEF Ledger!Next, Offers

LEMMA ReconcileGateLedger ==
    ASSUME TypeOK, LedgerInv, ReconcileGate
    PROVE  LedgerInv' /\ [Ledger!Next]_(Ledger!ledgerVars)
<1> USE DEF LedgerInv
<1>1. UNCHANGED <<queue, offersInProgress, incoming, batch, received, rescinded>>
  BY DEF ReconcileGate
<1>2. pc["offers"] = "returned" /\ available \subseteq batch /\ available = {}
  BY DEF ReconcileGate, TypeOK, OffersTypeOK, PlanLabels
<1>3. \A o \in batch : answered[o] = 0
  BY <1>2 DEF BatchInv, PlanLabels
<1>4. CASE available' = batch /\ Goto("offers", "work") /\ UNCHANGED answered
  <2>1. pc'["offers"] = "work" /\ pc'["driver"] = pc["driver"]
    BY <1>4, GotoOffers DEF TypeOK, OfferLabels, PlanLabels
  <2>2. Queued' = Queued /\ InHand' = InHand /\ NextIncoming' = NextIncoming
    BY <1>1 DEF Queued, InHand, NextIncoming
  <2>3. HandInv' /\ AnswersInv'
    BY <1>1, <1>4, <2>1, <2>2 DEF HandInv, AnswersInv
  <2>4. BatchInv'
    BY <1>1, <1>3, <1>4, <2>1 DEF BatchInv
  <2> QED
    BY <1>1, <1>4, <2>3, <2>4 DEF Ledger!ledgerVars
<1>5. CASE Answer(batch) /\ Goto("offers", "finish") /\ UNCHANGED available
  <2>1. pc'["offers"] = "finish" /\ pc'["driver"] = pc["driver"]
    BY <1>5, GotoOffers DEF TypeOK, OfferLabels
  <2>2. HandInv' /\ AnswersInv' /\ Ledger!Next /\ \A o \in batch : answered'[o] = 1
    BY <1>1, <1>3, <1>5, <2>1, AnswerSome
  <2>3. BatchInv'
    BY <1>1, <1>2, <1>5, <2>1, <2>2 DEF BatchInv
  <2> QED
    BY <2>2, <2>3
<1> QED
  BY <1>4, <1>5 DEF ReconcileGate

LEMMA AcceptOffersLedger ==
    ASSUME TypeOK, LedgerInv, AcceptOffers
    PROVE  LedgerInv' /\ Ledger!Next
<1> USE DEF LedgerInv
<1> DEFINE o == launch.offer
<1>1. /\ UNCHANGED <<queue, offersInProgress, incoming, batch, received, rescinded>>
      /\ Answer({o})
      /\ available' = available \ {o}
      /\ pc["offers"] = "accept"
  BY DEF AcceptOffers
<1>2. pc'["offers"] = "work" /\ pc'["driver"] = pc["driver"]
  BY GotoOffers DEF AcceptOffers, TypeOK, OfferLabels, PlanLabels
<1>3. o \in available /\ o \in batch /\ answered[o] = 0
  BY <1>1 DEF BatchInv, TypeOK, OffersTypeOK
<1> HIDE DEF o
<1>4. HandInv' /\ AnswersInv' /\ Ledger!Next /\ \A b \in batch : answered'[b] = IF b \in {o} THEN 1 ELSE answered[b]
  BY <1>1, <1>2, <1>3, AnswerSome
<1>5. BatchInv'
  BY <1>1, <1>2, <1>3, <1>4 DEF BatchInv, PlanLabels
<1> QED
  BY <1>4, <1>5

LEMMA DeclineUnusedLedger ==
    ASSUME TypeOK, LedgerInv, DeclineUnused
    PROVE  LedgerInv' /\ Ledger!Next
<1> USE DEF LedgerInv
<1>1. /\ UNCHANGED <<queue, offersInProgress, incoming, batch, received, rescinded>>
      /\ Answer(available)
      /\ available' = {}
      /\ pc["offers"] = "work"
  BY DEF DeclineUnused
<1>2. pc'["offers"] = "finish" /\ pc'["driver"] = pc["driver"]
  BY GotoOffers DEF DeclineUnused, TypeOK, OfferLabels
<1>3. available \subseteq batch /\ \A o \in available : answered[o] = 0
  BY <1>1 DEF BatchInv, TypeOK, OffersTypeOK
<1>4. HandInv' /\ AnswersInv' /\ Ledger!Next
      /\ \A o \in batch : answered'[o] = IF o \in available THEN 1 ELSE answered[o]
  BY <1>1, <1>2, <1>3, AnswerSome
<1>5. BatchInv'
  BY <1>1, <1>2, <1>4 DEF BatchInv, PlanLabels
<1> QED
  BY <1>4, <1>5

LEMMA FinishLedger ==
    ASSUME TypeOK, LedgerInv, Finish
    PROVE  LedgerInv' /\ Ledger!Next
<1> USE DEF LedgerInv
<1>1. /\ offersInProgress' = offersInProgress \ batch
      /\ batch' = {}
      /\ UNCHANGED <<queue, incoming, available, received, answered, rescinded, launch>>
      /\ pc["offers"] = "finish"
  BY DEF Finish, launchVars
<1>2. pc'["offers"] = "poll" /\ pc'["driver"] = pc["driver"]
  BY GotoOffers DEF Finish, TypeOK, OfferLabels
<1>3. \A o \in batch : answered[o] = 1 /\ o \in offersInProgress /\ o \in Offers
  BY <1>1 DEF BatchInv, HandInv, InHand, TypeOK, OffersTypeOK, PlanLabels
<1>4. Queued' = Queued /\ InHand' = InHand \ batch /\ NextIncoming' = NextIncoming
  BY <1>1 DEF Queued, InHand, HandInv, NextIncoming
<1>5. HandInv'
  BY <1>1, <1>2, <1>4 DEF HandInv, InHand
<1>6. AnswersInv'
  BY <1>1, <1>2, <1>3, <1>4 DEF AnswersInv
<1>7. BatchInv'
  BY <1>1, <1>2 DEF BatchInv
<1>8. Ledger!Finish(batch) /\ batch \in SUBSET (1 .. MaxOffers)
  BY <1>1, <1>3 DEF Ledger!Finish, Ledger!Closed, Offers
<1> QED
  BY <1>5, <1>6, <1>7, <1>8 DEF Ledger!Next

-----------------------------------------------------------------------------
(* 5. Every step                                                            *)

(* Steps of the driver's thread that touch no offer start where it has none *)
(* in hand.                                                                 *)
LEMMA DriverFrame ==
    ASSUME TypeOK, LedgerInv, UNCHANGED <<offerVars, launch>>, NEW l \in DriverLabels, Goto("driver", l),
           incoming = {}
    PROVE  LedgerInv'
<1>1. pc'["offers"] = pc["offers"]
  BY GotoDriver DEF TypeOK
<1> QED
  BY <1>1, LedgerFrame DEF LedgerInv, BatchInv, offerVars

(* Those of the offer thread stay on one side of the gate.                  *)
LEMMA OffersFrame ==
    ASSUME TypeOK, LedgerInv, UNCHANGED offerVars, NEW l \in OfferLabels, Goto("offers", l),
           \/ batch = {}
           \/ pc["offers"] \in PlanLabels /\ l \in PlanLabels
           \/ pc["offers"] \notin PlanLabels \cup {"finish"} /\ l \notin PlanLabels \cup {"finish", "poll"},
           l \in {"recordInfo", "recordStatus", "accept"} => launch'.offer \in available
    PROVE  LedgerInv'
<1>1. pc'["offers"] = l /\ pc'["driver"] = pc["driver"]
  BY GotoOffers DEF TypeOK
<1> QED
  BY <1>1, LedgerFrame

LEMMA PlansLedger ==
    ASSUME TypeOK, LedgerInv,
           \/ \E t \in Tasks : KillOld(t)
           \/ EvaluateNothing
           \/ \E o \in Offers, id \in TaskIds : Evaluate(o, id)
           \/ RecordInfo
           \/ RecordStatus
           \/ RecordFails
    PROVE  LedgerInv' /\ UNCHANGED offerVars
<1> USE DEF PlanLabels
<1>1. PlanLabels \subseteq OfferLabels
  BY DEF OfferLabels
<1>2. pc["offers"] \in {"recordInfo", "recordStatus"} => launch.offer \in available
  BY DEF LedgerInv, BatchInv
<1>3. ASSUME NEW t \in Tasks, KillOld(t) PROVE LedgerInv' /\ UNCHANGED offerVars
  BY <1>1, <1>3, OffersFrame DEF KillOld
<1>4. ASSUME EvaluateNothing PROVE LedgerInv' /\ UNCHANGED offerVars
  BY <1>1, <1>4, OffersFrame DEF EvaluateNothing
<1>5. ASSUME NEW o \in Offers, NEW id \in TaskIds, Evaluate(o, id) PROVE LedgerInv' /\ UNCHANGED offerVars
  <2>1. launch \in Launches
    BY <1>5 DEF Evaluate, TypeOK, LaunchTypeOK
  <2>2. launch'.offer = o
    BY <1>5, <2>1 DEF Evaluate, Launches
  <2> QED
    BY <1>1, <1>5, <2>2, OffersFrame DEF Evaluate
<1>6. ASSUME RecordInfo PROVE LedgerInv' /\ UNCHANGED offerVars
  BY <1>1, <1>2, <1>6, OffersFrame DEF RecordInfo, launchVars
<1>7. ASSUME RecordStatus PROVE LedgerInv' /\ UNCHANGED offerVars
  BY <1>1, <1>2, <1>7, OffersFrame DEF RecordStatus, launchVars
<1>8. ASSUME RecordFails PROVE LedgerInv' /\ UNCHANGED offerVars
  BY <1>1, <1>8, OffersFrame DEF RecordFails
<1> QED
  BY <1>3, <1>4, <1>5, <1>6, <1>7, <1>8

LEMMA ReconcileLedger ==
    ASSUME TypeOK, LedgerInv, DriverReconciles \/ OffersReconcile \/ Gate
    PROVE  LedgerInv' /\ UNCHANGED offerVars
<1>1. CASE DriverReconciles
  <2>1. PICK l \in ReconcilerLabels : Goto("driver", l) /\ pc["driver"] \in ReconcilerLabels
    BY <1>1, ReconcilerStepGoto, OfferCycleAssumption DEF DriverReconciles
  <2>2. incoming = {}
    BY <2>1 DEF LedgerInv, HandInv, ReconcilerLabels
  <2> QED
    BY <1>1, <2>1, <2>2, DriverFrame DEF DriverReconciles, DriverLabels, launchVars
<1>2. CASE OffersReconcile
  <2>1. PICK l \in ReconcilerLabels \ {"start"} :
           /\ Goto("offers", l)
           /\ l = "startAdd" => pc["offers"] = "start"
           /\ pc["offers"] \in ReconcilerLabels
    BY <1>2, ReconcilerStepGoto, OfferCycleAssumption DEF OffersReconcile
  <2>2. pc["offers"] \in OfferLabels
    BY DEF TypeOK, PcTypeOK
  <2>3. l \in OfferLabels
    BY <2>1, <2>2 DEF OfferLabels, PlanLabels
  <2> QED
    BY <1>2, <2>1, <2>3, OffersFrame DEF OffersReconcile, ReconcilerLabels, PlanLabels
<1>3. CASE Gate
  <2>1. PICK l \in {"finish", "reconcile"} : Goto("offers", l) /\ (l = "finish" => batch = {})
    BY <1>3 DEF Gate
  <2>2. pc["offers"] = "gate" /\ l \in OfferLabels
    BY <1>3, <2>1 DEF Gate, OfferLabels, ReconcilerLabels
  <2> QED
    BY <1>3, <2>1, <2>2, OffersFrame DEF Gate, PlanLabels
<1> QED
  BY <1>1, <1>2, <1>3

LEMMA DriverLedger ==
    ASSUME TypeOK, LedgerInv,
           \/ Registered
           \/ RegisteredEnd
           \/ EnqueueEnd
           \/ StatusStore
           \/ StatusSet
           \/ StatusReconcile
           \/ StatusClean
           \/ \E id \in TaskIds : DeliverStatus(id)
    PROVE  LedgerInv' /\ UNCHANGED offerVars
<1>1. UNCHANGED <<offerVars, launch>>
  BY DEF Registered, RegisteredEnd, EnqueueEnd, StatusStore, StatusSet, StatusReconcile, StatusClean,
         DeliverStatus, StatusUpdate, launchVars
<1>2. incoming = {}
  BY DEF Registered, RegisteredEnd, EnqueueEnd, StatusStore, StatusSet, StatusReconcile, StatusClean,
         DeliverStatus, StatusUpdate, LedgerInv, HandInv
<1>3. \E l \in DriverLabels : Goto("driver", l)
  BY DEF Registered, RegisteredEnd, EnqueueEnd, StatusStore, StatusSet, StatusReconcile, StatusClean,
         DeliverStatus, StatusUpdate, DriverLabels, ReconcilerLabels
<1> QED
  BY <1>1, <1>2, <1>3, DriverFrame

LEMMA OutsideLedger ==
    ASSUME TypeOK, LedgerInv,
           \/ \E r \in SUBSET TaskIds : MasterAnswer(r)
           \/ \E id \in TaskIds : TaskDies(id)
           \/ \E id \in TaskIds : AgentResends(id)
           \/ ApiServerStarted
           \/ TimerExpires
           \/ UNCHANGED vars
    PROVE  LedgerInv' /\ UNCHANGED offerVars
<1>1. UNCHANGED <<offerVars, launch, pc>>
  BY DEF MasterAnswer, TaskDies, AgentResends, ApiServerStarted, TimerExpires, vars, launchVars
<1> QED
  BY <1>1, LedgerFrame DEF LedgerInv, BatchInv, offerVars

LEMMA NextLedger ==
    ASSUME TypeOK, LedgerInv, [Next]_vars
    PROVE  LedgerInv' /\ [Ledger!Next]_(Ledger!ledgerVars)
<1>1. UNCHANGED offerVars => UNCHANGED (Ledger!ledgerVars)
  BY DEF offerVars, Ledger!ledgerVars
<1>2. CASE DriverCallback
  BY <1>1, <1>2, ReconcileLedger, DriverLedger, EnqueueLedger, RemoveDeclinedLedger DEF DriverCallback
<1>3. CASE OfferThread
  BY <1>1, <1>3, TakeAllLedger, ReconcileLedger, ReconcileGateLedger, PlansLedger, AcceptOffersLedger,
     DeclineUnusedLedger, FinishLedger DEF OfferThread
<1>4. CASE Mesos
  BY <1>1, <1>4, ReregisteredLedger, ResourceOffersLedger, OfferRescindedLedger, DriverLedger, OutsideLedger
     DEF Mesos
<1>5. CASE ApiServerStarted \/ TimerExpires \/ UNCHANGED vars
  BY <1>1, <1>5, OutsideLedger
<1> QED
  BY <1>2, <1>3, <1>4, <1>5 DEF Next

-----------------------------------------------------------------------------
(* 6. The theorems                                                          *)

(* Where each offer is and which of them have been answered: the invariant  *)
(* behind the refinement.                                                   *)
THEOREM LedgerInvariant == Spec => []LedgerInv
<1>1. TypeOK /\ LedgerInv /\ [Next]_vars => LedgerInv'
  BY NextLedger
<1> QED
  BY <1>1, InitLedgerInv, TypeCorrect, PTL DEF Spec

(* The two threads implement the ledger: an offer is answered at most once  *)
(* and only while it is in progress, and leaves the ones in progress only   *)
(* when it has been answered or is void.                                    *)
THEOREM LedgerImplemented == Spec => ImplementsLedger
<1>1. Init => Ledger!Init
  BY DEF Init, Ledger!Init, Offers
<1>2. TypeOK /\ LedgerInv /\ [Next]_vars => [Ledger!Next]_(Ledger!ledgerVars)
  BY NextLedger
<1> QED
  BY <1>1, <1>2, TypeCorrect, LedgerInvariant, PTL DEF Spec, ImplementsLedger, Ledger!Spec

(* No offer is answered twice, whichever of the five places that answer     *)
(* offers has it.                                                           *)
THEOREM NoSecondAnswer == Spec => []AnsweredOnce
<1>1. LedgerInv => AnsweredOnce
  BY DEF LedgerInv, AnswersInv, AnsweredOnce
<1> QED
  BY <1>1, LedgerInvariant, PTL

(* awaitOffersProcessed() never overlooks an offer that is still open.      *)
THEOREM NoOpenOfferMissing == Spec => []OpenOffersInProgress
<1>1. LedgerInv => OpenOffersInProgress
  BY DEF LedgerInv, HandInv, AnswersInv, OpenOffersInProgress
<1> QED
  BY <1>1, LedgerInvariant, PTL
=============================================================================
