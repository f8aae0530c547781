-------------------------- MODULE UninstallProofs --------------------------
(***************************************************************************)
(* Proofs about module Uninstall, for any tasks and resources and any       *)
(* number of crashes and losses.                                            *)
(***************************************************************************)
EXTENDS Uninstall, TLAPS


-----------------------------------------------------------------------------
(* 1. Types                                                                 *)

LEMMA ResourcesType ==
    /\ \A t \in Tasks : AllResources(t) \subseteq Resources
    /\ \A ts \in SUBSET Tasks : StoredResources(ts) \subseteq Resources
    /\ Own \subseteq Resources
BY DEF AllResources, StoredResources, Resources, Own, Shared

LEMMA InitTypeOK == Init => TypeOK
<1> SUFFICES ASSUME Init PROVE TypeOK
  OBVIOUS
<1>1. 1 \in FrameworkIds /\ 0 \in 0..MaxCrashes /\ 0 \in 0..MaxLosses
  BY UninstallAssumption DEF FrameworkIds
<1>2. StoredResources(Tasks \ Failed) \subseteq Resources
  BY ResourcesType
<1> QED
  BY <1>1, <1>2, UninstallAssumption DEF Init, TypeOK

LEMMA NextTypeOK == TypeOK /\ [Next]_vars => TypeOK'
<1> SUFFICES ASSUME TypeOK, [Next]_vars PROVE TypeOK'
  OBVIOUS
<1> USE UninstallAssumption DEF TypeOK, storeVars, planVars, offerVars, mesosVars, ghostVars
<1>1. ASSUME Build PROVE TypeOK'
  BY <1>1 DEF Build
<1>2. ASSUME Finish PROVE TypeOK'
  BY <1>2 DEF Finish, ClearAllData
<1>3. ASSUME RunDriver PROVE TypeOK'
  BY <1>3 DEF RunDriver
<1>4. ASSUME Registered PROVE TypeOK'
  <2>1. id' \in FrameworkIds
    BY <1>4 DEF Registered, FrameworkIds
  <2>2. ToUnreserve \subseteq Resources
    BY ResourcesType DEF ToUnreserve
  <2>3. BuildPlan
    BY <1>4 DEF Registered
  <2>4. /\ uninstalling' \in BOOLEAN /\ frameworkId' \in FrameworkIds \cup {None}
        /\ infos' \subseteq Tasks /\ tombstones' \subseteq Own /\ statuses' \subseteq Tasks
    BY <2>3 DEF BuildPlan, ClearAllData
  <2>5. /\ killSteps' \subseteq Tasks /\ resourceSteps' \subseteq Resources
        /\ tlsStep' \in BOOLEAN /\ deregisterStep' \in BOOLEAN
    BY <2>2, <2>3 DEF BuildPlan, NoSteps
  <2> QED
    BY <1>4, <2>1, <2>4, <2>5 DEF Registered
<1>5. ASSUME StoreFrameworkId PROVE TypeOK'
  BY <1>5 DEF StoreFrameworkId
<1>6. ASSUME NEW S \in SUBSET Resources, KillTasks(S) PROVE TypeOK'
  BY <1>6 DEF KillTasks, Cycle, Clean
<1>7. ASSUME NEW S \in SUBSET Resources, AwaitResources(S) PROVE TypeOK'
  BY <1>7 DEF AwaitResources, Cycle, Clean
<1>8. ASSUME NEW S \in SUBSET Resources, CleanTLS(S) PROVE TypeOK'
  BY <1>8 DEF CleanTLS, Cycle, Clean
<1>9. ASSUME Deregister PROVE TypeOK'
  BY <1>9 DEF Deregister, Cycle
<1>10. ASSUME ClearFrameworkId PROVE TypeOK'
  BY <1>10 DEF ClearFrameworkId
<1>11. ASSUME StopDriver PROVE TypeOK'
  BY <1>11 DEF StopDriver
<1>12. ASSUME ClearState PROVE TypeOK'
  BY <1>12 DEF ClearState, ClearAllData
<1>13. ASSUME NEW r \in Resources, Record(r) PROVE TypeOK'
  <2>1. tombstones' \subseteq Own /\ resourceSteps' \subseteq Resources /\ todo' \subseteq batch
    BY <1>13 DEF Record
  <2> QED
    BY <1>13, <2>1 DEF Record
<1>14. ASSUME RecordFails PROVE TypeOK'
  BY <1>14 DEF RecordFails, Lose
<1>15. ASSUME Accept PROVE TypeOK'
  <2>1. reserved' \subseteq Resources /\ batch' = {} /\ todo' = {}
    BY <1>15 DEF Accept
  <2> QED
    BY <1>15, <2>1 DEF Accept
<1>16. ASSUME AcceptDropped PROVE TypeOK'
  BY <1>16 DEF AcceptDropped, Lose
<1>17. ASSUME NEW t \in Tasks, StatusUpdate(t) PROVE TypeOK'
  BY <1>17 DEF StatusUpdate
<1>18. ASSUME NEW t \in Tasks, KillArrives(t) PROVE TypeOK'
  BY <1>18 DEF KillArrives
<1>19. ASSUME NEW t \in Tasks, KillLost(t) PROVE TypeOK'
  BY <1>19 DEF KillLost, Lose
<1>20. ASSUME StatusWrite PROVE TypeOK'
  BY <1>20 DEF StatusWrite
<1>21. ASSUME Crash PROVE TypeOK'
  <2>1. orphaned' \in BOOLEAN
    BY <1>21 DEF Crash
  <2>2. crashes' \in 0..MaxCrashes /\ leaked' \subseteq Resources
    BY <1>21 DEF Crash
  <2> QED
    BY <1>21, <2>1, <2>2 DEF Crash, NoSteps, IdleThreads
<1>22. ASSUME UNCHANGED vars PROVE TypeOK'
  BY <1>22 DEF vars
<1> QED
  BY <1>1, <1>2, <1>3, <1>4, <1>5, <1>6, <1>7, <1>8, <1>9, <1>10, <1>11, <1>12, <1>13, <1>14,
     <1>15, <1>16, <1>17, <1>18, <1>19, <1>20, <1>21, <1>22 DEF Next

(* Every variable keeps its type, whatever the service and the bounds.      *)
THEOREM TypeCorrect == Spec => []TypeOK
BY InitTypeOK, NextTypeOK, PTL DEF Spec

-----------------------------------------------------------------------------
(* 2. The stored framework id                                               *)

(* The offer thread works while the process is up only; the id is cleared   *)
(* before the driver is stopped, and stored only by a process whose driver  *)
(* has not been stopped.                                                    *)
LifeInv ==
    /\ StoredFrameworkLives
    /\ at # "up" => offers = "idle" /\ batch = {} /\ todo = {}
    /\ offers # "record" => batch = {} /\ todo = {}
    /\ at = "registered" => id \in frameworks
    /\ offers = "stop" => frameworkId = None

LEMMA NextLife == TypeOK /\ LifeInv /\ [Next]_vars => LifeInv'
<1> SUFFICES ASSUME TypeOK, LifeInv, [Next]_vars PROVE LifeInv'
  OBVIOUS
<1> USE UninstallAssumption
        DEF TypeOK, LifeInv, StoredFrameworkLives, storeVars, planVars, offerVars, mesosVars
<1>1. ASSUME Build \/ Finish \/ RunDriver PROVE LifeInv'
  BY <1>1 DEF Build, Finish, RunDriver, ClearAllData
<1>2. ASSUME Registered PROVE LifeInv'
  <2>1. frameworkId' = None \/ frameworkId' = frameworkId
    BY <1>2 DEF Registered, BuildPlan, ClearAllData
  <2> QED
    BY <1>2, <2>1 DEF Registered
<1>3. ASSUME StoreFrameworkId PROVE LifeInv'
  BY <1>3 DEF StoreFrameworkId
<1>4. ASSUME NEW S \in SUBSET Resources, KillTasks(S) \/ AwaitResources(S) \/ CleanTLS(S)
      PROVE  LifeInv'
  BY <1>4 DEF KillTasks, AwaitResources, CleanTLS, Cycle, Clean
<1>5. ASSUME Deregister \/ ClearFrameworkId \/ StopDriver \/ ClearState PROVE LifeInv'
  BY <1>5 DEF Deregister, Cycle, ClearFrameworkId, StopDriver, ClearState, ClearAllData
<1>6. ASSUME NEW r \in Resources, Record(r) PROVE LifeInv'
  BY <1>6 DEF Record
<1>7. ASSUME RecordFails \/ Accept \/ AcceptDropped PROVE LifeInv'
  BY <1>7 DEF RecordFails, Accept, AcceptDropped
<1>8. ASSUME NEW t \in Tasks, StatusUpdate(t) \/ KillArrives(t) \/ KillLost(t) PROVE LifeInv'
  BY <1>8 DEF StatusUpdate, KillArrives, KillLost
<1>9. ASSUME StatusWrite \/ UNCHANGED vars PROVE LifeInv'
  BY <1>9 DEF StatusWrite, vars
<1>10. ASSUME Crash PROVE LifeInv'
  BY <1>10 DEF Crash, IdleThreads
<1> QED
  BY <1>1, <1>2, <1>3, <1>4, <1>5, <1>6, <1>7, <1>8, <1>9, <1>10 DEF Next

LEMMA InitLife == Init => LifeInv
BY UninstallAssumption DEF Init, LifeInv, StoredFrameworkLives

(* However often the scheduler crashes, the framework id that it would      *)
(* register with is one that Mesos still has.                               *)
THEOREM FrameworkLives == Spec => []StoredFrameworkLives
<1>1. Init => TypeOK /\ LifeInv
  BY InitTypeOK, InitLife
<1>2. TypeOK /\ LifeInv /\ [Next]_vars => (TypeOK /\ LifeInv)'
  BY NextTypeOK, NextLife
<1>3. LifeInv => StoredFrameworkLives
  BY DEF LifeInv
<1> QED
  BY <1>1, <1>2, <1>3, PTL DEF Spec

-----------------------------------------------------------------------------
(* 3. Reservations                                                          *)

Recorded == batch \ todo

(* A reservation that was not lost is in the operation that is about to be  *)
(* sent, or else a restart would open a step for it, and so does the plan   *)
(* that is there.  When the framework id is gone there is none.             *)
ReservationInv ==
    /\ reserved \subseteq leaked \cup Recorded \cup ToUnreserve
    /\ at \in {"registered", "up"} =>
           /\ reserved \subseteq leaked \cup Recorded \cup resourceSteps
           /\ secrets => tlsStep
    /\ frameworkId = None => reserved \subseteq leaked /\ ~secrets
    /\ offers \in {"clearId", "stop", "clear"} => resourceSteps = {} /\ ~tlsStep
    /\ offers \in {"stop", "clear"} => frameworkId = None
    /\ secrets => HasTLS
    /\ OnlyTornRecordsLeak

LEMMA NextReservation ==
    TypeOK /\ LifeInv /\ ReservationInv /\ [Next]_vars => ReservationInv'
<1> SUFFICES ASSUME TypeOK, LifeInv, ReservationInv, [Next]_vars PROVE ReservationInv'
  OBVIOUS
<1> USE UninstallAssumption
        DEF LifeInv, ReservationInv, Recorded, OnlyTornRecordsLeak, storeVars, planVars, offerVars,
            mesosVars, ghostVars
<1>1. ASSUME Build \/ RunDriver PROVE ReservationInv'
  <2>1. ToUnreserve' = ToUnreserve
    BY <1>1 DEF Build, RunDriver, ToUnreserve
  <2> QED
    BY <1>1, <2>1 DEF Build, RunDriver
<1>2. ASSUME Finish PROVE ReservationInv'
  BY <1>2 DEF Finish, ClearAllData, AllButStateStoreUninstalled
<1>3. ASSUME Registered PROVE ReservationInv'
  <2>1. BuildPlan /\ at' = "registered" /\ frameworks' # {}
    BY <1>3 DEF Registered
  <2>2. UNCHANGED <<offerVars, reserved, secrets, ghostVars>> /\ Recorded = {} /\ offers = "idle"
    BY <1>3 DEF Registered
  <2>3. CASE frameworkId = None
    BY <2>1, <2>2, <2>3 DEF BuildPlan, ClearAllData, NoSteps
  <2>4. CASE frameworkId # None
    <3>1. resourceSteps' = ToUnreserve /\ tlsStep' = HasTLS /\ UNCHANGED storeVars
      BY <2>1, <2>4 DEF BuildPlan
    <3>2. ToUnreserve' = ToUnreserve
      BY <3>1 DEF ToUnreserve
    <3> QED
      BY <2>1, <2>2, <2>4, <3>1, <3>2
  <2> QED
    BY <2>3, <2>4
<1>4. ASSUME StoreFrameworkId PROVE ReservationInv'
  <2>1. ToUnreserve' = ToUnreserve
    BY <1>4 DEF StoreFrameworkId, ToUnreserve
  <2> QED
    BY <1>4, <2>1 DEF StoreFrameworkId, TypeOK, FrameworkIds
<1>5. ASSUME NEW S \in SUBSET Resources, KillTasks(S) \/ AwaitResources(S) \/ CleanTLS(S)
      PROVE  ReservationInv'
  <2>1. ToUnreserve' = ToUnreserve /\ Recorded = {} /\ Recorded' = {}
    BY <1>5 DEF KillTasks, AwaitResources, CleanTLS, Cycle, Clean, ToUnreserve
  <2> QED
    BY <1>5, <2>1 DEF KillTasks, AwaitResources, CleanTLS, Cycle, Clean
<1>6. ASSUME Deregister \/ ClearFrameworkId \/ StopDriver PROVE ReservationInv'
  <2>1. ToUnreserve' = ToUnreserve /\ Recorded = {} /\ Recorded' = {}
    BY <1>6 DEF Deregister, Cycle, ClearFrameworkId, StopDriver, ToUnreserve
  <2> QED
    BY <1>6, <2>1 DEF Deregister, Cycle, ClearFrameworkId, StopDriver
<1>7. ASSUME ClearState PROVE ReservationInv'
  BY <1>7 DEF ClearState, ClearAllData
<1>8. ASSUME NEW r \in Resources, Record(r) PROVE ReservationInv'
  <2>1. Recorded' = Recorded \cup {r}
    BY <1>8 DEF Record, TypeOK
  <2>2. ToUnreserve \subseteq ToUnreserve' \cup {r} /\ resourceSteps \subseteq resourceSteps' \cup {r}
    BY <1>8 DEF Record, ToUnreserve
  <2> QED
    BY <1>8, <2>1, <2>2 DEF Record
<1>9. ASSUME RecordFails \/ Accept \/ AcceptDropped PROVE ReservationInv'
  <2>1. ToUnreserve' = ToUnreserve /\ Recorded' = {}
    BY <1>9 DEF RecordFails, Accept, AcceptDropped, ToUnreserve
  <2>2. reserved' \subseteq reserved /\ leaked \subseteq leaked'
    BY <1>9 DEF RecordFails, Accept, AcceptDropped
  <2>3. reserved' \cap Recorded \subseteq leaked'
    BY <1>9 DEF RecordFails, Accept, AcceptDropped
  <2> QED
    BY <1>9, <2>1, <2>2, <2>3 DEF RecordFails, Accept, AcceptDropped
<1>10. ASSUME NEW t \in Tasks, StatusUpdate(t) \/ KillArrives(t) \/ KillLost(t)
       PROVE  ReservationInv'
  <2>1. ToUnreserve' = ToUnreserve
    BY <1>10 DEF StatusUpdate, KillArrives, KillLost, ToUnreserve
  <2> QED
    BY <1>10, <2>1 DEF StatusUpdate, KillArrives, KillLost, Lose
<1>11. ASSUME StatusWrite \/ UNCHANGED vars PROVE ReservationInv'
  BY <1>11 DEF StatusWrite, vars, ToUnreserve
<1>12. ASSUME Crash PROVE ReservationInv'
  <2>1. ToUnreserve' = ToUnreserve /\ leaked' = leaked \cup Recorded
    BY <1>12 DEF Crash, ToUnreserve
  <2> QED
    BY <1>12, <2>1 DEF Crash, IdleThreads
<1> QED
  BY <1>1, <1>2, <1>3, <1>4, <1>5, <1>6, <1>7, <1>8, <1>9, <1>10, <1>11, <1>12 DEF Next

LEMMA InitReservation == Init => ReservationInv
BY UninstallAssumption
   DEF Init, ReservationInv, Recorded, ToUnreserve, OnlyTornRecordsLeak

(* Whenever the framework has been torn down, a reservation is left behind  *)
(* only if it was recorded as unreserved and the call was lost.             *)
THEOREM LeaksAreTornRecords == Spec => []OnlyTornRecordsLeak
<1>1. Init => TypeOK /\ LifeInv /\ ReservationInv
  BY InitTypeOK, InitLife, InitReservation
<1>2. TypeOK /\ LifeInv /\ ReservationInv /\ [Next]_vars => (TypeOK /\ LifeInv /\ ReservationInv)'
  BY NextTypeOK, NextLife, NextReservation
<1>3. ReservationInv => OnlyTornRecordsLeak
  BY DEF ReservationInv
<1> QED
  BY <1>1, <1>2, <1>3, PTL DEF Spec

-----------------------------------------------------------------------------
(* 4. Completion                                                            *)

(* Unless the process died between the calls of DeregisterStep there is one *)
(* framework only, which lives as long as its id is stored; once the id is  *)
(* cleared, every later process finds that nothing is left to do.           *)
CompletionInv ==
    ~orphaned =>
        /\ frameworkId \in {1, None} /\ frameworks \subseteq {1}
        /\ at \in {"registering", "registered", "up"} => id = 1
        /\ at \in {"registering", "registered"} => frameworkId = 1
        /\ frameworkId = None =>
               \/ offers = "stop"
               \/ offers = "clear" /\ frameworks = {}
               \/ frameworks = {} /\ infos = {} /\ tombstones = {}
        /\ offers = "record" => frameworkId = 1
        /\ offers = "clear" => frameworkId = None
        /\ at = "up" /\ frameworkId = None /\ offers = "idle" => ~uninstalling
        /\ at = "finished" => frameworkId = None /\ ~uninstalling
        /\ at \in {"registered", "up"} /\ (frameworkId = 1 \/ offers # "idle") => deregisterStep

LEMMA NextCompletion ==
    TypeOK /\ LifeInv /\ CompletionInv /\ [Next]_vars => CompletionInv'
<1> SUFFICES ASSUME TypeOK, LifeInv, CompletionInv, [Next]_vars, ~orphaned' PROVE CompletionInv'
  BY DEF CompletionInv
<1> USE UninstallAssumption
        DEF TypeOK, LifeInv, CompletionInv, storeVars, planVars, offerVars, mesosVars, ghostVars
<1>1. ASSUME Build PROVE CompletionInv'
  BY <1>1 DEF Build
<1>2. ASSUME Finish PROVE CompletionInv'
  BY <1>2 DEF Finish, ClearAllData, AllButStateStoreUninstalled
<1>3. ASSUME RunDriver PROVE CompletionInv'
  <2>1. infos = {} => StoredResources(infos) = {}
    BY DEF StoredResources
  <2>2. frameworkId = 1
    BY <1>3, <2>1 DEF RunDriver, AllButStateStoreUninstalled
  <2> QED
    BY <1>3, <2>2 DEF RunDriver
<1>4. ASSUME Registered PROVE CompletionInv'
  <2>1. frameworkId = 1 /\ id = 1 /\ ~orphaned
    BY <1>4 DEF Registered
  <2>2. deregisterStep' = TRUE /\ UNCHANGED storeVars
    BY <1>4, <2>1 DEF Registered, BuildPlan
  <2>3. id' = 1
    BY <1>4, <2>1 DEF Registered
  <2>4. frameworks' \subseteq {1}
    BY <1>4, <2>1, <2>3 DEF Registered
  <2> QED
    BY <1>4, <2>1, <2>2, <2>3, <2>4 DEF Registered
<1>5. ASSUME StoreFrameworkId PROVE CompletionInv'
  BY <1>5 DEF StoreFrameworkId
<1>6. ASSUME NEW S \in SUBSET Resources, KillTasks(S) \/ AwaitResources(S) \/ CleanTLS(S)
      PROVE  CompletionInv'
  <2>1. S # {} => frameworks # {}
    BY <1>6 DEF KillTasks, AwaitResources, CleanTLS, Cycle, Offered
  <2> QED
    BY <1>6, <2>1 DEF KillTasks, AwaitResources, CleanTLS, Cycle, Clean
<1>7. ASSUME Deregister \/ ClearFrameworkId \/ StopDriver PROVE CompletionInv'
  BY <1>7 DEF Deregister, Cycle, ClearFrameworkId, StopDriver
<1>8. ASSUME ClearState PROVE CompletionInv'
  BY <1>8 DEF ClearState, ClearAllData
<1>9. ASSUME NEW r \in Resources, Record(r) PROVE CompletionInv'
  BY <1>9 DEF Record
<1>10. ASSUME RecordFails \/ Accept \/ AcceptDropped PROVE CompletionInv'
  BY <1>10 DEF RecordFails, Accept, AcceptDropped, Lose
<1>11. ASSUME NEW t \in Tasks, StatusUpdate(t) \/ KillArrives(t) \/ KillLost(t)
       PROVE  CompletionInv'
  BY <1>11 DEF StatusUpdate, KillArrives, KillLost, Lose
<1>12. ASSUME StatusWrite \/ UNCHANGED vars PROVE CompletionInv'
  BY <1>12 DEF StatusWrite, vars
<1>13. ASSUME Crash PROVE CompletionInv'
  BY <1>13 DEF Crash, IdleThreads, NoSteps
<1> QED
  BY <1>1, <1>2, <1>3, <1>4, <1>5, <1>6, <1>7, <1>8, <1>9, <1>10, <1>11, <1>12, <1>13 DEF Next

LEMMA InitCompletion == Init => CompletionInv
BY UninstallAssumption DEF Init, CompletionInv

(* A complete uninstall plan means that the framework and the state of the  *)
(* service are gone, unless a crash fell between the calls of               *)
(* DeregisterStep.                                                          *)
THEOREM CompletionIsReal == Spec => []CompleteMeansGone
<1>1. Init => TypeOK /\ LifeInv /\ CompletionInv
  BY InitTypeOK, InitLife, InitCompletion
<1>2. TypeOK /\ LifeInv /\ CompletionInv /\ [Next]_vars => (TypeOK /\ LifeInv /\ CompletionInv)'
  BY NextTypeOK, NextLife, NextCompletion
<1>3. LifeInv /\ CompletionInv => CompleteMeansGone
  BY UninstallAssumption DEF LifeInv, CompletionInv, CompleteMeansGone, Done
<1> QED
  BY <1>1, <1>2, <1>3, PTL DEF Spec
=============================================================================
