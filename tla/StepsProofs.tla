---------------------------- MODULE StepsProofs ----------------------------
(***************************************************************************)
(* Proofs about module Steps, for a pod of any finite number of tasks, any  *)
(* ids and any number of failures, crashes and requests.                    *)
(***************************************************************************)
EXTENDS Steps, FiniteSetTheorems, TLAPS

-----------------------------------------------------------------------------
(* 1. What the threads hold                                                 *)

LifeStates == {"STAGING", "RUNNING", "READY", "FAILED"}

Overrides == [target : {"NONE", "PAUSED"}, progress : {"PENDING", "IN_PROGRESS", "COMPLETE"}]

OverrideReads == [task : Tasks, override : Overrides]

(* The ids of a launch: one for each task of the pod.                       *)
Launches == {ids \in [Tasks -> TaskIds] : \A t, u \in Tasks : ids[t] = ids[u] => t = u}

TaskMaps == UNION {[S -> StepStatuses] : S \in SUBSET TaskIds}

IdMaps == UNION {[S -> TaskIds] : S \in SUBSET Tasks}

StepInv ==
    /\ step \in [status : StepStatuses, tasks : TaskMaps]
    /\ DOMAIN step.tasks = {} \/ \E ids \in Launches : DOMAIN step.tasks = Ids(ids)

OffersInv ==
    /\ offers \in [at : {"idle", "evaluate", "info", "status", "accept", "update", "set", "store"},
                   ids : Launches \cup {NoIds}, todo : SUBSET Tasks,
                   read : Tasks \cup {None} \cup OverrideReads]
    /\ Ids(offers.ids) \subseteq used
    /\ offers.at \in {"idle", "evaluate"} => offers.ids = NoIds
    /\ offers.at \in {"info", "status", "accept", "set", "store"} => offers.ids \in Launches
    /\ offers.at = "status" => offers.read \in Tasks
    /\ offers.at = "store" => offers.read \in OverrideReads
    /\ offers.at \in {"set", "store"} => DOMAIN step.tasks = Ids(offers.ids)

DriverInv ==
    /\ driver \in [at : {"idle", "write", "update", "store"}, id : TaskIds \cup {None},
                   state : LifeStates \cup {"LOST", None}, read : Tasks \cup {None} \cup OverrideReads]
    /\ driver.at # "idle" => driver.id \in used /\ driver.state \in LifeStates \cup {"LOST"}
    /\ driver.at \in {"write", "update"} => driver.read \in Tasks
    /\ driver.at = "store" => driver.read \in OverrideReads /\ driver.id \in DOMAIN step.tasks

HttpInv ==
    /\ http \in [at : {"idle", "store", "kill"}, ids : IdMaps, todo : SUBSET Tasks,
                 read : {"NONE", "PAUSED", None}]
    /\ Ids(http.ids) \subseteq used
    /\ http.at = "store" => http.read \in {"NONE", "PAUSED"}

(* Every id that is recorded, or that Mesos knows, was used for a launch.   *)
IdsInv ==
    /\ used \subseteq TaskIds
    /\ \A t \in Tasks : taskInfo[t] \in used \cup {None}
    /\ \A t \in Tasks : taskStatus[t] # None => taskStatus[t].id \in used
    /\ life \in [TaskIds -> LifeStates \cup {None}]
    /\ \A id \in TaskIds : life[id] # None => id \in used
    /\ command \in [TaskIds -> {"NONE", "PAUSED"}]

HistoryInv ==
    /\ history \in [asked : SUBSET TaskIds, ready : SUBSET TaskIds, torn : BOOLEAN,
                    missed : SUBSET TaskIds]
    /\ faults \in Nat

(* What is COMPLETE was ready, on its way from Mesos into the step.         *)
ReadyInv ==
    /\ \A id \in TaskIds : life[id] = "READY" => id \in history.ready
    /\ driver.at # "idle" /\ driver.state = "READY" => driver.id \in history.ready
    /\ \A id \in DOMAIN step.tasks : step.tasks[id] = "COMPLETE" => id \in history.ready

TypeInv == TypeOK /\ StepInv /\ OffersInv /\ DriverInv /\ HttpInv /\ IdsInv /\ HistoryInv

StepsInv == TypeInv /\ ReadyInv

LEMMA NotALife == None \notin LifeStates \cup {"LOST"}
BY StepsAssumption DEF LifeStates

LEMMA NoneIsNoStatus == None \notin TaskStatuses
BY StepsAssumption

LEMMA TaskMapsType ==
    ASSUME NEW m
    PROVE  m \in TaskMaps <=> DOMAIN m \subseteq TaskIds /\ m \in [DOMAIN m -> StepStatuses]
BY DEF TaskMaps

LEMMA IdMapsType ==
    ASSUME NEW m
    PROVE  m \in IdMaps <=> DOMAIN m \subseteq Tasks /\ m \in [DOMAIN m -> TaskIds]
BY DEF IdMaps

LEMMA NoIdsType ==
    /\ NoIds \in TaskMaps /\ NoIds \in IdMaps
    /\ DOMAIN NoIds = {} /\ Ids(NoIds) = {}
BY TaskMapsType, IdMapsType DEF NoIds, Ids

LEMMA LaunchIds ==
    ASSUME NEW ids \in Launches
    PROVE  /\ DOMAIN ids = Tasks
           /\ Ids(ids) = {ids[t] : t \in Tasks}
           /\ Ids(ids) \subseteq TaskIds
           /\ \A t \in Tasks : ids[t] \in TaskIds /\ ids[t] \in Ids(ids)
BY DEF Launches, Ids

LEMMA LeastType ==
    ASSUME NEW S \in SUBSET StepStatuses
    PROVE  /\ Least(S) \in StepStatuses
           /\ Least(S) = "COMPLETE" => S = {"COMPLETE"}
BY DEF Least, StepStatuses

(* The step after a change of its tasks.                                    *)
LEMMA StepOfType ==
    ASSUME NEW m \in TaskMaps
    PROVE  /\ StepOf(m) \in [status : StepStatuses, tasks : TaskMaps]
           /\ StepOf(m).tasks = m
           /\ StepOf(m).status = "COMPLETE" =>
                 DOMAIN m # {} /\ \A id \in DOMAIN m : m[id] = "COMPLETE"
<1> DEFINE S == {m[id] : id \in DOMAIN m}
<1>1. S \in SUBSET StepStatuses
  BY TaskMapsType
<1>2. Least(S) \in StepStatuses /\ (Least(S) = "COMPLETE" => S = {"COMPLETE"})
  BY <1>1, LeastType
<1>3. StepOf(m) = [status |-> Least(S), tasks |-> m]
  BY DEF StepOf
<1> HIDE DEF S
<1>4. StepOf(m).status = Least(S) /\ StepOf(m).tasks = m
  BY <1>3
<1>5. S = {"COMPLETE"} => DOMAIN m # {} /\ \A id \in DOMAIN m : m[id] = "COMPLETE"
  BY DEF S
<1> QED
  BY <1>2, <1>3, <1>4, <1>5

LEMMA SetTaskType ==
    ASSUME step \in [status : StepStatuses, tasks : TaskMaps],
           NEW id, NEW s \in StepStatuses
    PROVE  /\ SetTask(id, s) \in [status : StepStatuses, tasks : TaskMaps]
           /\ SetTask(id, s).status = step.status
           /\ DOMAIN SetTask(id, s).tasks = DOMAIN step.tasks
           /\ \A i \in DOMAIN step.tasks :
                 SetTask(id, s).tasks[i] = IF i = id THEN s ELSE step.tasks[i]
<1> DEFINE m == [step.tasks EXCEPT ![id] = s]
<1>1. step.tasks \in TaskMaps /\ step.status \in StepStatuses
  OBVIOUS
<1>2. /\ DOMAIN m = DOMAIN step.tasks
      /\ \A i \in DOMAIN step.tasks : m[i] = IF i = id THEN s ELSE step.tasks[i]
      /\ m \in TaskMaps
  BY <1>1, TaskMapsType
<1>3. SetTask(id, s) = [step EXCEPT !.tasks = m]
  BY DEF SetTask
<1> HIDE DEF m
<1> QED
  BY <1>1, <1>2, <1>3

-----------------------------------------------------------------------------
(* 2. Types                                                                 *)

LEMMA InitTypeInv == Init => TypeInv
<1> SUFFICES ASSUME Init PROVE TypeInv
  OBVIOUS
<1>1. StepInv /\ OffersInv /\ DriverInv /\ HttpInv
  BY NoIdsType, StepsAssumption
     DEF Init, StepInv, OffersInv, DriverInv, HttpInv, NewStep, Idle, NoStatus, StepStatuses
<1>2. IdsInv /\ HistoryInv
  BY StepsAssumption DEF Init, IdsInv, HistoryInv
<1>3. TypeOK
  BY <1>1, NoIdsType DEF Init, TypeOK, StoreTypeOK, StepInv, NewStep, Idle, NoStatus, Inactive, Override,
     StepStatuses
<1> QED
  BY <1>1, <1>2, <1>3 DEF TypeInv

LEMMA IdleType ==
    /\ Idle.at = "idle" /\ Idle.ids = NoIds /\ Idle.todo = {} /\ Idle.read = None
    /\ Idle \in [at : {"idle"}, ids : {NoIds}, todo : SUBSET Tasks, read : {None}]
    /\ NoStatus.at = "idle"
    /\ NoStatus \in [at : {"idle"}, id : {None}, state : {None}, read : {None}]
BY DEF Idle, NoStatus

LEMMA OverrideType == TypeOK => \A t \in Tasks : override[t] \in Overrides
BY DEF TypeOK, Overrides

LEMMA ProgressType ==
    ASSUME override \in [Tasks -> Overrides],
           NEW t \in Tasks, NEW r \in Overrides, NEW s \in StepStatuses, StoreProgress(t, r, s)
    PROVE  override' \in [Tasks -> Overrides]
<1>1. Override(r.target, Progress(s)) \in Overrides
  BY DEF Override, Progress, Overrides
<1> QED
  BY <1>1 DEF StoreProgress

LEMMA BecomesType ==
    ASSUME IdsInv, NEW id \in TaskIds, NEW s \in LifeStates, life[id] # None, Becomes(id, s)
    PROVE  /\ life' \in [TaskIds -> LifeStates \cup {None}]
           /\ \A i \in TaskIds : life'[i] # None => i \in used
           /\ id \in used
           /\ unheard' = unheard \cup {id}
BY DEF Becomes, IdsInv

(* What the HTTP thread reads, and what a restart makes of the records.     *)
LEMMA RecordedType ==
    ASSUME IdsInv
    PROVE  /\ Recorded \in SUBSET Tasks
           /\ [t \in Recorded |-> taskInfo[t]] \in IdMaps
           /\ Ids([t \in Recorded |-> taskInfo[t]]) \subseteq used
<1>1. Recorded \subseteq Tasks /\ \A t \in Recorded : taskInfo[t] \in used
  BY DEF Recorded, IdsInv
<1> QED
  BY <1>1, IdMapsType DEF Ids, IdsInv

LEMMA RepairedType ==
    ASSUME IdsInv, StoreTypeOK
    PROVE  /\ RepairedInfo \in [Tasks -> used \cup {None}]
           /\ RepairedStatus \in [Tasks -> TaskStatuses \cup {None}]
           /\ \A t \in Tasks : RepairedStatus[t] # None => RepairedStatus[t].id \in used
<1>1. \A t \in Tasks : RepairedInfo[t] \in used \cup {None}
  BY DEF RepairedInfo, IdsInv
<1>2. ASSUME NEW t \in Tasks
      PROVE  /\ RepairedStatus[t] \in TaskStatuses \cup {None}
             /\ RepairedStatus[t] # None => RepairedStatus[t].id \in used
  <2>1. CASE taskInfo[t] = RepairedInfo[t] /\ (taskInfo[t] # None => taskStatus[t] # None)
    BY <2>1 DEF RepairedStatus, StoreTypeOK, IdsInv
  <2>2. CASE ~(taskInfo[t] = RepairedInfo[t] /\ (taskInfo[t] # None => taskStatus[t] # None))
    <3>1. RepairedInfo[t] # None /\ RepairedInfo[t] \in used
      BY <1>1, <2>2, StoreAssumption DEF RepairedInfo, StoreTypeOK, TaskStatuses
    <3>2. RepairedStatus[t] = StatusOf(RepairedInfo[t], "FAILED")
      BY <2>2 DEF RepairedStatus
    <3> QED
      BY <3>1, <3>2 DEF StatusOf, TaskStatuses, TaskStates, IdsInv
  <2> QED
    BY <2>1, <2>2
<1> QED
  BY <1>1, <1>2 DEF RepairedInfo, RepairedStatus

LEMMA NextTypeInv == TypeInv /\ [Next]_vars => TypeInv'
<1> SUFFICES ASSUME TypeInv, [Next]_vars PROVE TypeInv'
  OBVIOUS
<1> USE StepsAssumption, StoreAssumption
    DEF TypeInv, processVars, mesosVars, storeVars
<1>1. CASE KillTasks
  <2>1. ToKill \ {None} \subseteq used
    BY DEF ToKill, IdsInv
  <2>2. HistoryInv' /\ kills' \subseteq used'
    BY <1>1, <2>1 DEF KillTasks, Kill, HistoryInv, TypeOK, IdsInv
  <2>3. OffersInv'
    BY <1>1 DEF KillTasks, OffersInv
  <2> QED
    BY <1>1, <2>2, <2>3 DEF KillTasks, TypeOK, StoreTypeOK, StepInv, DriverInv, HttpInv, IdsInv, OffersInv
<1>2. CASE EvaluateNothing
  BY <1>2 DEF EvaluateNothing, TypeOK, StoreTypeOK, StepInv, OffersInv, DriverInv, HttpInv, IdsInv, HistoryInv
<1>3. CASE Evaluate
  <2>1. PICK ids \in [Tasks -> TaskIds \ used] :
            /\ \A t, u \in Tasks : ids[t] = ids[u] => t = u
            /\ offers' = [at |-> "info", ids |-> ids, todo |-> Tasks, read |-> None]
            /\ used' = used \cup Ids(ids)
            /\ command' = [id \in TaskIds |->
                  IF \E t \in Tasks : ids[t] = id
                  THEN override[CHOOSE t \in Tasks : ids[t] = id].target ELSE command[id]]
    BY <1>3 DEF Evaluate
  <2>2. ids \in Launches
    BY <2>1 DEF Launches
  <2>3. Ids(ids) \subseteq TaskIds
    BY <2>2, LaunchIds
  <2>4. OffersInv'
    BY <2>1, <2>2 DEF OffersInv
  <2>5. command' \in [TaskIds -> {"NONE", "PAUSED"}]
    <3>1. ASSUME NEW id \in TaskIds, \E t \in Tasks : ids[t] = id
          PROVE  override[CHOOSE t \in Tasks : ids[t] = id].target \in {"NONE", "PAUSED"}
      BY <3>1 DEF TypeOK
    <3> QED
      BY <2>1, <3>1 DEF IdsInv
  <2>6. IdsInv'
    BY <1>3, <2>1, <2>3, <2>5 DEF IdsInv, Evaluate
  <2> QED
    BY <1>3, <2>1, <2>4, <2>6 DEF Evaluate, TypeOK, StoreTypeOK, StepInv, OffersInv, DriverInv, HttpInv, HistoryInv
<1>4. ASSUME NEW t \in Tasks, RecordInfo(t) PROVE TypeInv'
  <2>1. offers.ids[t] \in used
    BY <1>4, LaunchIds DEF RecordInfo, OffersInv
  <2>2. taskInfo' = [u \in Tasks |-> IF u = t THEN offers.ids[t] ELSE taskInfo[u]]
    BY <1>4 DEF RecordInfo, StoreTasks
  <2>3. StoreTypeOK' /\ IdsInv'
    BY <1>4, <2>1, <2>2 DEF RecordInfo, StoreTypeOK, IdsInv, TypeOK
  <2>4. OffersInv'
    BY <1>4 DEF RecordInfo, OffersInv
  <2> QED
    BY <1>4, <2>3, <2>4 DEF RecordInfo, TypeOK, StepInv, OffersInv, DriverInv, HttpInv, HistoryInv
<1>5. ASSUME NEW t \in Tasks, UpdateFetch(t) PROVE TypeInv'
  <2>1. StepInv' /\ DOMAIN step.tasks' = DOMAIN step.tasks /\ step.status' = step.status
    BY <1>5, SetTaskType DEF UpdateFetch, StepInv, StepStatuses
  <2>2. [task |-> t, override |-> override[t]] \in OverrideReads
    BY OverrideType DEF OverrideReads
  <2>3. OffersInv'
    BY <1>5, <2>1, <2>2 DEF UpdateFetch, OffersInv
  <2>4. \A id \in DOMAIN step.tasks' : step.tasks'[id] \in StepStatuses
    BY <2>1, TaskMapsType DEF StepInv
  <2> QED
    BY <1>5, <2>1, <2>3, <2>4 DEF UpdateFetch, TypeOK, StoreTypeOK, OffersInv, DriverInv, HttpInv, IdsInv, HistoryInv
<1>6. CASE RecordStatus
  <2>1. offers.ids[offers.read] \in used
    BY <1>6, LaunchIds DEF RecordStatus, OffersInv
  <2>2. StatusOf(offers.ids[offers.read], "STAGING") \in TaskStatuses
        /\ StatusOf(offers.ids[offers.read], "STAGING").id \in used
    BY <2>1 DEF StatusOf, TaskStatuses, TaskStates, IdsInv
  <2>3. taskStatus' = [taskStatus EXCEPT ![offers.read] = StatusOf(offers.ids[offers.read], "STAGING")]
    BY <1>6 DEF RecordStatus, StoreStatus
  <2>4. StoreTypeOK' /\ IdsInv'
    BY <1>6, <2>2, <2>3 DEF RecordStatus, StoreTypeOK, IdsInv, TypeOK
  <2>5. OffersInv'
    BY <1>6 DEF RecordStatus, OffersInv
  <2> QED
    <3>1. /\ UNCHANGED <<override, step, monitor, driver, http, unreconciled, unheard, kills,
                         history, faults, used>>
          /\ offers.at = "status" /\ offers'.at \in {"accept", "info"}
      BY <1>6 DEF RecordStatus, OffersInv
    <3>2. StepInv' /\ DriverInv' /\ HttpInv' /\ HistoryInv'
      BY <3>1 DEF StepInv, DriverInv, HttpInv, HistoryInv
    <3>3. TypeOK'
      BY <2>4, <3>1 DEF TypeOK
    <3> QED
      BY <2>4, <2>5, <3>2, <3>3
<1>7. CASE AcceptOffers
  <2>1. IdsInv'
    BY <1>7 DEF AcceptOffers, IdsInv, OffersInv, LifeStates
  <2>2. OffersInv'
    BY <1>7 DEF AcceptOffers, OffersInv
  <2> QED
    BY <1>7, <2>1, <2>2 DEF AcceptOffers, TypeOK, StoreTypeOK, StepInv, OffersInv, DriverInv, HttpInv, HistoryInv
<1>8. CASE UpdateEmpty
  <2>1. StepInv' /\ step'.tasks = NoIds
    BY <1>8, StepOfType, NoIdsType DEF UpdateEmpty, StepInv
  <2>2. OffersInv'
    BY <1>8, IdleType, NoIdsType DEF UpdateEmpty, OffersInv
  <2>3. DriverInv'
    BY <1>8 DEF UpdateEmpty, DriverInv, TypeOK
  <2> QED
    BY <1>8, <2>1, <2>2, <2>3, IdleType, NoIdsType
       DEF UpdateEmpty, TypeOK, StoreTypeOK, StepInv, HttpInv, IdsInv, HistoryInv
<1>9. CASE UpdateBegin
  <2> DEFINE m == [id \in Ids(offers.ids) |-> "PREPARED"]
  <2>1. offers.ids \in Launches
    BY <1>9 DEF UpdateBegin, OffersInv
  <2>2. m \in TaskMaps /\ DOMAIN m = Ids(offers.ids) /\ \A id \in DOMAIN m : m[id] \in StepStatuses
    BY <2>1, TaskMapsType, LaunchIds DEF StepStatuses
  <2>3. step' = [step EXCEPT !.tasks = m]
    BY <1>9 DEF UpdateBegin
  <2> HIDE DEF m
  <2>4. step'.tasks = m /\ step'.status = step.status /\ StepInv'
    BY <2>1, <2>2, <2>3 DEF StepInv
  <2>5. OffersInv'
    BY <1>9, <2>1, <2>2, <2>4 DEF UpdateBegin, OffersInv
  <2>6. DriverInv'
    BY <1>9 DEF UpdateBegin, DriverInv, TypeOK
  <2> QED
    BY <1>9, <2>2, <2>4, <2>5, <2>6 DEF UpdateBegin, TypeOK, StoreTypeOK, HttpInv, IdsInv, HistoryInv, OffersInv
<1>10. CASE UpdateStore
  <2>1. override' \in [Tasks -> Overrides]
    BY <1>10, ProgressType DEF UpdateStore, OffersInv, OverrideReads, TypeOK, Overrides, StepStatuses
  <2>2. OffersInv'
    BY <1>10 DEF UpdateStore, OffersInv
  <2> QED
    BY <1>10, <2>1, <2>2
       DEF UpdateStore, Overrides, TypeOK, StoreTypeOK, StepInv, DriverInv, HttpInv, IdsInv, HistoryInv
<1>11. CASE UpdateEnd
  <2>1. StepInv' /\ step'.tasks = step.tasks
    BY <1>11, StepOfType DEF UpdateEnd, StepInv
  <2>2. OffersInv'
    BY <1>11, IdleType, NoIdsType DEF UpdateEnd, OffersInv
  <2>3. step'.status \in StepStatuses
    BY <2>1 DEF StepInv
  <2> QED
    BY <1>11, <2>1, <2>2, <2>3, IdleType
       DEF UpdateEnd, TypeOK, StoreTypeOK, DriverInv, HttpInv, IdsInv, HistoryInv
<1>12. CASE Recover
  <2>1. StepInv' /\ step'.tasks = NoIds /\ step'.status = "PENDING"
    BY <1>12, NoIdsType DEF Recover, NewStep, StepInv, StepStatuses
  <2>2. OffersInv' /\ DriverInv'
    BY <1>12 DEF Recover, OffersInv, DriverInv, TypeOK
  <2> QED
    BY <1>12, <2>1, <2>2, NoIdsType
       DEF Recover, TypeOK, StoreTypeOK, HttpInv, IdsInv, HistoryInv, StepStatuses
<1>13. ASSUME NEW id \in TaskIds, StatusUpdate(id) PROVE TypeInv'
  <2>1. Truth(id) \in LifeStates \cup {"LOST"} /\ id \in used
    BY <1>13 DEF StatusUpdate, Truth, IdsInv, TypeOK
  <2>2. driver' = NoStatus \/ \E t \in Tasks : driver' = [at |-> "write", id |-> id, state |-> Truth(id), read |-> t]
    <3> DEFINE known == {t \in NamesOf(id) : ~StatusRejected(t, StatusOf(id, StoredState(Truth(id))))}
    <3>1. known \subseteq Tasks
      BY DEF NamesOf
    <3>2. driver' = IF known = {} THEN NoStatus
                    ELSE [at |-> "write", id |-> id, state |-> Truth(id), read |-> CHOOSE t \in known : TRUE]
      BY <1>13 DEF StatusUpdate
    <3> HIDE DEF known
    <3> QED
      BY <3>1, <3>2
  <2>3. DriverInv' /\ driver'.at # "store"
    BY <1>13, <2>1, <2>2, IdleType DEF StatusUpdate, DriverInv
  <2> QED
    BY <1>13, <2>3 DEF StatusUpdate, TypeOK, StoreTypeOK, StepInv, OffersInv, DriverInv, HttpInv, IdsInv, HistoryInv
<1>14. CASE StatusWrite
  <2>1. /\ driver.id \in used /\ driver.read \in Tasks
        /\ StoredState(driver.state) \in TaskStates
    BY <1>14 DEF StatusWrite, DriverInv, StoredState, TaskStates, LifeStates
  <2>2. StatusOf(driver.id, StoredState(driver.state)) \in TaskStatuses
        /\ StatusOf(driver.id, StoredState(driver.state)).id \in used
    BY <2>1 DEF StatusOf, TaskStatuses, IdsInv
  <2>3. taskStatus' = [taskStatus EXCEPT ![driver.read] = StatusOf(driver.id, StoredState(driver.state))]
    BY <1>14 DEF StatusWrite, StoreStatus
  <2>4. StoreTypeOK' /\ IdsInv'
    BY <1>14, <2>2, <2>3 DEF StatusWrite, StoreTypeOK, IdsInv, TypeOK
  <2>5. DriverInv'
    BY <1>14 DEF StatusWrite, DriverInv
  <2>6. HistoryInv'
    BY <1>14 DEF StatusWrite, HistoryInv
  <2> QED
    BY <1>14, <2>4, <2>5, <2>6 DEF StatusWrite, TypeOK, StepInv, OffersInv, DriverInv, HttpInv
<1>15. CASE StepIgnores
  <2>1. HistoryInv'
    BY <1>15 DEF StepIgnores, HistoryInv, DriverInv, IdsInv
  <2>2. DriverInv'
    BY <1>15, IdleType DEF StepIgnores, DriverInv
  <2> QED
    BY <1>15, <2>1, <2>2, IdleType DEF StepIgnores, TypeOK, StoreTypeOK, StepInv, OffersInv, HttpInv, IdsInv, DriverInv
<1>16. CASE StepFetch
  <2>1. StatusFor(driver.state) \in StepStatuses
    BY <1>16 DEF StepFetch, DriverInv, LifeStates, StatusFor, StepStatuses
  <2>2. StepInv' /\ DOMAIN step.tasks' = DOMAIN step.tasks /\ step.status' = step.status
    BY <1>16, <2>1, SetTaskType DEF StepFetch, StepInv
  <2>3. [task |-> driver.read, override |-> override[driver.read]] \in OverrideReads
    BY <1>16, OverrideType DEF OverrideReads, StepFetch, DriverInv
  <2>4. DriverInv'
    BY <1>16, <2>2, <2>3 DEF StepFetch, DriverInv
  <2>5. OffersInv'
    BY <1>16, <2>2 DEF StepFetch, OffersInv
  <2>6. \A id \in DOMAIN step.tasks' : step.tasks'[id] \in StepStatuses
    BY <2>2, TaskMapsType DEF StepInv
  <2> QED
    BY <1>16, <2>2, <2>4, <2>5, <2>6 DEF StepFetch, TypeOK, StoreTypeOK, HttpInv, IdsInv, HistoryInv, DriverInv
<1>17. CASE StepStore
  <2>1. step.tasks[driver.id] \in StepStatuses
    BY <1>17, TaskMapsType DEF StepStore, DriverInv, StepInv
  <2>2. override' \in [Tasks -> Overrides]
    BY <1>17, <2>1, ProgressType DEF StepStore, DriverInv, OverrideReads, TypeOK, Overrides
  <2>3. StepInv' /\ step'.tasks = step.tasks
    BY <1>17, StepOfType DEF StepStore, StepInv
  <2>4. DriverInv' /\ OffersInv'
    BY <1>17, <2>3, IdleType DEF StepStore, DriverInv, OffersInv
  <2>5. step'.status \in StepStatuses
    BY <2>3 DEF StepInv
  <2> QED
    BY <1>17, <2>2, <2>3, <2>4, <2>5, IdleType
       DEF StepStore, Overrides, TypeOK, StoreTypeOK, HttpInv, IdsInv, HistoryInv
<1>18. ASSUME NEW target \in {"NONE", "PAUSED"}, OverrideFetch(target) PROVE TypeInv'
  <2>1. HttpInv'
    BY <1>18, RecordedType DEF OverrideFetch, HttpInv
  <2> QED
    BY <1>18, <2>1 DEF OverrideFetch, Fault, TypeOK, StoreTypeOK, StepInv, OffersInv, DriverInv, IdsInv, HistoryInv
<1>19. ASSUME NEW t \in Tasks, OverrideStore(t) PROVE TypeInv'
  <2>1. Override(http.read, "PENDING") \in Overrides
    BY <1>19 DEF OverrideStore, HttpInv, Override, Overrides
  <2>2. override' \in [Tasks -> Overrides]
    BY <1>19, <2>1 DEF OverrideStore, TypeOK, Overrides
  <2>3. HttpInv'
    BY <1>19 DEF OverrideStore, HttpInv
  <2> QED
    BY <1>19, <2>2, <2>3
       DEF OverrideStore, Overrides, TypeOK, StoreTypeOK, StepInv, OffersInv, DriverInv, IdsInv, HistoryInv
<1>20. CASE RestartFetch
  <2>1. HttpInv'
    BY <1>20, RecordedType DEF RestartFetch, HttpInv
  <2> QED
    BY <1>20, <2>1 DEF RestartFetch, Fault, TypeOK, StoreTypeOK, StepInv, OffersInv, DriverInv, IdsInv, HistoryInv
<1>21. CASE HttpKill
  <2>1. HistoryInv' /\ kills' \subseteq used
    BY <1>21 DEF HttpKill, Kill, HistoryInv, TypeOK, IdsInv, HttpInv
  <2>2. HttpInv'
    BY <1>21, IdleType, NoIdsType DEF HttpKill, HttpInv
  <2> QED
    <3>1. UNCHANGED <<storeVars, override, command, used, step, monitor, offers, driver, unreconciled,
                      life, unheard>>
      BY <1>21 DEF HttpKill
    <3>2. StepInv' /\ OffersInv' /\ DriverInv' /\ IdsInv'
      BY <3>1 DEF StepInv, OffersInv, DriverInv, IdsInv
    <3>3. TypeOK'
      BY <2>1, <3>1 DEF TypeOK, StoreTypeOK
    <3> QED
      BY <2>1, <2>2, <3>2, <3>3
<1>22. CASE RestartStep
  <2>1. StepInv' /\ step'.tasks = step.tasks
    BY <1>22 DEF RestartStep, StepInv, StepStatuses
  <2> QED
    BY <1>22, <2>1 DEF RestartStep, Fault, TypeOK, StoreTypeOK, StepInv, OffersInv, DriverInv, HttpInv, IdsInv, HistoryInv
<1>23. CASE ForceComplete
  <2>1. StepInv' /\ step'.tasks = step.tasks
    BY <1>23 DEF ForceComplete, StepInv, StepStatuses
  <2> QED
    BY <1>23, <2>1 DEF ForceComplete, Fault, TypeOK, StoreTypeOK, StepInv, OffersInv, DriverInv, HttpInv, IdsInv, HistoryInv
<1>24. ASSUME NEW id \in TaskIds, TaskRuns(id) PROVE TypeInv'
  <2>1. id \in used /\ life' \in [TaskIds -> LifeStates \cup {None}]
        /\ (\A i \in TaskIds : life'[i] # None => i \in used) /\ unheard' = unheard \cup {id}
    <3>1. life[id] \in {"STAGING", "RUNNING"} /\ (Becomes(id, "RUNNING") \/ Becomes(id, "READY"))
      BY <1>24 DEF TaskRuns
    <3>2. life[id] # None
      BY <3>1, NotALife DEF LifeStates
    <3> QED
      BY <3>1, <3>2, BecomesType DEF LifeStates
  <2>2. HistoryInv'
    BY <1>24 DEF TaskRuns, HistoryInv
  <2> QED
    BY <1>24, <2>1, <2>2 DEF TaskRuns, TypeOK, StoreTypeOK, StepInv, OffersInv, DriverInv, HttpInv, IdsInv
<1>25. ASSUME NEW id \in TaskIds, TaskFails(id) PROVE TypeInv'
  <2>1. id \in used /\ life' \in [TaskIds -> LifeStates \cup {None}]
        /\ (\A i \in TaskIds : life'[i] # None => i \in used) /\ unheard' = unheard \cup {id}
    <3>1. life[id] # None
      BY <1>25, NotALife DEF TaskFails, Alive, LifeStates
    <3> QED
      BY <1>25, <3>1, BecomesType DEF TaskFails, LifeStates
  <2> QED
    BY <1>25, <2>1 DEF TaskFails, Fault, TypeOK, StoreTypeOK, StepInv, OffersInv, DriverInv, HttpInv, IdsInv, HistoryInv
<1>26. ASSUME NEW id \in TaskIds, KillArrives(id) PROVE TypeInv'
  <2>1. id \in used /\ life' \in [TaskIds -> LifeStates \cup {None}]
        /\ (\A i \in TaskIds : life'[i] # None => i \in used) /\ unheard' \subseteq unheard \cup {id}
    <3>1. id \in used
      BY <1>26 DEF KillArrives, TypeOK
    <3>2. CASE Alive(id)
      <4>1. life[id] # None
        BY <3>2, NotALife DEF Alive, LifeStates
      <4> QED
        BY <1>26, <3>2, <4>1, BecomesType DEF KillArrives, LifeStates
    <3>3. CASE ~Alive(id)
      BY <1>26, <3>1, <3>3 DEF KillArrives, IdsInv
    <3> QED
      BY <3>2, <3>3
  <2>2. HistoryInv'
    BY <1>26 DEF KillArrives, HistoryInv
  <2> QED
    BY <1>26, <2>1, <2>2 DEF KillArrives, TypeOK, StoreTypeOK, StepInv, OffersInv, DriverInv, HttpInv, IdsInv
<1>27. ASSUME NEW id \in TaskIds, Resend(id) PROVE TypeInv'
  <2>1. id \in used
    BY <1>27 DEF Resend, IdsInv
  <2> QED
    BY <1>27, <2>1 DEF Resend, Fault, TypeOK, StoreTypeOK, StepInv, OffersInv, DriverInv, HttpInv, IdsInv, HistoryInv
<1>28. CASE Crash
  <2>1. /\ RepairedInfo \in [Tasks -> used \cup {None}]
        /\ RepairedStatus \in [Tasks -> TaskStatuses \cup {None}]
        /\ \A t \in Tasks : RepairedStatus[t] # None => RepairedStatus[t].id \in used
    BY RepairedType DEF TypeOK
  <2>2. StoreTypeOK' /\ IdsInv'
    BY <1>28, <2>1 DEF Crash, StoreTypeOK, IdsInv
  <2>3. StepInv' /\ step'.tasks = NoIds /\ step'.status \in StepStatuses
    BY <1>28, NoIdsType DEF Crash, StepInv, InitialStatus, StepStatuses
  <2>4. OffersInv' /\ DriverInv' /\ HttpInv'
    BY <1>28, IdleType, NoIdsType DEF Crash, OffersInv, DriverInv, HttpInv
  <2>5. PendingOverrides \ {None} \subseteq used
    BY <2>1 DEF PendingOverrides
  <2>6. HistoryInv'
    <3>1. PendingOverrides \ {None} \subseteq TaskIds
      BY <2>5 DEF IdsInv
    <3> HIDE DEF PendingOverrides
    <3>2. history' = [history EXCEPT !.asked = @ \cup (PendingOverrides \ {None}), !.missed = {}]
      BY <1>28 DEF Crash
    <3>3. faults' \in Nat
      BY <1>28 DEF Crash, Fault, HistoryInv
    <3> QED
      BY <3>1, <3>2, <3>3 DEF HistoryInv
  <2>7. unreconciled' \subseteq used
    BY <1>28, <2>1 DEF Crash
  <2>8. kills' \subseteq used
    <3>1. kills' = PendingOverrides \ {None} \/ kills' = kills \cup (PendingOverrides \ {None})
      BY <1>28 DEF Crash
    <3> QED
      BY <2>5, <3>1 DEF TypeOK
  <2>9. unheard' \subseteq used
    <3>1. {id \in TaskIds : Alive(id)} \subseteq used
      BY StoreAssumption DEF Alive, IdsInv
    <3> QED
      BY <1>28, <2>7, <3>1 DEF Crash, TypeOK
  <2> QED
    BY <1>28, <2>2, <2>3, <2>4, <2>6, <2>7, <2>8, <2>9, IdleType, NoIdsType DEF Crash, TypeOK
<1>29. CASE UNCHANGED vars
  BY <1>29 DEF vars, TypeOK, StoreTypeOK, StepInv, OffersInv, DriverInv, HttpInv, IdsInv, HistoryInv
<1> QED
  BY <1>1, <1>2, <1>3, <1>4, <1>5, <1>6, <1>7, <1>8, <1>9, <1>10,
     <1>11, <1>12, <1>13, <1>14, <1>15, <1>16, <1>17, <1>18, <1>19, <1>20,
     <1>21, <1>22, <1>23, <1>24, <1>25, <1>26, <1>27, <1>28, <1>29
     DEF Next, OfferThread, DriverThread, HttpThread, Mesos

(* The records stay well formed, the monitor is held by the thread that is  *)
(* in the middle of a synchronized method of the step, and the step, Mesos  *)
(* and the kills on their way know ids of launches only.                    *)
THEOREM TypeCorrect == Spec => []TypeOK
<1>1. TypeInv => TypeOK
  BY DEF TypeInv
<1> QED
  BY <1>1, InitTypeInv, NextTypeInv, PTL DEF Spec

-----------------------------------------------------------------------------
(* 3. What is COMPLETE was ready                                            *)

LEMMA InitReadyInv == Init => ReadyInv
BY NotALife DEF Init, ReadyInv, NoStatus, NewStep, NoIds, LifeStates

(* A launch has as many ids as the pod has tasks.                           *)
LEMMA LaunchSize ==
    ASSUME NEW ids \in Launches
    PROVE  Cardinality(Ids(ids)) = Cardinality(Tasks)
<1>1. IsFiniteSet(Tasks)
  BY StepsAssumption
<1>2. ids \in Bijection(Tasks, Ids(ids))
  BY LaunchIds DEF Launches, Bijection, Injection, Surjection, IsInjective
<1> QED
  BY <1>1, <1>2, FS_Bijection DEF ExistsBijection

(* The steps that concern the driver's thread, the step's tasks or what     *)
(* Mesos knows; the others change nothing that ReadyInv mentions.           *)
LEMMA NextReadyInv == StepsInv /\ [Next]_vars => ReadyInv'
<1> SUFFICES ASSUME TypeInv, ReadyInv, [Next]_vars PROVE ReadyInv'
  BY DEF StepsInv
<1> DEFINE Same == UNCHANGED <<step, driver, life>> /\ history.ready \subseteq history'.ready
<1>0. Same => ReadyInv'
  BY DEF ReadyInv
<1> HIDE DEF Same
<1> USE DEF processVars, mesosVars
<1>1. CASE KillTasks
  <2>1. Same
    BY <1>1 DEF KillTasks, Kill, TypeInv, HistoryInv, Same
  <2> QED
    BY <1>0, <2>1
<1>2. CASE EvaluateNothing \/ Evaluate \/ RecordStatus \/ UpdateStore
           \/ \E t \in Tasks : RecordInfo(t)
  <2>1. Same
    BY <1>2 DEF EvaluateNothing, Evaluate, RecordStatus, UpdateStore, RecordInfo, Same
  <2> QED
    BY <1>0, <2>1
<1>3. CASE AcceptOffers
  BY <1>3 DEF AcceptOffers, ReadyInv
<1>4. CASE UpdateEmpty
  BY <1>4, StepOfType, NoIdsType DEF UpdateEmpty, ReadyInv
<1>5. CASE UpdateBegin
  <2> DEFINE m == [id \in Ids(offers.ids) |-> "PREPARED"]
  <2>1. step'.tasks = m
    BY <1>5 DEF UpdateBegin, TypeInv, StepInv
  <2>2. \A id \in DOMAIN m : m[id] # "COMPLETE"
    OBVIOUS
  <2> HIDE DEF m
  <2> QED
    BY <1>5, <2>1, <2>2 DEF UpdateBegin, ReadyInv
<1>6. ASSUME NEW t \in Tasks, UpdateFetch(t) PROVE ReadyInv'
  <2>1. /\ DOMAIN step'.tasks = DOMAIN step.tasks
        /\ \A id \in DOMAIN step.tasks : step'.tasks[id] \in {"STARTING", step.tasks[id]}
    BY <1>6, SetTaskType DEF UpdateFetch, TypeInv, StepInv, StepStatuses
  <2> QED
    BY <1>6, <2>1 DEF UpdateFetch, ReadyInv
<1>7. CASE UpdateEnd
  <2>1. step'.tasks = step.tasks
    BY <1>7, StepOfType DEF UpdateEnd, TypeInv, StepInv
  <2> QED
    BY <1>7, <2>1 DEF UpdateEnd, ReadyInv
<1>8. CASE Recover
  BY <1>8, NoIdsType DEF Recover, NewStep, ReadyInv
<1>9. ASSUME NEW id \in TaskIds, StatusUpdate(id) PROVE ReadyInv'
  <2>1. Truth(id) = "READY" => id \in history.ready
    BY DEF Truth, ReadyInv
  <2>2. driver' = NoStatus \/ (driver'.id = id /\ driver'.state = Truth(id))
    BY <1>9 DEF StatusUpdate
  <2> QED
    BY <1>9, <2>1, <2>2, IdleType DEF StatusUpdate, ReadyInv
<1>10. CASE StatusWrite
  BY <1>10 DEF StatusWrite, ReadyInv, TypeInv, DriverInv, HistoryInv
<1>11. CASE StepIgnores
  BY <1>11, IdleType DEF StepIgnores, ReadyInv, TypeInv, HistoryInv
<1>12. CASE StepFetch
  <2>1. driver.state \in LifeStates \cup {"LOST"}
    BY <1>12 DEF StepFetch, TypeInv, DriverInv
  <2>2. StatusFor(driver.state) \in StepStatuses
    BY <2>1 DEF LifeStates, StatusFor, StepStatuses
  <2>3. StatusFor(driver.state) = "COMPLETE" => driver.id \in history.ready
    BY <1>12, <2>1 DEF LifeStates, StatusFor, StepFetch, ReadyInv
  <2>4. /\ DOMAIN step'.tasks = DOMAIN step.tasks
        /\ \A id \in DOMAIN step.tasks :
              step'.tasks[id] = IF id = driver.id THEN StatusFor(driver.state) ELSE step.tasks[id]
    BY <1>12, <2>2, SetTaskType DEF StepFetch, TypeInv, StepInv
  <2>5. driver'.id = driver.id /\ driver'.state = driver.state
    BY <1>12 DEF StepFetch, TypeInv, DriverInv
  <2> QED
    BY <1>12, <2>3, <2>4, <2>5 DEF StepFetch, ReadyInv
<1>13. CASE StepStore
  <2>1. step'.tasks = step.tasks
    BY <1>13, StepOfType DEF StepStore, TypeInv, StepInv
  <2> QED
    BY <1>13, <2>1, IdleType DEF StepStore, ReadyInv
<1>14. CASE HttpThread
  <2>1. CASE HttpKill
    <3>1. Same
      BY <2>1 DEF HttpKill, Kill, TypeInv, HistoryInv, Same
    <3> QED
      BY <1>0, <3>1
  <2>2. CASE RestartStep \/ ForceComplete
    <3>1. step'.tasks = step.tasks
      BY <2>2 DEF RestartStep, ForceComplete, TypeInv, StepInv
    <3> QED
      BY <2>2, <3>1 DEF RestartStep, ForceComplete, ReadyInv
  <2>3. CASE RestartFetch \/ (\E target \in {"NONE", "PAUSED"} : OverrideFetch(target))
             \/ (\E t \in Tasks : OverrideStore(t))
    <3>1. Same
      BY <2>3 DEF RestartFetch, OverrideFetch, OverrideStore, Same
    <3> QED
      BY <1>0, <3>1
  <2> QED
    BY <1>14, <2>1, <2>2, <2>3 DEF HttpThread
<1>15. ASSUME NEW id \in TaskIds, TaskRuns(id) PROVE ReadyInv'
  BY <1>15 DEF TaskRuns, Becomes, ReadyInv, TypeInv, IdsInv, HistoryInv
<1>16. ASSUME NEW id \in TaskIds, TaskFails(id) PROVE ReadyInv'
  BY <1>16 DEF TaskFails, Becomes, ReadyInv, TypeInv, IdsInv
<1>17. ASSUME NEW id \in TaskIds, KillArrives(id) PROVE ReadyInv'
  BY <1>17 DEF KillArrives, Becomes, ReadyInv, TypeInv, IdsInv, HistoryInv
<1>18. ASSUME NEW id \in TaskIds, Resend(id) PROVE ReadyInv'
  BY <1>18 DEF Resend, ReadyInv
<1>19. CASE Crash
  BY <1>19, IdleType, NoIdsType DEF Crash, ReadyInv, TypeInv, HistoryInv
<1>20. CASE UNCHANGED vars
  BY <1>20 DEF vars, ReadyInv
<1> QED
  BY <1>1, <1>2, <1>3, <1>4, <1>5, <1>6, <1>7, <1>8, <1>9, <1>10,
     <1>11, <1>12, <1>13, <1>14, <1>15, <1>16, <1>17, <1>18, <1>19, <1>20
     DEF Next, OfferThread, DriverThread, Mesos

LEMMA StepsInductive == Spec => []StepsInv
<1>1. Init => StepsInv
  BY InitTypeInv, InitReadyInv DEF StepsInv
<1>2. StepsInv /\ [Next]_vars => StepsInv'
  BY NextTypeInv, NextReadyInv DEF StepsInv
<1> QED
  BY <1>1, <1>2, PTL DEF Spec

-----------------------------------------------------------------------------
(* 4. A step completes on its goal                                          *)

(* What makes a step COMPLETE other than a request or a new process.        *)
LEMMA CompletesStep ==
    ASSUME StepsInv, [Next]_vars,
           step.status # "COMPLETE", step'.status = "COMPLETE", faults' = faults
    PROVE  DOMAIN step.tasks # {} /\ \A id \in DOMAIN step.tasks : step.tasks[id] = "COMPLETE"
<1> USE DEF processVars, mesosVars
<1> DEFINE Goal == DOMAIN step.tasks # {} /\ \A id \in DOMAIN step.tasks : step.tasks[id] = "COMPLETE"
<1>1. faults # faults + 1
  BY DEF StepsInv, TypeInv, HistoryInv
<1>2. ~Fault
  BY <1>1 DEF Fault
<1>3. step' # step
  OBVIOUS
<1>4. step \in [status : StepStatuses, tasks : TaskMaps]
  BY DEF StepsInv, TypeInv, StepInv
<1>5. CASE UpdateEnd \/ StepStore
  <2>1. step' = StepOf(step.tasks)
    BY <1>5 DEF UpdateEnd, StepStore
  <2> QED
    BY <1>4, <2>1, StepOfType
<1>6. CASE UpdateEmpty
  BY <1>6, NoIdsType, StepOfType DEF UpdateEmpty
<1>7. CASE UpdateBegin
  BY <1>4, <1>7 DEF UpdateBegin
<1>8. ASSUME NEW t \in Tasks, UpdateFetch(t) PROVE Goal
  BY <1>4, <1>8, SetTaskType DEF UpdateFetch, StepStatuses
<1>9. CASE StepFetch
  <2>1. StatusFor(driver.state) \in StepStatuses
    BY <1>9 DEF StepFetch, StepsInv, TypeInv, DriverInv, LifeStates, StatusFor, StepStatuses
  <2> QED
    BY <1>4, <1>9, <2>1, SetTaskType DEF StepFetch
<1>10. CASE Recover
  BY <1>10 DEF Recover, NewStep
<1>11. ~HttpThread \/ UNCHANGED step
  BY <1>2 DEF HttpThread, OverrideFetch, OverrideStore, RestartFetch, HttpKill, RestartStep, ForceComplete
<1>12. ~Crash
  BY <1>2 DEF Crash
<1>13. ~Mesos \/ UNCHANGED step
  BY DEF Mesos, TaskRuns, TaskFails, KillArrives, Resend
<1>14. KillTasks \/ EvaluateNothing \/ Evaluate \/ RecordStatus \/ AcceptOffers \/ UpdateStore
       \/ (\E t \in Tasks : RecordInfo(t)) => UNCHANGED step
  BY DEF KillTasks, EvaluateNothing, Evaluate, RecordStatus, AcceptOffers, UpdateStore, RecordInfo
<1>15. StatusWrite \/ StepIgnores \/ (\E id \in TaskIds : StatusUpdate(id)) => UNCHANGED step
  BY DEF StatusWrite, StepIgnores, StatusUpdate
<1>16. UNCHANGED vars => UNCHANGED step
  BY DEF vars
<1> HIDE DEF Goal
<1>17. Goal
  BY <1>3, <1>5, <1>6, <1>7, <1>8, <1>9, <1>10, <1>11, <1>12, <1>13, <1>14, <1>15, <1>16
     DEF Next, OfferThread, DriverThread, Goal
<1> QED
  BY <1>17 DEF Goal

(* A step that becomes COMPLETE without a request and without a new process *)
(* had launched all the pod's tasks, and Mesos has reported every one of    *)
(* them ready: no old status, repeated status or lost race completes it.    *)
THEOREM CompletesOnGoal == Spec => CompletesOnlyOnGoal
<1> DEFINE Ready == (step.status # "COMPLETE" /\ step'.status = "COMPLETE" /\ faults' = faults)
        => /\ Cardinality(DOMAIN step.tasks) = Cardinality(Tasks)
           /\ DOMAIN step.tasks \subseteq history.ready
<1>1. StepsInv /\ [Next]_vars => [Ready]_vars
  <2> SUFFICES ASSUME StepsInv, [Next]_vars,
                      step.status # "COMPLETE", step'.status = "COMPLETE", faults' = faults
               PROVE  /\ Cardinality(DOMAIN step.tasks) = Cardinality(Tasks)
                      /\ DOMAIN step.tasks \subseteq history.ready
    OBVIOUS
  <2>1. DOMAIN step.tasks # {} /\ \A id \in DOMAIN step.tasks : step.tasks[id] = "COMPLETE"
    BY CompletesStep
  <2>2. PICK ids \in Launches : DOMAIN step.tasks = Ids(ids)
    BY <2>1 DEF StepsInv, TypeInv, StepInv
  <2>3. Cardinality(DOMAIN step.tasks) = Cardinality(Tasks)
    BY <2>2, LaunchSize
  <2>4. DOMAIN step.tasks \subseteq history.ready
    BY <2>1 DEF StepsInv, ReadyInv
  <2> QED
    BY <2>3, <2>4
<1> QED
  BY <1>1, StepsInductive, PTL DEF Spec, CompletesOnlyOnGoal

-----------------------------------------------------------------------------
(* 5. What a launch replaces is asked to die                                *)

(* The offer thread has killed what was there, and launched nothing yet.    *)
Launching == offers.at \in {"evaluate", "info", "status", "accept"}

(* The offer thread is between TaskInfo and TaskStatus of t.                *)
HalfRecorded(t) == offers.at = "status" /\ offers.read = t

Wanted == {id \in TaskIds : Alive(id) /\ id \notin history.asked}

(* A terminal status that the driver's thread carries is true and stays so. *)
FailedInv == driver.at # "idle" /\ driver.state = "FAILED" => life[driver.id] = "FAILED"

(* Mesos does not know the tasks of a launch before offers are accepted, and*)
(* their TaskInfo is the one of the names whose turn has come.              *)
RecordsInv ==
    offers.at \in {"info", "status", "accept"} =>
        /\ \A t \in Tasks : life[offers.ids[t]] = None
        /\ \A t \in Tasks : t \notin offers.todo \/ HalfRecorded(t) => taskInfo[t] = offers.ids[t]
        /\ offers.at = "status" => offers.read \in offers.todo
        /\ offers.at = "accept" => offers.todo = {}

(* The record of t has a status of the task that its TaskInfo names.        *)
InSync(t) == taskInfo[t] # None => taskStatus[t] # None /\ taskStatus[t].id = taskInfo[t]

NotOver(t) == taskStatus[t] # None /\ ~IsTerminal(taskStatus[t].state)

(* Without torn records, what is alive and wanted is recorded as not over,  *)
(* so that the kill before the next launch asks all of it to die.           *)
SoundInv ==
    /\ \A t \in Tasks : ~HalfRecorded(t) => InSync(t)
    /\ offers.at \in {"info", "status", "accept"} => \A t \in Tasks \ offers.todo : NotOver(t)
    /\ IF Launching THEN Wanted = {}
       ELSE \A id \in Wanted : \E t \in Tasks : taskInfo[t] = id /\ NotOver(t)

TwinsInv == FailedInv /\ RecordsInv /\ (~history.torn => SoundInv)

LEMMA InitTwinsInv == Init => TwinsInv
<1> SUFFICES ASSUME Init PROVE TwinsInv
  OBVIOUS
<1>1. offers.at = "idle" /\ driver.at = "idle"
  BY IdleType DEF Init
<1>2. Wanted = {}
  BY NotALife DEF Init, Wanted, Alive, LifeStates
<1>3. \A t \in Tasks : InSync(t)
  BY DEF Init, InSync
<1> QED
  BY <1>1, <1>2, <1>3 DEF TwinsInv, FailedInv, RecordsInv, SoundInv, Launching

(* No step but AcceptOffers wakes a task or makes it wanted again, and what *)
(* has failed stays so.                                                     *)
LEMMA LifeMoves ==
    ASSUME TypeInv, RecordsInv, [Next]_vars
    PROVE  /\ \A id \in TaskIds : life[id] = "FAILED" => life'[id] = "FAILED"
           /\ AcceptOffers \/ Wanted' \subseteq Wanted
           /\ AcceptOffers \/ \A id \in TaskIds : life[id] = None => life'[id] = None
           /\ history.torn => history'.torn
<1> DEFINE Goal ==
        /\ \A id \in TaskIds : life[id] = "FAILED" => life'[id] = "FAILED"
        /\ AcceptOffers \/ Wanted' \subseteq Wanted
        /\ AcceptOffers \/ \A id \in TaskIds : life[id] = None => life'[id] = None
        /\ history.torn => history'.torn
<1> DEFINE Same == UNCHANGED life /\ history.asked \subseteq history'.asked
                   /\ (history.torn => history'.torn)
<1> SUFFICES Goal
  OBVIOUS
<1>0. Same => Goal
  BY DEF Wanted, Alive
<1>0a. history \in [asked : SUBSET TaskIds, ready : SUBSET TaskIds, torn : BOOLEAN,
                    missed : SUBSET TaskIds]
  BY DEF TypeInv, HistoryInv
<1>0b. life \in [TaskIds -> LifeStates \cup {None}] /\ None \notin LifeStates
  BY NotALife DEF TypeInv, IdsInv
<1> HIDE DEF Goal, Same
<1> USE DEF processVars, mesosVars
<1>1. CASE KillTasks \/ HttpKill
  <2>1. UNCHANGED life /\ (Kill(ToKill) \/ Kill(Ids(http.ids)))
    BY <1>1 DEF KillTasks, HttpKill
  <2>2. Same
    BY <1>0a, <2>1 DEF Kill, Same
  <2> QED
    BY <1>0, <2>2
<1>2. CASE \/ EvaluateNothing \/ Evaluate \/ RecordStatus \/ UpdateEmpty \/ UpdateBegin \/ UpdateStore
           \/ UpdateEnd \/ Recover
           \/ \E t \in Tasks : RecordInfo(t) \/ UpdateFetch(t)
  <2>1. Same
    BY <1>2 DEF EvaluateNothing, Evaluate, RecordStatus, UpdateEmpty, UpdateBegin, UpdateStore,
       UpdateEnd, Recover, RecordInfo, UpdateFetch, Same
  <2> QED
    BY <1>0, <2>1
<1>3. CASE \/ StatusWrite \/ StepIgnores \/ StepFetch \/ StepStore
           \/ \E id \in TaskIds : StatusUpdate(id)
  <2>1. Same
    BY <1>0a, <1>3 DEF StatusWrite, StepIgnores, StepFetch, StepStore, StatusUpdate, Same
  <2> QED
    BY <1>0, <2>1
<1>4. CASE \/ RestartFetch \/ RestartStep \/ ForceComplete
           \/ (\E target \in {"NONE", "PAUSED"} : OverrideFetch(target))
           \/ \E t \in Tasks : OverrideStore(t)
  <2>1. Same
    BY <1>4 DEF RestartFetch, RestartStep, ForceComplete, OverrideFetch, OverrideStore, Same
  <2> QED
    BY <1>0, <2>1
<1>5. CASE AcceptOffers
  <2>1. /\ life' = [id \in TaskIds |-> IF id \in Ids(offers.ids) THEN "STAGING" ELSE life[id]]
        /\ UNCHANGED history /\ offers.at = "accept"
    BY <1>5 DEF AcceptOffers
  <2>2. \A id \in Ids(offers.ids) : life[id] = None
    BY <2>1, LaunchIds DEF RecordsInv, TypeInv, OffersInv
  <2> QED
    BY <1>0b, <1>5, <2>1, <2>2 DEF Goal, LifeStates
<1>6. ASSUME NEW id \in TaskIds, TaskRuns(id) PROVE Goal
  <2>1. /\ life[id] \in {"STAGING", "RUNNING"}
        /\ \A i \in TaskIds \ {id} : life'[i] = life[i]
        /\ life'[id] \in {"RUNNING", "READY"}
        /\ history'.asked = history.asked /\ history'.torn = history.torn
    BY <1>0a, <1>0b, <1>6 DEF TaskRuns, Becomes
  <2> QED
    BY <1>0b, <2>1 DEF Goal, Wanted, Alive, LifeStates
<1>7. ASSUME NEW id \in TaskIds, TaskFails(id) PROVE Goal
  <2>1. /\ Alive(id) /\ UNCHANGED history
        /\ \A i \in TaskIds \ {id} : life'[i] = life[i]
        /\ life'[id] = "FAILED"
    BY <1>0b, <1>7 DEF TaskFails, Becomes
  <2> QED
    BY <1>0b, <2>1 DEF Goal, Wanted, Alive, LifeStates
<1>8. ASSUME NEW id \in TaskIds, KillArrives(id) PROVE Goal
  <2>1. /\ \A i \in TaskIds \ {id} : life'[i] = life[i]
        /\ life'[id] = IF Alive(id) THEN "FAILED" ELSE life[id]
        /\ history'.torn = history.torn
        /\ history'.asked = IF life[id] = None THEN history.asked \ {id} ELSE history.asked
    BY <1>0a, <1>0b, <1>8 DEF KillArrives, Becomes
  <2>2. life[id] = None => ~Alive(id)
    BY <1>0b DEF Alive, LifeStates
  <2> QED
    BY <1>0b, <2>1, <2>2 DEF Goal, Wanted, Alive, LifeStates
<1>9. CASE \E id \in TaskIds : Resend(id)
  <2>1. Same
    BY <1>9 DEF Resend, Same
  <2> QED
    BY <1>0, <2>1
<1>10. CASE Crash
  <2>1. Same
    BY <1>0a, <1>10 DEF Crash, Same
  <2> QED
    BY <1>0, <2>1
<1>11. CASE UNCHANGED vars
  <2>1. Same
    BY <1>11 DEF vars, Same
  <2> QED
    BY <1>0, <2>1
<1> QED
  BY <1>1, <1>2, <1>3, <1>4, <1>5, <1>6, <1>7, <1>8, <1>9, <1>10, <1>11
     DEF Next, OfferThread, DriverThread, HttpThread, Mesos

(* The state that the driver's thread reads of a task that failed is true.  *)
LEMMA NextFailedInv == TypeInv /\ RecordsInv /\ FailedInv /\ [Next]_vars => FailedInv'
<1> SUFFICES ASSUME TypeInv, RecordsInv, FailedInv, [Next]_vars PROVE FailedInv'
  OBVIOUS
<1> USE DEF processVars, mesosVars
<1>1. \A id \in TaskIds : life[id] = "FAILED" => life'[id] = "FAILED"
  BY LifeMoves
<1>2. driver.at # "idle" => driver.id \in TaskIds
  BY DEF TypeInv, DriverInv, IdsInv
<1>3. CASE UNCHANGED <<driver.at, driver.id, driver.state>>
  BY <1>1, <1>2, <1>3 DEF FailedInv
<1>4. CASE driver' = NoStatus
  BY <1>4, IdleType DEF FailedInv
<1>5. ASSUME NEW id \in TaskIds, StatusUpdate(id) PROVE FailedInv'
  <2>1. driver' = NoStatus \/ (driver'.id = id /\ driver'.state = Truth(id))
    BY <1>5 DEF StatusUpdate
  <2>2. UNCHANGED life
    BY <1>5 DEF StatusUpdate
  <2>3. Truth(id) = "FAILED" => life[id] = "FAILED"
    BY DEF Truth
  <2> QED
    BY <1>4, <2>1, <2>2, <2>3 DEF FailedInv
<1>6. CASE StatusWrite \/ StepFetch
  <2>1. /\ driver'.id = driver.id /\ driver'.state = driver.state
        /\ driver.at # "idle" /\ UNCHANGED life
    BY <1>6 DEF StatusWrite, StepFetch, TypeInv, DriverInv
  <2> QED
    BY <2>1 DEF FailedInv
<1>7. CASE OfferThread
  BY <1>3, <1>7 DEF OfferThread, KillTasks, EvaluateNothing, Evaluate, RecordInfo, UpdateFetch,
     RecordStatus, AcceptOffers, UpdateEmpty, UpdateBegin, UpdateStore, UpdateEnd, Recover
<1>8. CASE HttpThread
  BY <1>3, <1>8 DEF HttpThread, OverrideFetch, OverrideStore, RestartFetch, HttpKill, RestartStep,
     ForceComplete
<1>9. CASE Mesos \/ UNCHANGED vars
  BY <1>3, <1>9 DEF Mesos, TaskRuns, TaskFails, KillArrives, Resend, vars
<1>10. CASE StepIgnores \/ StepStore \/ Crash
  BY <1>4, <1>10 DEF StepIgnores, StepStore, Crash
<1> QED
  BY <1>5, <1>6, <1>7, <1>8, <1>9, <1>10 DEF Next, DriverThread

LEMMA NextRecordsInv == TypeInv /\ RecordsInv /\ [Next]_vars => RecordsInv'
<1> SUFFICES ASSUME TypeInv, RecordsInv, [Next]_vars PROVE RecordsInv'
  OBVIOUS
<1> USE DEF processVars, mesosVars, storeVars
<1>1. CASE UNCHANGED <<taskInfo, offers>> /\ ~AcceptOffers
  <2>1. \A id \in TaskIds : life[id] = None => life'[id] = None
    BY <1>1, LifeMoves
  <2>2. offers.at \in {"info", "status", "accept"} => \A t \in Tasks : offers.ids[t] \in TaskIds
    BY LaunchIds DEF TypeInv, OffersInv
  <2> QED
    BY <1>1, <2>1, <2>2 DEF RecordsInv, HalfRecorded
<1>2. CASE offers'.at \notin {"info", "status", "accept"}
  BY <1>2 DEF RecordsInv
<1>3. CASE Evaluate
  <2>1. PICK ids \in [Tasks -> TaskIds \ used] :
            offers' = [at |-> "info", ids |-> ids, todo |-> Tasks, read |-> None]
    BY <1>3 DEF Evaluate
  <2>2. \A t \in Tasks : life[ids[t]] = None
    BY <2>1 DEF TypeInv, IdsInv
  <2>3. UNCHANGED life
    BY <1>3 DEF Evaluate
  <2> QED
    BY <2>1, <2>2, <2>3 DEF RecordsInv, HalfRecorded
<1>4. ASSUME NEW t \in Tasks, RecordInfo(t) PROVE RecordsInv'
  <2>1. taskInfo' = [u \in Tasks |-> IF u = t THEN offers.ids[t] ELSE taskInfo[u]]
    BY <1>4 DEF RecordInfo, StoreTasks
  <2>2. /\ offers.at = "info" /\ offers'.at = "status" /\ offers'.read = t /\ t \in offers.todo
        /\ offers'.ids = offers.ids /\ offers'.todo = offers.todo /\ UNCHANGED life
    BY <1>4 DEF RecordInfo, TypeInv, OffersInv
  <2> QED
    BY <2>1, <2>2 DEF RecordsInv, HalfRecorded
<1>5. CASE RecordStatus
  <2>1. /\ offers.at = "status" /\ offers.read \in offers.todo /\ offers.todo \subseteq Tasks
        /\ offers'.at = IF offers.todo = {offers.read} THEN "accept" ELSE "info"
        /\ offers'.todo = offers.todo \ {offers.read}
        /\ offers'.ids = offers.ids /\ UNCHANGED <<life, taskInfo>>
    BY <1>5 DEF RecordStatus, RecordsInv, TypeInv, OffersInv
  <2>2. \A t \in Tasks \ offers'.todo : t \notin offers.todo \/ HalfRecorded(t)
    BY <2>1 DEF HalfRecorded
  <2> QED
    BY <2>1, <2>2 DEF RecordsInv, HalfRecorded
<1>6. CASE KillTasks \/ EvaluateNothing \/ AcceptOffers
  BY <1>2, <1>6 DEF KillTasks, EvaluateNothing, AcceptOffers, TypeInv, OffersInv
<1>7. CASE UpdateEmpty \/ UpdateBegin \/ UpdateStore \/ UpdateEnd \/ \E t \in Tasks : UpdateFetch(t)
  BY <1>2, <1>7, IdleType DEF UpdateEmpty, UpdateBegin, UpdateStore, UpdateEnd, UpdateFetch, TypeInv, OffersInv
<1>8. CASE Recover
  <2>1. UNCHANGED <<taskInfo, offers>> /\ offers.at = "idle"
    BY <1>8 DEF Recover
  <2> QED
    BY <1>2, <2>1
<1>9. CASE DriverThread \/ HttpThread \/ Mesos \/ UNCHANGED vars
  <2>1. UNCHANGED <<taskInfo, offers>>
    BY <1>9 DEF DriverThread, StatusUpdate, StatusWrite, StepIgnores, StepFetch, StepStore, HttpThread,
       OverrideFetch, OverrideStore, RestartFetch, HttpKill, RestartStep, ForceComplete, Mesos, TaskRuns,
       TaskFails, KillArrives, Resend, vars
  <2>2. ~AcceptOffers
    BY <2>1 DEF AcceptOffers, TypeInv, OffersInv
  <2> QED
    BY <1>1, <2>1, <2>2
<1>10. CASE Crash
  BY <1>2, <1>10, IdleType DEF Crash
<1> QED
  BY <1>3, <1>4, <1>5, <1>6, <1>7, <1>8, <1>9, <1>10 DEF Next, OfferThread

(* Steps that write no record and make nothing wanted.                      *)
LEMMA SoundFrame ==
    ASSUME SoundInv, UNCHANGED <<taskInfo, taskStatus, offers>>, Wanted' \subseteq Wanted
    PROVE  SoundInv'
BY DEF SoundInv, HalfRecorded, InSync, NotOver, Launching

LEMMA SoundMoves ==
    ASSUME SoundInv, UNCHANGED <<taskInfo, taskStatus>>, Wanted' \subseteq Wanted,
           offers.at \notin {"info", "status", "accept"},
           offers'.at \notin {"info", "status", "accept"},
           Launching' => Wanted' = {}
    PROVE  SoundInv'
<1>1. \A t \in Tasks : InSync(t)'
  BY DEF SoundInv, HalfRecorded, InSync
<1>2. \A t \in Tasks : NotOver(t) => NotOver(t)'
  BY DEF NotOver
<1>3. ~Launching' => \A id \in Wanted' : \E t \in Tasks : taskInfo'[t] = id /\ NotOver(t)'
  BY <1>2 DEF SoundInv
<1> QED
  BY <1>1, <1>3 DEF SoundInv

(* What runs after the repair of the records of a new process.              *)
LEMMA RepairedSync ==
    ASSUME TypeInv, NEW t \in Tasks
    PROVE  /\ RepairedInfo[t] # None => RepairedStatus[t] # None /\ RepairedStatus[t].id = RepairedInfo[t]
           /\ taskInfo[t] # None /\ InSync(t) =>
                 RepairedInfo[t] = taskInfo[t] /\ RepairedStatus[t] = taskStatus[t]
<1> USE StoreAssumption DEF TypeInv, TypeOK, StoreTypeOK
<1>1. RepairedInfo[t] = IF taskStatus[t] = None THEN taskInfo[t] ELSE taskStatus[t].id
  BY DEF RepairedInfo
<1>2. RepairedStatus[t] =
        IF taskInfo[t] = RepairedInfo[t] /\ (taskInfo[t] # None => taskStatus[t] # None)
        THEN taskStatus[t] ELSE StatusOf(RepairedInfo[t], "FAILED")
  BY DEF RepairedStatus
<1>3. CASE taskInfo[t] = RepairedInfo[t] /\ (taskInfo[t] # None => taskStatus[t] # None)
  BY <1>1, <1>2, <1>3 DEF InSync
<1>4. CASE ~(taskInfo[t] = RepairedInfo[t] /\ (taskInfo[t] # None => taskStatus[t] # None))
  <2>1. RepairedStatus[t] = StatusOf(RepairedInfo[t], "FAILED")
    BY <1>2, <1>4
  <2>2. RepairedInfo[t] # None =>
            RepairedInfo[t] \in TaskIds /\ StatusOf(RepairedInfo[t], "FAILED") \in TaskStatuses
    BY RepairedType DEF IdsInv, StatusOf, TaskStatuses, TaskStates
  <2>3. RepairedInfo[t] # None =>
            RepairedStatus[t].id = RepairedInfo[t] /\ RepairedStatus[t] # None
    <3>1. RepairedInfo[t] # None => RepairedStatus[t] \in TaskStatuses
      BY <2>1, <2>2
    <3> QED
      BY <2>1, <3>1, NoneIsNoStatus DEF StatusOf
  <2>4. ~(taskInfo[t] # None /\ InSync(t))
    BY <1>1, <1>4 DEF InSync
  <2> QED
    BY <2>3, <2>4
<1> QED
  BY <1>3, <1>4

(* One conjunct of the invariant for each part of the launch.  The status   *)
(* that the driver's thread writes is of the task that is recorded, or else *)
(* the records are torn; a terminal one is of a task that has failed.       *)
LEMMA NextSoundInv ==
    TypeInv /\ FailedInv /\ RecordsInv /\ SoundInv /\ [Next]_vars /\ ~history'.torn => SoundInv'
<1> SUFFICES ASSUME TypeInv, FailedInv, RecordsInv, SoundInv, [Next]_vars, ~history'.torn
             PROVE  SoundInv'
  OBVIOUS
<1> USE DEF processVars, mesosVars, storeVars
<1>0. /\ AcceptOffers \/ Wanted' \subseteq Wanted
      /\ AcceptOffers \/ \A id \in TaskIds : life[id] = None => life'[id] = None
  BY LifeMoves
<1>1. CASE KillTasks
  <2>1. /\ offers.at = "idle" /\ offers'.at = "evaluate"
        /\ UNCHANGED <<life, taskInfo, taskStatus>> /\ Kill(ToKill)
    BY <1>1 DEF KillTasks, TypeInv, OffersInv
  <2>2. history'.asked = history.asked \cup (ToKill \ {None})
    BY <2>1 DEF Kill, TypeInv, HistoryInv
  <2>3. Wanted \subseteq ToKill \ {None}
    <3>1. \A id \in Wanted : \E t \in Tasks : taskInfo[t] = id /\ NotOver(t)
      BY <2>1 DEF SoundInv, Launching
    <3>2. \A t \in Tasks : taskInfo[t] # None /\ NotOver(t) => taskInfo[t] \in ToKill
      BY DEF NotOver, ToKill
    <3>3. None \notin Wanted
      BY StoreAssumption DEF Wanted
    <3> QED
      BY <3>1, <3>2, <3>3
  <2>4. Wanted' = {}
    BY <2>1, <2>2, <2>3 DEF Wanted, Alive
  <2> QED
    BY <2>1, <2>4, SoundMoves
<1>2. CASE EvaluateNothing
  <2>1. /\ offers.at = "evaluate" /\ offers'.at = "update"
        /\ UNCHANGED <<life, taskInfo, taskStatus, history>>
    BY <1>2 DEF EvaluateNothing, TypeInv, OffersInv
  <2>2. Wanted' = Wanted
    BY <2>1 DEF Wanted, Alive
  <2> QED
    BY <2>1, <2>2, SoundMoves DEF Launching
<1>3. CASE Evaluate
  <2>1. /\ offers.at = "evaluate" /\ offers'.at = "info" /\ offers'.todo = Tasks
        /\ UNCHANGED <<life, taskInfo, taskStatus, history>>
    BY <1>3 DEF Evaluate
  <2>2. Wanted' = {}
    BY <2>1 DEF Wanted, Alive, SoundInv, Launching
  <2>3. \A t \in Tasks : InSync(t)'
    BY <2>1 DEF SoundInv, HalfRecorded, InSync
  <2> QED
    BY <2>1, <2>2, <2>3 DEF SoundInv, Launching
<1>4. ASSUME NEW t \in Tasks, RecordInfo(t) PROVE SoundInv'
  <2>1. taskInfo' = [u \in Tasks |-> IF u = t THEN offers.ids[t] ELSE taskInfo[u]]
    BY <1>4 DEF RecordInfo, StoreTasks
  <2>2. /\ offers.at = "info" /\ offers'.at = "status" /\ offers'.read = t
        /\ offers'.todo = offers.todo /\ UNCHANGED <<life, taskStatus, history>>
    BY <1>4 DEF RecordInfo, TypeInv, OffersInv
  <2>3. Wanted' = {}
    BY <2>2 DEF Wanted, Alive, SoundInv, Launching
  <2>4. \A u \in Tasks : ~HalfRecorded(u)' => InSync(u)'
    BY <2>1, <2>2 DEF HalfRecorded, InSync, SoundInv
  <2>5. \A u \in Tasks \ offers.todo : NotOver(u)'
    BY <2>2 DEF NotOver, SoundInv
  <2> QED
    BY <2>2, <2>3, <2>4, <2>5 DEF SoundInv, Launching
<1>5. CASE RecordStatus
  <2> DEFINE s == StatusOf(offers.ids[offers.read], "STAGING")
  <2>1. /\ offers.at = "status" /\ offers.read \in Tasks
        /\ offers'.at \in {"accept", "info"}
        /\ offers'.todo = offers.todo \ {offers.read}
        /\ UNCHANGED <<life, taskInfo, history>>
    BY <1>5 DEF RecordStatus, TypeInv, OffersInv
  <2>2. \A t \in Tasks : taskStatus'[t] = IF t = offers.read THEN s ELSE taskStatus[t]
    BY <1>5, <2>1 DEF RecordStatus, StoreStatus, TypeInv, TypeOK, StoreTypeOK
  <2>3. s \in TaskStatuses /\ s.id = offers.ids[offers.read] /\ s.state = "STAGING"
    BY <2>1, LaunchIds DEF TypeInv, OffersInv, StatusOf, TaskStatuses, TaskStates
  <2> HIDE DEF s
  <2>4. Wanted' = {}
    BY <2>1 DEF Wanted, Alive, SoundInv, Launching
  <2>5. taskInfo[offers.read] = offers.ids[offers.read]
    BY <2>1 DEF RecordsInv, HalfRecorded
  <2>6. \A t \in Tasks : InSync(t)'
    BY <2>1, <2>2, <2>3, <2>5, NoneIsNoStatus DEF InSync, SoundInv, HalfRecorded
  <2>7. \A t \in Tasks \ offers'.todo : NotOver(t)'
    BY <2>1, <2>2, <2>3, NoneIsNoStatus DEF NotOver, SoundInv, IsTerminal
  <2> QED
    BY <2>1, <2>4, <2>6, <2>7 DEF SoundInv, Launching
<1>6. CASE AcceptOffers
  <2>1. /\ offers.at = "accept" /\ offers'.at = "update"
        /\ life' = [id \in TaskIds |-> IF id \in Ids(offers.ids) THEN "STAGING" ELSE life[id]]
        /\ UNCHANGED <<taskInfo, taskStatus, history>>
    BY <1>6 DEF AcceptOffers, TypeInv, OffersInv
  <2>2. offers.ids \in Launches /\ offers.todo = {}
    BY <2>1 DEF TypeInv, OffersInv, RecordsInv
  <2>3. Wanted = {}
    BY <2>1 DEF SoundInv, Launching
  <2>4. Wanted' \subseteq Ids(offers.ids)
    BY <2>1, <2>3 DEF Wanted, Alive
  <2>5. \A t \in Tasks : taskInfo[t] = offers.ids[t] /\ NotOver(t) /\ InSync(t)
    BY <2>1, <2>2 DEF SoundInv, RecordsInv, HalfRecorded
  <2>6. \A id \in Wanted' : \E t \in Tasks : taskInfo'[t] = id /\ NotOver(t)'
    <3>1. \A id \in Ids(offers.ids) : \E t \in Tasks : offers.ids[t] = id
      BY <2>2, LaunchIds
    <3>2. \A t \in Tasks : NotOver(t)'
      BY <2>1, <2>5 DEF NotOver
    <3> QED
      BY <2>1, <2>4, <2>5, <3>1, <3>2
  <2>7. \A t \in Tasks : InSync(t)'
    BY <2>1, <2>5 DEF InSync
  <2> QED
    BY <2>1, <2>6, <2>7 DEF SoundInv, Launching
<1>7. CASE UpdateEmpty \/ UpdateBegin \/ UpdateStore \/ UpdateEnd \/ \E t \in Tasks : UpdateFetch(t)
  <2>1. /\ offers.at \in {"update", "set", "store"} /\ offers'.at \in {"idle", "set", "store"}
        /\ UNCHANGED <<life, taskInfo, taskStatus, history>>
    BY <1>7, IdleType DEF UpdateEmpty, UpdateBegin, UpdateStore, UpdateEnd, UpdateFetch, TypeInv, OffersInv
  <2>2. Wanted' = Wanted
    BY <2>1 DEF Wanted, Alive
  <2> QED
    BY <2>1, <2>2, SoundMoves DEF Launching
<1>8. CASE \/ Recover \/ StepIgnores \/ StepFetch \/ StepStore \/ \E id \in TaskIds : StatusUpdate(id)
  <2>1. UNCHANGED <<taskInfo, taskStatus, offers, life, history.asked>>
    BY <1>8 DEF Recover, StepIgnores, StepFetch, StepStore, StatusUpdate, TypeInv, HistoryInv
  <2>2. Wanted' = Wanted
    BY <2>1 DEF Wanted, Alive
  <2> QED
    BY <2>1, <2>2, SoundFrame
<1>9. CASE StatusWrite
  <2> DEFINE s == StatusOf(driver.id, StoredState(driver.state))
  <2>0. PICK t \in Tasks : t = driver.read
    BY <1>9 DEF StatusWrite, TypeInv, DriverInv
  <2>1. /\ driver.at = "write" /\ driver.id \in TaskIds
        /\ driver.state \in LifeStates \cup {"LOST"}
        /\ UNCHANGED <<life, taskInfo, offers>>
    BY <1>9 DEF StatusWrite, TypeInv, DriverInv, IdsInv
  <2>2. history'.asked = history.asked /\ history'.torn = (history.torn \/ taskInfo[t] # driver.id)
    BY <1>9, <2>0 DEF StatusWrite, TypeInv, HistoryInv
  <2>3. taskInfo[t] = driver.id
    BY <2>2
  <2>4. \A u \in Tasks : taskStatus'[u] = IF u = t THEN s ELSE taskStatus[u]
    BY <1>9, <2>0 DEF StatusWrite, StoreStatus, TypeInv, TypeOK, StoreTypeOK
  <2>5. s \in TaskStatuses /\ s.id = driver.id /\ s.state = StoredState(driver.state)
    BY <2>1 DEF StatusOf, TaskStatuses, TaskStates, StoredState, LifeStates
  <2>6. IsTerminal(s.state) => life[driver.id] = "FAILED"
    BY <2>1, <2>5 DEF FailedInv, IsTerminal, StoredState, LifeStates
  <2> HIDE DEF s
  <2>7. life[driver.id] # "FAILED" => NotOver(t)'
    BY <2>1, <2>4, <2>5, <2>6, NoneIsNoStatus DEF NotOver
  <2>8. \A u \in Tasks \ {t} : NotOver(u) => NotOver(u)'
    BY <2>4 DEF NotOver
  <2>9. \A u \in Tasks : ~HalfRecorded(u)' => InSync(u)'
    BY <2>1, <2>3, <2>4, <2>5, NoneIsNoStatus DEF SoundInv, HalfRecorded, InSync
  <2>10. ASSUME offers.at \in {"info", "status", "accept"}, NEW u \in Tasks \ offers.todo
         PROVE  NotOver(u)'
    <3>1. taskInfo[u] = offers.ids[u] /\ life[offers.ids[u]] = None /\ NotOver(u)
      BY <2>10 DEF RecordsInv, SoundInv
    <3>2. CASE u = t
      BY <2>3, <2>7, <3>1, <3>2, NotALife DEF LifeStates
    <3>3. CASE u # t
      BY <2>8, <3>1, <3>3
    <3> QED
      BY <3>2, <3>3
  <2>11. Wanted' = Wanted
    BY <2>1, <2>2 DEF Wanted, Alive
  <2>12. ASSUME ~Launching, NEW id \in Wanted
         PROVE  \E u \in Tasks : taskInfo'[u] = id /\ NotOver(u)'
    <3>1. PICK u \in Tasks : taskInfo[u] = id /\ NotOver(u)
      BY <2>12 DEF SoundInv
    <3>2. life[id] # "FAILED"
      BY DEF Wanted, Alive
    <3>3. NotOver(u)'
      BY <2>3, <2>7, <2>8, <3>1, <3>2
    <3> QED
      BY <2>1, <3>1, <3>3
  <2>13. Launching' = Launching
    BY <2>1 DEF Launching
  <2> QED
    BY <2>1, <2>9, <2>10, <2>11, <2>12, <2>13 DEF SoundInv
<1>10. CASE HttpThread \/ Mesos \/ UNCHANGED vars
  <2>1. UNCHANGED <<taskInfo, taskStatus, offers>>
    BY <1>10 DEF HttpThread, OverrideFetch, OverrideStore, RestartFetch, HttpKill, RestartStep,
       ForceComplete, Mesos, TaskRuns, TaskFails, KillArrives, Resend, vars
  <2>2. ~AcceptOffers
    BY <2>1 DEF AcceptOffers, TypeInv, OffersInv
  <2> QED
    BY <1>0, <2>1, <2>2, SoundFrame
<1>11. CASE Crash
  <2>1. /\ taskInfo' = RepairedInfo /\ taskStatus' = RepairedStatus /\ UNCHANGED life
        /\ offers'.at = "idle"
    BY <1>11, IdleType DEF Crash
  <2>2. history.asked \subseteq history'.asked
    BY <1>11 DEF Crash, TypeInv, HistoryInv
  <2>3. Wanted' \subseteq Wanted
    BY <2>1, <2>2 DEF Wanted, Alive
  <2>4. \A t \in Tasks : InSync(t)'
    BY <2>1, RepairedSync DEF InSync
  <2>5. ASSUME NEW id \in Wanted'
        PROVE  \E t \in Tasks : taskInfo'[t] = id /\ NotOver(t)'
    <3>1. id \in Wanted /\ id # None
      BY <2>3, StoreAssumption DEF Wanted
    <3>2. PICK t \in Tasks : taskInfo[t] = id /\ NotOver(t)
      BY <3>1 DEF SoundInv
    <3>3. InSync(t)
      BY <3>1 DEF SoundInv, Launching, HalfRecorded
    <3>4. RepairedInfo[t] = taskInfo[t] /\ RepairedStatus[t] = taskStatus[t]
      BY <3>1, <3>2, <3>3, RepairedSync
    <3> QED
      BY <2>1, <3>2, <3>4 DEF NotOver
  <2> QED
    BY <2>1, <2>4, <2>5 DEF SoundInv, Launching
<1> QED
  BY <1>1, <1>2, <1>3, <1>4, <1>5, <1>6, <1>7, <1>8, <1>9, <1>10, <1>11
     DEF Next, OfferThread, DriverThread

LEMMA TwinsInductive == Spec => [](TypeInv /\ TwinsInv)
<1>1. Init => TypeInv /\ TwinsInv
  BY InitTypeInv, InitTwinsInv
<1>2. TypeInv /\ TwinsInv /\ [Next]_vars => (TypeInv /\ TwinsInv)'
  <2> SUFFICES ASSUME TypeInv, TwinsInv, [Next]_vars PROVE TypeInv' /\ TwinsInv'
    OBVIOUS
  <2>1. TypeInv' /\ FailedInv' /\ RecordsInv'
    BY NextTypeInv, NextFailedInv, NextRecordsInv DEF TwinsInv
  <2>2. ~history'.torn => SoundInv'
    BY LifeMoves, NextSoundInv DEF TwinsInv
  <2> QED
    BY <2>1, <2>2 DEF TwinsInv
<1> QED
  BY <1>1, <1>2, PTL DEF Spec

(* A name has at most one task that is alive and wanted: what is wanted is  *)
(* the image of the names under TaskInfo.                                   *)
LEMMA WantedSize ==
    ASSUME TypeInv, SoundInv
    PROVE  NoTwins
<1>1. IsFiniteSet(Tasks)
  BY StepsAssumption
<1> DEFINE Recs == {taskInfo[t] : t \in Tasks}
           f == [t \in Tasks |-> taskInfo[t]]
<1>2. IsFiniteSet(Recs) /\ Cardinality(Recs) <= Cardinality(Tasks)
  <2>1. f \in Surjection(Tasks, Recs)
    BY DEF Surjection
  <2> HIDE DEF Recs, f
  <2> QED
    BY <1>1, <2>1, FS_Surjection
<1>3. Wanted \subseteq Recs
  BY DEF SoundInv
<1>4. Cardinality(Wanted) <= Cardinality(Recs)
  BY <1>2, <1>3, FS_Subset
<1>5. Cardinality(Wanted) \in Nat /\ Cardinality(Recs) \in Nat /\ Cardinality(Tasks) \in Nat
  BY <1>1, <1>2, <1>3, FS_Subset, FS_CardinalityType
<1> QED
  BY <1>2, <1>4, <1>5 DEF NoTwins, Wanted

(* Two tasks run under one name, both wanted, only after a status was       *)
(* written over the records of another launch: whatever fails, is restarted,*)
(* paused or repaired, the kill before a launch asks every task to die that *)
(* the launch replaces.                                                     *)
THEOREM LaunchKillsWhatItReplaces == Spec => []TwinsOnlyWhenTorn
<1>1. TypeInv /\ TwinsInv => TwinsOnlyWhenTorn
  BY WantedSize DEF TwinsInv, TwinsOnlyWhenTorn
<1> QED
  BY <1>1, TwinsInductive, PTL
=============================================================================
