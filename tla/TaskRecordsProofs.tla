------------------------- MODULE TaskRecordsProofs -------------------------
(***************************************************************************)
(* Proofs about module TaskRecords, for any tasks of the pod, any ids and   *)
(* any number of crashes, requests, failures and lost agents.               *)
(***************************************************************************)
EXTENDS TaskRecords, TLAPS

-----------------------------------------------------------------------------
(* 1. Types                                                                 *)

LEMMA RecordsType ==
    ASSUME NEW r
    PROVE  r \in Records <=> DOMAIN r \subseteq Tasks /\ r \in [DOMAIN r -> TaskIds \cup {EmptyId}]
BY DEF Records

LEMMA RepairsType ==
    ASSUME NEW r
    PROVE  r \in UNION {[ts -> TaskStatuses] : ts \in SUBSET Tasks}
               <=> DOMAIN r \subseteq Tasks /\ r \in [DOMAIN r -> TaskStatuses]
OBVIOUS

LEMMA StatusType ==
    /\ \A i \in TaskIds, s \in TaskStates :
          /\ StatusOf(i, s) \in TaskStatuses
          /\ StatusOf(i, s).id = i
          /\ StatusOf(i, s).state = s
    /\ \A s \in TaskStatuses : s.id \in TaskIds /\ s.state \in TaskStates
BY DEF StatusOf, TaskStatuses

LEMMA StatesType ==
    {"STAGING", "RUNNING", "FAILED", "LOST"} \subseteq TaskStates
BY DEF TaskStates

(* Every id that anybody has in hand was used for a launch.                 *)
StoreUsed ==
    /\ \A t \in Tasks : taskInfo[t] \in used \cup {EmptyId, None}
    /\ \A t \in Tasks : taskStatus[t] # None => taskStatus[t].id \in used
    /\ \A t \in DOMAIN repairs : repairs[t].id \in used

HandsUsed ==
    /\ launch # None =>
          /\ \A t \in DOMAIN launch.ids : launch.ids[t] \in used
          /\ \A t \in DOMAIN launch.records : launch.records[t] \in used \cup {EmptyId}
          /\ pc["offers"] = "status" => launch.staging \in DOMAIN launch.ids \cap Tasks
          /\ \A t \in DOMAIN launch.records : launch.records[t] # EmptyId => t \in DOMAIN launch.ids
    /\ current # None => current.status.id \in used
    /\ replace.ids \subseteq used
    /\ \A t \in DOMAIN replace.infos : replace.infos[t] \in used \cup {EmptyId}

MessagesUsed ==
    /\ \A s \in statuses : s.id \in used
    /\ cleaning \subseteq used
    /\ unreconciled \subseteq used

TypeInv == TypeOK /\ StoreUsed /\ HandsUsed /\ MessagesUsed

LEMMA NoReplaceType ==
    /\ NoReplace \in [ids : SUBSET TaskIds, infos : Records]
    /\ NoReplace.ids = {} /\ DOMAIN NoReplace.infos = {}
BY RecordsType DEF NoReplace, NoRecords

LEMMA InitTypeInv == Init => TypeInv
<1> SUFFICES ASSUME Init PROVE TypeInv
  OBVIOUS
<1> USE StoreAssumption, TaskRecordsAssumption
<1>1. NoRecords \in Records /\ NoRecords \in UNION {[ts -> TaskStatuses] : ts \in SUBSET Tasks}
  BY RecordsType, RepairsType DEF NoRecords
<1>2. NoReplace \in [ids : SUBSET TaskIds, infos : Records]
  BY <1>1 DEF NoReplace
<1>3. counts \in [crash : 0 .. MaxCrashes, replace : 0 .. MaxReplaces,
                  failure : 0 .. MaxFailures, lost : 0 .. MaxLost]
  BY DEF Init
<1>4. TypeOK
  BY <1>1, <1>2, <1>3 DEF Init, TypeOK, StoreTypeOK, Threads
<1>5. StoreUsed /\ HandsUsed /\ MessagesUsed
  BY DEF Init, StoreUsed, HandsUsed, MessagesUsed, NoReplace, NoRecords
<1> QED
  BY <1>4, <1>5 DEF TypeInv

LEMMA NextTypeInv == TypeInv /\ [Next]_vars => TypeInv'
<1> SUFFICES ASSUME TypeInv, [Next]_vars PROVE TypeInv'
  OBVIOUS
<1> USE StoreAssumption, TaskRecordsAssumption, StatusType, StatesType
        DEF TypeInv, TypeOK, StoreTypeOK, StoreUsed, HandsUsed, MessagesUsed, Threads, storeVars,
            processVars, historyVars, mesosVars
<1>1. ASSUME RepairTasks PROVE TypeInv'
  <2>1. /\ DOMAIN repairs' \subseteq Tasks
        /\ \A t \in DOMAIN repairs' : repairs'[t] \in TaskStatuses /\ repairs'[t].id \in used
    <3> SUFFICES ASSUME NEW t \in Tasks, Inconsistent(t)
                 PROVE  (IF taskStatus[t] = None THEN taskInfo[t] ELSE taskStatus[t].id) \in used
      BY <1>1 DEF RepairTasks
    <3> QED
      BY DEF Inconsistent
  <2>2. repairs' \in UNION {[ts -> TaskStatuses] : ts \in SUBSET Tasks}
    BY <1>1, <2>1, RepairsType DEF RepairTasks
  <2>3. /\ taskInfo' \in [Tasks -> TaskIds \cup {EmptyId, None}]
        /\ \A t \in Tasks : taskInfo'[t] \in used \cup {EmptyId, None}
    BY <1>1 DEF RepairTasks, StoreTasks
  <2> QED
    BY <1>1, <2>1, <2>2, <2>3 DEF RepairTasks
<1>2. ASSUME NEW t \in Tasks, RepairStatus(t) PROVE TypeInv'
  <2>1. repairs \in [DOMAIN repairs -> TaskStatuses] /\ DOMAIN repairs \subseteq Tasks
    BY RepairsType
  <2>2. /\ DOMAIN repairs' = DOMAIN repairs \ {t}
        /\ \A u \in DOMAIN repairs' : repairs'[u] = repairs[u]
        /\ repairs' \in UNION {[ts -> TaskStatuses] : ts \in SUBSET Tasks}
    BY <1>2, <2>1, RepairsType DEF RepairStatus
  <2>3. repairs[t] \in TaskStatuses /\ repairs[t].id \in used
    BY <1>2, <2>1 DEF RepairStatus
  <2>4. /\ taskStatus' \in [Tasks -> TaskStatuses \cup {None}]
        /\ \A u \in Tasks : taskStatus'[u] # None => taskStatus'[u].id \in used
    BY <1>2, <2>3 DEF RepairStatus, StoreStatus
  <2> QED
    BY <1>2, <2>1, <2>2, <2>4 DEF RepairStatus
<1>3. ASSUME RepairEnd PROVE TypeInv'
  BY <1>3 DEF RepairEnd
<1>4. ASSUME Registered PROVE TypeInv'
  BY <1>4 DEF Registered, StoredStatuses
<1>5. ASSUME Crash PROVE TypeInv'
  <2>1. /\ NoReplace \in [ids : SUBSET TaskIds, infos : Records]
        /\ NoReplace.ids = {} /\ DOMAIN NoReplace.infos = {}
    BY NoReplaceType
  <2>2. repairs' \in UNION {[ts -> TaskStatuses] : ts \in SUBSET Tasks} /\ DOMAIN repairs' = {}
    BY <1>5, RepairsType DEF Crash, NoRecords
  <2>3. counts' \in [crash : 0 .. MaxCrashes, replace : 0 .. MaxReplaces,
                     failure : 0 .. MaxFailures, lost : 0 .. MaxLost]
    BY <1>5 DEF Crash, Count
  <2> QED
    BY <1>5, <2>1, <2>2, <2>3 DEF Crash, EmptyProcess
<1>6. ASSUME NEW tasks \in (SUBSET Tasks) \ {{}}, NEW permanent \in BOOLEAN, StepStart(tasks, permanent) PROVE TypeInv'
  <2>1. NoRecords \in Records /\ DOMAIN NoRecords = {}
    BY RecordsType DEF NoRecords
  <2>2. launch' \in Launches
    BY <1>6, <2>1 DEF StepStart, Launches
  <2>3. /\ launch'.ids = NoRecords /\ launch'.records = NoRecords
        /\ pc' = [pc EXCEPT !["offers"] = "kill"]
    BY <1>6 DEF StepStart, Goto
  <2> QED
    BY <1>6, <2>1, <2>2, <2>3, NoneAssumption DEF StepStart
<1>7. ASSUME KillTasks PROVE TypeInv'
  <2>1. kills' \subseteq used
    BY <1>7 DEF KillTasks, Kill, Launches
  <2> QED
    BY <1>7, <2>1 DEF KillTasks, Goto
<1>8. ASSUME EvaluateNothing PROVE TypeInv'
  BY <1>8 DEF EvaluateNothing, Goto
<1>9. ASSUME NEW ids, Evaluate(ids) PROVE TypeInv'
  <2>1. launch \in Launches /\ launch # None /\ launch.tasks \subseteq Tasks
    BY <1>9 DEF Evaluate, Launches
  <2> DEFINE r == [t \in IF NewRequirement THEN Tasks ELSE launch.tasks |->
                      IF t \in launch.tasks THEN ids[t] ELSE EmptyId]
  <2>2. ids \in Records /\ DOMAIN ids = launch.tasks
    BY <1>9, <2>1, RecordsType DEF Evaluate
  <2>3. r \in Records
    BY <1>9, <2>1, RecordsType DEF Evaluate
  <2>4. \A t \in DOMAIN r : r[t] \in used' \cup {EmptyId} /\ (r[t] # EmptyId => t \in DOMAIN ids)
    BY <1>9, <2>1, <2>2 DEF Evaluate
  <2> HIDE DEF r
  <2>5. launch' = [launch EXCEPT !.ids = ids, !.records = r]
    BY <1>9 DEF Evaluate, r
  <2>6. launch' \in Launches /\ launch'.ids = ids /\ launch'.records = r
    BY <2>1, <2>2, <2>3, <2>5 DEF Launches
  <2>7. used \subseteq used' /\ used' \subseteq TaskIds /\ \A t \in DOMAIN ids : ids[t] \in used'
    BY <1>9, <2>2 DEF Evaluate
  <2>8. pc' = [pc EXCEPT !["offers"] = "record"]
    BY <1>9 DEF Evaluate, Goto
  <2>9. StoreUsed' /\ MessagesUsed'
    BY <1>9, <2>7 DEF Evaluate
  <2>10. HandsUsed'
    BY <1>9, <2>4, <2>6, <2>7, <2>8 DEF Evaluate
  <2> QED
    BY <1>9, <2>6, <2>7, <2>8, <2>9, <2>10, NoneAssumption DEF Evaluate
<1>10. ASSUME NEW t \in Tasks, RecordInfo(t) PROVE TypeInv'
  <2>1. launch \in Launches /\ launch # None
    BY <1>10 DEF RecordInfo
  <2>2. /\ launch.records \in [DOMAIN launch.records -> TaskIds \cup {EmptyId}]
        /\ DOMAIN launch.records \subseteq Tasks /\ t \in DOMAIN launch.records
    BY <1>10, <2>1, RecordsType DEF RecordInfo, Launches
  <2> DEFINE r == [u \in DOMAIN launch.records \ {t} |-> launch.records[u]]
             l == IF launch.records[t] = EmptyId THEN None ELSE t
  <2>3. r \in Records /\ \A u \in DOMAIN r : u \in DOMAIN launch.records /\ r[u] = launch.records[u]
    BY <2>2, RecordsType
  <2> HIDE DEF r, l
  <2>4. launch' = [launch EXCEPT !.records = r, !.staging = l]
    BY <1>10, <2>1 DEF RecordInfo, Launches, r, l
  <2>5. /\ launch' \in Launches /\ launch'.ids = launch.ids
        /\ launch'.records = r /\ launch'.staging = l
    BY <2>1, <2>3, <2>4 DEF Launches, l
  <2>6. /\ taskInfo' \in [Tasks -> TaskIds \cup {EmptyId, None}]
        /\ \A u \in Tasks : taskInfo'[u] \in used \cup {EmptyId, None}
    BY <1>10, <2>1, <2>2 DEF RecordInfo, StoreTasks
  <2>7. /\ pc' = [pc EXCEPT !["offers"] = IF launch.records[t] = EmptyId THEN "record" ELSE "status"]
        /\ pc["offers"] = "record"
    BY <1>10 DEF RecordInfo, Goto
  <2>8. StoreUsed' /\ MessagesUsed'
    BY <1>10, <2>6 DEF RecordInfo
  <2>9. HandsUsed'
    BY <1>10, <2>1, <2>2, <2>3, <2>5, <2>7 DEF RecordInfo, l
  <2> QED
    BY <1>10, <2>5, <2>6, <2>7, <2>8, <2>9, NoneAssumption DEF RecordInfo
<1>11. ASSUME RecordStatus PROVE TypeInv'
  <2>1. launch \in Launches /\ launch # None /\ launch.staging \in DOMAIN launch.ids \cap Tasks
    BY <1>11 DEF RecordStatus
  <2>2. launch.ids[launch.staging] \in used
    BY <2>1
  <2>3. /\ taskStatus' \in [Tasks -> TaskStatuses \cup {None}]
        /\ \A t \in Tasks : taskStatus'[t] # None => taskStatus'[t].id \in used
    BY <1>11, <2>1, <2>2 DEF RecordStatus, StoreStatus
  <2>4. launch' = [launch EXCEPT !.staging = None]
    BY <1>11 DEF RecordStatus
  <2>5. launch' \in Launches /\ launch'.ids = launch.ids /\ launch'.records = launch.records
    BY <2>1, <2>4 DEF Launches
  <2>6. pc' = [pc EXCEPT !["offers"] = "record"] /\ pc["offers"] = "status"
    BY <1>11 DEF RecordStatus, Goto
  <2>7. StoreUsed' /\ MessagesUsed'
    BY <1>11, <2>3 DEF RecordStatus
  <2>8. HandsUsed'
    BY <1>11, <2>1, <2>5, <2>6 DEF RecordStatus
  <2> QED
    BY <1>11, <2>3, <2>5, <2>6, <2>7, <2>8, NoneAssumption DEF RecordStatus
<1>12. ASSUME RecordFails PROVE TypeInv'
  BY <1>12 DEF RecordFails, Count, Goto
<1>13. ASSUME AcceptOffers PROVE TypeInv'
  BY <1>13 DEF AcceptOffers, LaunchIds, Goto
<1>14. ASSUME NEW s \in TaskStatuses, StatusUpdate(s) PROVE TypeInv'
  <2>1. current' \in Currents /\ current'.status = s
    BY <1>14 DEF StatusUpdate, Currents, NamesOf
  <2>2. /\ pc' \in [Threads -> {"idle", "kill", "evaluate", "record", "status", "store", "set",
                              "clean", "read", "write"}]
        /\ pc'["offers"] = pc["offers"] /\ pc'["driver"] # "idle"
    BY <1>14 DEF StatusUpdate, Goto
  <2>3. s.id \in used
    BY <1>14 DEF StatusUpdate
  <2> QED
    BY <1>14, <2>1, <2>2, <2>3, NoneAssumption DEF StatusUpdate
<1>15. ASSUME StatusStore PROVE TypeInv'
  BY <1>15 DEF StatusStore, Goto
<1>16. ASSUME StatusSet PROVE TypeInv'
  <2>1. current \in Currents /\ current.status \in TaskStatuses /\ current.status.id \in used
    BY <1>16 DEF StatusSet, Currents
  <2>2. taskStatus' = [taskStatus EXCEPT ![current.task] = current.status]
    BY <1>16 DEF StatusSet, StoreStatus
  <2>3. taskStatus' \in [Tasks -> TaskStatuses \cup {None}]
    BY <2>1, <2>2
  <2>4. ASSUME NEW u \in Tasks, taskStatus'[u] # None
        PROVE  taskStatus'[u].id \in used
    <3>1. CASE u = current.task
      BY <2>1, <2>2, <3>1
    <3>2. CASE u # current.task
      BY <2>2, <2>4, <3>2
    <3> QED
      BY <3>1, <3>2
  <2> QED
    BY <1>16, <2>1, <2>3, <2>4 DEF StatusSet, Goto
<1>17. ASSUME StatusClean PROVE TypeInv'
  BY <1>17 DEF StatusClean, Goto
<1>18. ASSUME NEW id \in TaskIds, KillUnexpectedTask(id) PROVE TypeInv'
  BY <1>18 DEF KillUnexpectedTask, Kill, StoredIds
<1>19. ASSUME ReplaceFetch PROVE TypeInv'
  BY <1>19 DEF ReplaceFetch, StoredIds, Count, Goto
<1>20. ASSUME ReplaceRead PROVE TypeInv'
  <2> DEFINE r == [t \in {u \in Tasks : taskInfo[u] # None} |-> taskInfo[t]]
  <2>1. r \in Records /\ \A t \in DOMAIN r : r[t] \in used \cup {EmptyId}
    BY RecordsType
  <2> HIDE DEF r
  <2>2. replace' = [replace EXCEPT !.infos = r]
    BY <1>20 DEF ReplaceRead, r
  <2>3. /\ replace' \in [ids : SUBSET TaskIds, infos : Records]
        /\ replace'.ids = replace.ids /\ replace'.infos = r
    BY <2>1, <2>2
  <2> QED
    BY <1>20, <2>1, <2>3 DEF ReplaceRead, Goto
<1>21. ASSUME ReplaceWrite PROVE TypeInv'
  <2>1. /\ replace.infos \in [DOMAIN replace.infos -> TaskIds \cup {EmptyId}]
        /\ DOMAIN replace.infos \subseteq Tasks
    BY RecordsType
  <2>2. /\ taskInfo' \in [Tasks -> TaskIds \cup {EmptyId, None}]
        /\ \A t \in Tasks : taskInfo'[t] \in used \cup {EmptyId, None}
    BY <1>21, <2>1 DEF ReplaceWrite, StoreTasks
  <2> QED
    BY <1>21, <2>1, <2>2 DEF ReplaceWrite, Goto
<1>22. ASSUME ReplaceKill PROVE TypeInv'
  BY <1>22, NoReplaceType DEF ReplaceKill, Kill, Goto
<1>23. ASSUME NEW id \in TaskIds, ExplicitAnswer(id) PROVE TypeInv'
  BY <1>23 DEF ExplicitAnswer
<1>24. ASSUME ImplicitAnswer PROVE TypeInv'
  BY <1>24 DEF ImplicitAnswer
<1>25. ASSUME NEW id \in TaskIds, TaskEnds(id) PROVE TypeInv'
  BY <1>25 DEF TaskEnds, Ends
<1>26. ASSUME NEW id \in TaskIds, KillArrives(id) PROVE TypeInv'
  BY <1>26 DEF KillArrives, Ends
<1>27. ASSUME NEW id \in TaskIds, AgentLost(id) PROVE TypeInv'
  BY <1>27 DEF AgentLost, Count
<1>28. ASSUME NEW id \in TaskIds, AgentReturns(id) PROVE TypeInv'
  BY <1>28 DEF AgentReturns
<1>29. ASSUME UNCHANGED vars PROVE TypeInv'
  BY <1>29 DEF vars
<1> HIDE DEF TypeInv
<1> QED
  BY <1>1, <1>2, <1>3, <1>4, <1>5, <1>6, <1>7, <1>8, <1>9, <1>10, <1>11, <1>12, <1>13, <1>14, <1>15, <1>16, <1>17, <1>18, <1>19, <1>20, <1>21, <1>22, <1>23, <1>24, <1>25, <1>26, <1>27, <1>28, <1>29
     DEF Next, StartUp, OfferThread, DriverThread, HttpThread, Mesos, DeliverStatus

(* The records, the requests in hand and the messages have their types, and *)
(* each thread has something in hand exactly at the labels where it uses it.*)
THEOREM TypeCorrect == Spec => []TypeOK
<1>1. TypeInv => TypeOK
  BY DEF TypeInv
<1> QED
  BY <1>1, InitTypeInv, NextTypeInv, PTL DEF Spec

-----------------------------------------------------------------------------
(* 2. The repair                                                            *)

(* A TaskInfo is never removed, so a status is never left without one.      *)
StatusHasInfo ==
    /\ \A t \in Tasks : taskStatus[t] # None => taskInfo[t] # None
    /\ pc["offers"] = "status" => taskInfo[launch.staging] # None
    /\ pc["driver"] \in {"store", "set"} => current.task \in Tasks /\ taskInfo[current.task] # None

(* What holds between the repair's one write of the TaskInfos and its       *)
(* writes of the statuses.                                                  *)
HalfRepaired(t) ==
    /\ taskStatus[t] # None => taskStatus[t].id = taskInfo[t]
    /\ taskInfo[t] \notin {None, EmptyId} /\ taskStatus[t] = None => t \in DOMAIN repairs
    /\ t \in DOMAIN repairs => taskInfo[t] = repairs[t].id

RepairInv ==
    /\ StatusHasInfo
    /\ phase = "repair" => \A t \in Tasks : HalfRepaired(t)
    /\ RepairedInSync

LEMMA InfosStay ==
    ASSUME TypeInv, [Next]_vars, NEW t \in Tasks, taskInfo[t] # None
    PROVE  taskInfo'[t] # None
<1> USE StoreAssumption DEF TypeInv, TypeOK, StoreTypeOK
<1>1. CASE RepairTasks
  BY <1>1 DEF RepairTasks, StoreTasks, TaskStatuses
<1>2. ASSUME NEW u \in Tasks, RecordInfo(u) PROVE taskInfo'[t] # None
  <2>1. launch \in Launches /\ u \in DOMAIN launch.records
    BY <1>2 DEF RecordInfo
  <2>2. launch.records[u] \in TaskIds \cup {EmptyId}
    BY <2>1, RecordsType DEF Launches
  <2> QED
    BY <1>2, <2>2 DEF RecordInfo, StoreTasks
<1>3. CASE ReplaceWrite
  <2>1. \A u \in DOMAIN replace.infos : replace.infos[u] \in TaskIds \cup {EmptyId}
    BY RecordsType
  <2> QED
    BY <1>3, <2>1 DEF ReplaceWrite, StoreTasks
<1>4. CASE UNCHANGED taskInfo
  BY <1>4
<1> HIDE DEF TypeInv
<1>5. RepairTasks \/ (\E u \in Tasks : RecordInfo(u)) \/ ReplaceWrite \/ UNCHANGED taskInfo
  BY DEF Next, StartUp, OfferThread, DriverThread, HttpThread, Mesos, vars, storeVars, RepairStatus,
         RepairEnd, Registered, Crash, StepStart, KillTasks, EvaluateNothing, Evaluate, RecordStatus,
         RecordFails, AcceptOffers, StatusStore, StatusSet, StatusClean, KillUnexpectedTask,
         ReplaceFetch, ReplaceRead, ReplaceKill, DeliverStatus, StatusUpdate, ExplicitAnswer,
         ImplicitAnswer, TaskEnds, KillArrives, AgentLost, AgentReturns
<1> QED
  BY <1>1, <1>2, <1>3, <1>4, <1>5

LEMMA InitRepairInv == Init => RepairInv
BY DEF Init, RepairInv, StatusHasInfo, RepairedInSync, Threads

(* A status is written for a task whose TaskInfo is there.                  *)
LEMMA StatusHasInfoStep == TypeInv /\ RepairInv /\ [Next]_vars => StatusHasInfo'
<1> SUFFICES ASSUME TypeInv, RepairInv, [Next]_vars PROVE StatusHasInfo'
  OBVIOUS
<1> DEFINE Same == /\ UNCHANGED taskStatus
                   /\ pc'["offers"] = "status" => pc["offers"] = "status" /\ launch' = launch
                   /\ pc'["driver"] \in {"store", "set"} =>
                         pc["driver"] \in {"store", "set"} /\ current' = current
<1>a. launch # None => launch \in Launches
  BY DEF TypeInv, TypeOK
<1>b. pc["offers"] = "status" => launch.staging \in Tasks
  BY DEF TypeInv, TypeOK, HandsUsed
<1> USE StoreAssumption, StatusType DEF RepairInv
<1>1. CASE Same
  BY <1>1, <1>b, InfosStay DEF StatusHasInfo
<1>2. ASSUME NEW t \in Tasks, RepairStatus(t) PROVE StatusHasInfo'
  <2>1. taskInfo[t] # None /\ taskInfo' = taskInfo
    <3>1. repairs[t] \in TaskStatuses
      BY <1>2, RepairsType DEF RepairStatus, TypeInv, TypeOK
    <3>2. taskInfo[t] = repairs[t].id
      BY <1>2 DEF RepairStatus, HalfRepaired
    <3> QED
      BY <1>2, <3>1, <3>2 DEF RepairStatus
  <2> QED
    BY <1>2, <2>1 DEF RepairStatus, StoreStatus, StatusHasInfo, TypeInv, TypeOK, StoreTypeOK
<1>3. ASSUME NEW t \in Tasks, RecordInfo(t) PROVE StatusHasInfo'
  <2>1. launch \in Launches /\ launch # None /\ t \in DOMAIN launch.records
    BY <1>3, <1>a DEF RecordInfo, TypeInv, TypeOK
  <2>2. launch.records[t] \in TaskIds \cup {EmptyId}
    BY <2>1, RecordsType DEF Launches
  <2>3. taskInfo'[t] # None
    BY <1>3, <2>2 DEF RecordInfo, StoreTasks
  <2> DEFINE r == [u \in DOMAIN launch.records \ {t} |-> launch.records[u]]
             l == IF launch.records[t] = EmptyId THEN None ELSE t
  <2> HIDE DEF r, l
  <2>4. launch' = [launch EXCEPT !.records = r, !.staging = l]
    BY <1>3, <2>1 DEF RecordInfo, Launches, r, l
  <2>5. launch'.staging = l
    BY <2>1, <2>4 DEF Launches
  <2>6. pc'["offers"] = "status" => taskInfo'[launch'.staging] # None
    BY <1>3, <2>3, <2>5 DEF RecordInfo, Goto, TypeInv, TypeOK, Threads, l
  <2>7. UNCHANGED <<taskStatus, current>> /\ pc'["driver"] = pc["driver"]
    BY <1>3 DEF RecordInfo, Goto, TypeInv, TypeOK, Threads
  <2> QED
    BY <2>6, <2>7, InfosStay DEF StatusHasInfo
<1>4. ASSUME RecordStatus PROVE StatusHasInfo'
  <2>1. /\ taskInfo' = taskInfo /\ current' = current
        /\ pc'["offers"] = "record" /\ pc'["driver"] = pc["driver"]
    BY <1>4 DEF RecordStatus, Goto, TypeInv, TypeOK, Threads
  <2>2. launch.staging \in Tasks /\ taskInfo[launch.staging] # None
    BY <1>4, <1>b DEF RecordStatus, StatusHasInfo
  <2>3. \A u \in Tasks : u # launch.staging => taskStatus'[u] = taskStatus[u]
    BY <1>4 DEF RecordStatus, StoreStatus, TypeInv, TypeOK, StoreTypeOK
  <2> QED
    BY <2>1, <2>2, <2>3 DEF StatusHasInfo
<1>5. ASSUME NEW s \in TaskStatuses, StatusUpdate(s) PROVE StatusHasInfo'
  <2>1. UNCHANGED <<taskInfo, taskStatus, launch>> /\ pc'["offers"] = pc["offers"]
    BY <1>5 DEF StatusUpdate, Goto, storeVars, TypeInv, TypeOK, Threads
  <2>2. pc'["driver"] \in {"store", "set"} => current'.task \in Tasks /\ taskInfo[current'.task] = s.id
    BY <1>5 DEF StatusUpdate, Goto, NamesOf, TypeInv, TypeOK, Threads
  <2> QED
    BY <2>1, <2>2 DEF StatusHasInfo
<1>6. ASSUME StatusSet PROVE StatusHasInfo'
  <2>1. /\ taskInfo' = taskInfo /\ launch' = launch
        /\ pc'["driver"] = "clean" /\ pc'["offers"] = pc["offers"]
    BY <1>6 DEF StatusSet, Goto, TypeInv, TypeOK, Threads
  <2>2. current.task \in Tasks /\ taskInfo[current.task] # None
    BY <1>6 DEF StatusSet, StatusHasInfo
  <2>3. \A u \in Tasks : u # current.task => taskStatus'[u] = taskStatus[u]
    BY <1>6 DEF StatusSet, StoreStatus, TypeInv, TypeOK, StoreTypeOK
  <2> QED
    BY <2>1, <2>2, <2>3 DEF StatusHasInfo
<1>7. ASSUME Crash PROVE Same
  BY <1>7 DEF Crash, EmptyProcess, storeVars, Threads
<1>8. \/ \E t \in Tasks : RepairStatus(t) \/ RecordInfo(t)
      \/ RecordStatus \/ StatusSet
      \/ \E s \in TaskStatuses : StatusUpdate(s)
      \/ Crash
      \/ Same
  <2> USE DEF TypeInv, TypeOK, Threads, Goto, storeVars, processVars, historyVars
  <2>1. CASE StartUp
    BY <2>1 DEF StartUp, RepairTasks, RepairEnd, Registered
  <2>2. CASE Crash
    BY <2>2
  <2>3. ASSUME NEW tasks \in (SUBSET Tasks) \ {{}}, NEW permanent \in BOOLEAN, StepStart(tasks, permanent)
        PROVE  Same
    BY <2>3 DEF StepStart
  <2>4. CASE KillTasks
    BY <2>4 DEF KillTasks
  <2>10. CASE EvaluateNothing
    BY <2>10 DEF EvaluateNothing
  <2>11. ASSUME NEW ids, Evaluate(ids) PROVE Same
    BY <2>11 DEF Evaluate
  <2>12. CASE RecordFails
    BY <2>12 DEF RecordFails
  <2>13. CASE AcceptOffers
    BY <2>13 DEF AcceptOffers
  <2>5. CASE DriverThread
    BY <2>5 DEF DriverThread, StatusStore, StatusClean
  <2>6. ASSUME NEW id \in TaskIds, KillUnexpectedTask(id) PROVE Same
    BY <2>6 DEF KillUnexpectedTask
  <2>7. CASE ReplaceFetch \/ HttpThread
    BY <2>7 DEF HttpThread, ReplaceFetch, ReplaceRead, ReplaceWrite, ReplaceKill
  <2>8. CASE Mesos
    BY <2>8 DEF Mesos, DeliverStatus, ExplicitAnswer, ImplicitAnswer, TaskEnds, KillArrives,
                AgentLost, AgentReturns
  <2>9. CASE UNCHANGED vars
    BY <2>9 DEF vars
  <2> HIDE DEF TypeInv, RepairInv, Same
  <2> QED
    BY <2>1, <2>2, <2>3, <2>4, <2>5, <2>6, <2>7, <2>8, <2>9, <2>10, <2>11, <2>12, <2>13
       DEF Next, OfferThread
<1> HIDE DEF Same
<1> QED
  BY <1>1, <1>2, <1>3, <1>4, <1>5, <1>6, <1>7, <1>8

(* Only the start-up leaves or enters the phases of the repair.             *)
LEMMA PhaseSteps ==
    ASSUME TypeInv, [Next]_vars
    PROVE  \/ RepairTasks
           \/ \E t \in Tasks : RepairStatus(t)
           \/ RepairEnd
           \/ phase' \in {"down", "up"}
           \/ UNCHANGED <<phase, taskInfo, taskStatus, repairs>>
<1> USE DEF TypeInv, TypeOK, Threads, storeVars, processVars, historyVars
<1> DEFINE Quiet == phase' \in {"down", "up"} \/ UNCHANGED <<phase, taskInfo, taskStatus, repairs>>
<1>1. CASE StartUp
  BY <1>1 DEF StartUp, Registered
<1>2. CASE Crash
  BY <1>2 DEF Crash
<1>3. ASSUME NEW tasks \in (SUBSET Tasks) \ {{}}, NEW permanent \in BOOLEAN, StepStart(tasks, permanent)
      PROVE  Quiet
  BY <1>3 DEF StepStart
<1>4. CASE KillTasks \/ EvaluateNothing \/ RecordStatus
  BY <1>4 DEF KillTasks, EvaluateNothing, RecordStatus
<1>5. ASSUME NEW ids, Evaluate(ids) PROVE Quiet
  BY <1>5 DEF Evaluate
<1>6. ASSUME NEW t \in Tasks, RecordInfo(t) PROVE Quiet
  BY <1>6 DEF RecordInfo
<1>7. CASE RecordFails \/ AcceptOffers
  BY <1>7 DEF RecordFails, AcceptOffers
<1>8. CASE DriverThread
  BY <1>8 DEF DriverThread, StatusStore, StatusSet, StatusClean
<1>9. ASSUME NEW id \in TaskIds, KillUnexpectedTask(id) PROVE Quiet
  BY <1>9 DEF KillUnexpectedTask
<1>10. CASE ReplaceFetch \/ HttpThread
  BY <1>10 DEF HttpThread, ReplaceFetch, ReplaceRead, ReplaceWrite, ReplaceKill
<1>11. CASE Mesos
  BY <1>11 DEF Mesos, DeliverStatus, StatusUpdate, ExplicitAnswer, ImplicitAnswer, TaskEnds,
               KillArrives, AgentLost, AgentReturns
<1>12. CASE UNCHANGED vars
  BY <1>12 DEF vars
<1> HIDE DEF Quiet, TypeInv
<1>13. Quiet => phase' \in {"down", "up"} \/ UNCHANGED <<phase, taskInfo, taskStatus, repairs>>
  BY DEF Quiet
<1> QED
  BY <1>1, <1>2, <1>3, <1>4, <1>5, <1>6, <1>7, <1>8, <1>9, <1>10, <1>11, <1>12, <1>13
     DEF Next, OfferThread

LEMMA NextRepairInv == TypeInv /\ RepairInv /\ [Next]_vars => RepairInv'
<1> SUFFICES ASSUME TypeInv, RepairInv, [Next]_vars PROVE RepairInv'
  OBVIOUS
<1>1. StatusHasInfo'
  BY StatusHasInfoStep
<1> DEFINE Repaired == /\ phase' = "repair" => \A t \in Tasks : HalfRepaired(t)'
                       /\ RepairedInSync'
<1> USE StoreAssumption, StatusType DEF RepairInv, TypeInv, TypeOK, StoreTypeOK
<1>2. CASE RepairTasks
  <2> SUFFICES ASSUME NEW t \in Tasks PROVE HalfRepaired(t)'
    BY <1>1, <1>2 DEF RepairTasks, RepairedInSync
  <2>1. taskStatus[t] # None => taskStatus[t] \in TaskStatuses /\ taskInfo[t] # None
    BY DEF StatusHasInfo
  <2>2. UNCHANGED taskStatus
    BY <1>2 DEF RepairTasks
  <2>3. taskInfo'[t] = IF Inconsistent(t) /\ taskStatus[t] # None THEN taskStatus[t].id ELSE taskInfo[t]
    BY <1>2 DEF RepairTasks, StoreTasks
  <2>4. t \in DOMAIN repairs' <=> Inconsistent(t)
    BY <1>2 DEF RepairTasks
  <2>5. Inconsistent(t) =>
           repairs'[t] = StatusOf(IF taskStatus[t] = None THEN taskInfo[t] ELSE taskStatus[t].id, "FAILED")
    BY <1>2 DEF RepairTasks
  <2> QED
    BY <2>1, <2>2, <2>3, <2>4, <2>5 DEF HalfRepaired, Inconsistent, StatusOf
<1>3. ASSUME NEW t \in Tasks, RepairStatus(t) PROVE Repaired
  <2>1. /\ UNCHANGED <<taskInfo, phase>> /\ phase = "repair"
        /\ taskStatus' = [taskStatus EXCEPT ![t] = repairs[t]]
        /\ t \in DOMAIN repairs
        /\ repairs' = [u \in DOMAIN repairs \ {t} |-> repairs[u]]
    BY <1>3 DEF RepairStatus, StoreStatus
  <2>3. repairs[t] # None
    BY <2>1, RepairsType, NoneAssumption
  <2>2. ASSUME NEW u \in Tasks PROVE HalfRepaired(u)'
    <3>1. CASE u = t
      BY <2>1, <2>3, <3>1 DEF HalfRepaired
    <3>2. CASE u # t
      BY <2>1, <3>2 DEF HalfRepaired
    <3> QED
      BY <3>1, <3>2
  <2> QED
    BY <2>1, <2>2 DEF RepairedInSync
<1>4. CASE RepairEnd
  BY <1>1, <1>4 DEF RepairEnd, storeVars, RepairedInSync, InSync, Inconsistent, HalfRepaired, StatusHasInfo
<1>5. CASE phase' \in {"down", "up"}
  BY <1>1, <1>5 DEF RepairedInSync
<1>6. CASE UNCHANGED <<phase, taskInfo, taskStatus, repairs>>
  BY <1>1, <1>6 DEF RepairedInSync, InSync, Inconsistent, HalfRepaired
<1> HIDE DEF TypeInv, RepairInv
<1> QED
  BY <1>1, <1>2, <1>3, <1>4, <1>5, <1>6, PhaseSteps DEF RepairInv

(* However many tasks the pod has, and wherever the last process was cut    *)
(* off, the plans are built from records that agree.                        *)
THEOREM RepairIsComplete == Spec => []RepairedInSync
<1>1. RepairInv => RepairedInSync
  BY DEF RepairInv
<1> QED
  BY <1>1, InitTypeInv, NextTypeInv, InitRepairInv, NextRepairInv, PTL DEF Spec

-----------------------------------------------------------------------------
(* 3. The end of a task                                                     *)

(* What storeStatus has read when it accepted a LOST is still true when it  *)
(* writes it: the only other writer of statuses, the launch recorder, never *)
(* writes a terminal one.                                                   *)
LostIsNews ==
    pc["driver"] = "set" =>
        /\ current.task \in Tasks
        /\ ~(/\ current.status.state = "LOST"
             /\ taskStatus[current.task] # None
             /\ IsTerminal(taskStatus[current.task].state))

LEMMA LostIsNewsStep == TypeInv /\ RepairInv /\ LostIsNews /\ [Next]_vars => LostIsNews'
<1> SUFFICES ASSUME TypeInv, RepairInv, LostIsNews, [Next]_vars, pc'["driver"] = "set"
             PROVE  LostIsNews'
  BY DEF LostIsNews
<1> DEFINE Same == UNCHANGED <<taskStatus, current>> /\ pc["driver"] = "set"
<1>1. CASE Same
  BY <1>1 DEF LostIsNews
<1>2. CASE StatusStore
  BY <1>2 DEF StatusStore, storeVars, Goto, StatusRejected, LostIsNews, RepairInv, StatusHasInfo,
              TypeInv, TypeOK, Threads
<1>3. CASE RecordStatus
  <2>1. UNCHANGED current /\ pc["driver"] = "set"
    BY <1>3 DEF RecordStatus, Goto, TypeInv, TypeOK, Threads
  <2>2. launch \in Launches /\ launch.staging \in DOMAIN launch.ids \cap Tasks
    BY <1>3 DEF RecordStatus, TypeInv, TypeOK, HandsUsed
  <2>3. taskStatus' = [taskStatus EXCEPT ![launch.staging] =
                          StatusOf(launch.ids[launch.staging], "STAGING")]
    BY <1>3 DEF RecordStatus, StoreStatus
  <2>4. taskStatus \in [Tasks -> TaskStatuses \cup {None}]
    BY DEF TypeInv, TypeOK, StoreTypeOK
  <2>5. ~IsTerminal(StatusOf(launch.ids[launch.staging], "STAGING").state)
    BY DEF IsTerminal, StatusOf
  <2> QED
    BY <2>1, <2>2, <2>3, <2>4, <2>5 DEF LostIsNews
<1>4. StatusStore \/ RecordStatus \/ Same
  <2> USE DEF TypeInv, TypeOK, Threads, Goto, storeVars, processVars, historyVars
  <2>1. CASE StartUp
    BY <2>1 DEF StartUp, RepairTasks, RepairStatus, RepairEnd, Registered
  <2>2. CASE Crash
    BY <2>2 DEF Crash, EmptyProcess
  <2>3. ASSUME NEW tasks \in (SUBSET Tasks) \ {{}}, NEW permanent \in BOOLEAN, StepStart(tasks, permanent)
        PROVE  Same
    BY <2>3 DEF StepStart
  <2>4. CASE KillTasks
    BY <2>4 DEF KillTasks
  <2>5. CASE EvaluateNothing
    BY <2>5 DEF EvaluateNothing
  <2>6. ASSUME NEW ids, Evaluate(ids) PROVE Same
    BY <2>6 DEF Evaluate
  <2>7. ASSUME NEW t \in Tasks, RecordInfo(t) PROVE Same
    BY <2>7 DEF RecordInfo
  <2>8. CASE RecordFails
    BY <2>8 DEF RecordFails
  <2>9. CASE AcceptOffers
    BY <2>9 DEF AcceptOffers
  <2>10. CASE StatusSet \/ StatusClean
    BY <2>10 DEF StatusSet, StatusClean
  <2>11. ASSUME NEW id \in TaskIds, KillUnexpectedTask(id) PROVE Same
    BY <2>11 DEF KillUnexpectedTask
  <2>12. CASE ReplaceFetch \/ HttpThread
    BY <2>12 DEF HttpThread, ReplaceFetch, ReplaceRead, ReplaceWrite, ReplaceKill
  <2>13. CASE Mesos
    BY <2>13 DEF Mesos, DeliverStatus, StatusUpdate, ExplicitAnswer, ImplicitAnswer, TaskEnds,
                 KillArrives, AgentLost, AgentReturns
  <2>14. CASE UNCHANGED vars
    BY <2>14 DEF vars
  <2> HIDE DEF TypeInv, Same
  <2> QED
    BY <2>1, <2>2, <2>3, <2>4, <2>5, <2>6, <2>7, <2>8, <2>9, <2>10, <2>11, <2>12, <2>13, <2>14
       DEF Next, OfferThread, DriverThread
<1> HIDE DEF Same
<1> QED
  BY <1>1, <1>2, <1>3, <1>4

LEMMA LostIsOrdered ==
    TypeInv /\ RepairInv /\ LostIsNews /\ [Next]_vars =>
        [\A t \in Tasks :
            taskStatus[t] # None /\ taskStatus'[t] # None /\ taskStatus[t].id = taskStatus'[t].id =>
                ~(IsTerminal(taskStatus[t].state) /\ taskStatus'[t].state = "LOST")]_vars
<1> SUFFICES ASSUME TypeInv, RepairInv, LostIsNews, [Next]_vars, NEW t \in Tasks,
                    taskStatus[t] # None, IsTerminal(taskStatus[t].state),
                    taskStatus'[t].state = "LOST"
             PROVE  FALSE
  OBVIOUS
<1>a. taskStatus \in [Tasks -> TaskStatuses \cup {None}]
  BY DEF TypeInv, TypeOK, StoreTypeOK
<1>1. ASSUME NEW u \in Tasks, RepairStatus(u) PROVE FALSE
  <2>1. repairs[u] \in TaskStatuses /\ taskStatus' = [taskStatus EXCEPT ![u] = repairs[u]]
    BY <1>1, RepairsType DEF RepairStatus, StoreStatus, TypeInv, TypeOK
  <2>2. u = t /\ taskStatus'[t] = repairs[t]
    BY <2>1, <1>a DEF IsTerminal
  <2>3. ~(repairs[t].state = "LOST" /\ IsTerminal(taskStatus[t].state))
    BY <1>1, <2>2 DEF RepairStatus, StatusRejected
  <2> QED
    BY <2>2, <2>3
<1>2. CASE RecordStatus
  <2>1. launch.staging \in DOMAIN launch.ids \cap Tasks
    BY <1>2 DEF RecordStatus, TypeInv, TypeOK, HandsUsed
  <2>2. taskStatus' = [taskStatus EXCEPT ![launch.staging] =
                          StatusOf(launch.ids[launch.staging], "STAGING")]
    BY <1>2 DEF RecordStatus, StoreStatus
  <2> QED
    BY <1>a, <2>1, <2>2 DEF IsTerminal, StatusOf
<1>3. CASE StatusSet
  BY <1>3, <1>a DEF StatusSet, StoreStatus, LostIsNews, IsTerminal
<1>4. CASE UNCHANGED taskStatus
  BY <1>4 DEF IsTerminal
<1>5. (\E u \in Tasks : RepairStatus(u)) \/ RecordStatus \/ StatusSet \/ UNCHANGED taskStatus
  BY DEF Next, StartUp, OfferThread, DriverThread, HttpThread, Mesos, vars, storeVars, RepairTasks,
         RepairEnd, Registered, Crash, StepStart, KillTasks, EvaluateNothing, Evaluate, RecordInfo,
         RecordFails, AcceptOffers, StatusStore, StatusClean, KillUnexpectedTask,
         ReplaceFetch, ReplaceRead, ReplaceWrite, ReplaceKill, DeliverStatus, StatusUpdate,
         ExplicitAnswer, ImplicitAnswer, TaskEnds, KillArrives, AgentLost, AgentReturns
<1> QED
  BY <1>1, <1>2, <1>3, <1>4, <1>5

(* The end of a task is never overwritten by a LOST of it, although the     *)
(* driver thread checks and writes in two steps and two other threads write.*)
THEOREM EndIsNotHidden == Spec => LostNeverHidesEnd
<1>1. Init => LostIsNews
  BY DEF Init, LostIsNews, Threads
<1> QED
  BY <1>1, InitTypeInv, NextTypeInv, InitRepairInv, NextRepairInv, LostIsNewsStep, LostIsOrdered, PTL
     DEF Spec, LostNeverHidesEnd
=============================================================================
