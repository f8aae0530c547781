------------------------------- MODULE Steps -------------------------------
(***************************************************************************)
(* One step of a plan and the three threads that move it: the offer thread  *)
(* launches its tasks and tells it so (updateOfferStatus), the driver's     *)
(* callback thread tells it what Mesos says (update), and an HTTP thread    *)
(* pauses, resumes or restarts the pod, or restarts or completes the step.  *)
(* The step's monitor keeps the first two apart; restart and forceComplete  *)
(* do not take it, and the goal state override of a task, which the step    *)
(* reads and writes back and "pod pause" overwrites, has no lock at all.    *)
(*                                                                         *)
(* The step is the pod's only one: when it is COMPLETE and a task of the    *)
(* pod needs recovery, a recovery step takes its place.  Its tasks are all  *)
(* launched together, each with a resource set of its own, a readiness      *)
(* check and the goal RUNNING (so FINISHED is a failure like KILLED).       *)
(* "prepared" is left out: it decides the status of a step with no tasks    *)
(* only, which is PENDING when created and PREPARED after each offer cycle. *)
(***************************************************************************)
EXTENDS StateStore

CONSTANT MaxFaults   \* bound: failures, crashes, requests and statuses sent again

ASSUME StepsAssumption ==
    /\ IsFiniteSet(Tasks)
    /\ TaskIds \subseteq Nat
    /\ None \notin {"STAGING", "RUNNING", "READY", "FAILED", "LOST"} \cup TaskStatuses
    /\ MaxFaults \in Nat

VARIABLES
    override,      \* override[t]: the stored goal state override of task t
    command,       \* command[id]: the command of the launch, "NONE" if not overridden
    used,          \* ids that have been given to a launch
    step,          \* status of the step, and of each task it waits for
    monitor,       \* who holds the step's monitor
    offers,        \* offer thread: where it is, the launch it works on
    driver,        \* driver thread: where it is, the status it handles
    http,          \* HTTP thread: where it is, the request it serves
    unreconciled,  \* ids to hear of before anything is launched
    life,          \* life[id]: what Mesos knows of the task, or None
    unheard,       \* ids whose state is still to be delivered
    kills,         \* killTask calls on their way
    history,       \* ids asked to die, ids that were ready; torn, missed: see below
    faults         \* failures and requests so far, against the bound

processVars == <<step, monitor, offers, driver, http, unreconciled>>
mesosVars == <<life, unheard, kills>>
vars == <<storeVars, override, command, used, processVars, mesosVars, history, faults>>

StepStatuses == {"PENDING", "PREPARED", "STARTING", "STARTED", "COMPLETE"}

Ids(ids) == {ids[t] : t \in DOMAIN ids}

NoIds == [t \in {} |-> None]

(* One more of the events that are bounded.                                 *)
Fault ==
    /\ faults < MaxFaults
    /\ faults' = faults + 1

Idle == [at |-> "idle", ids |-> NoIds, todo |-> {}, read |-> None]

Kill(ids) ==
    /\ kills' = kills \cup (ids \ {None})
    /\ history' = [history EXCEPT !.asked = @ \cup (ids \ {None})]

-----------------------------------------------------------------------------
(* 1. Goal state overrides                                                  *)

Override(target, progress) == [target |-> target, progress |-> progress]

Inactive == Override("NONE", "COMPLETE")

(* GoalStateOverride.Status.translateStatus                                 *)
Progress(status) ==
    CASE status = "PENDING" -> "PENDING"
      [] status \in {"STARTED", "COMPLETE"} -> "COMPLETE"
      [] OTHER -> "IN_PROGRESS"

(* The second half of setOverrideStatus: what was read, with the progress   *)
(* of the task's new status, unless it was over.                            *)
StoreProgress(t, read, status) ==
    override' = IF read.progress = "COMPLETE" THEN override
                ELSE [override EXCEPT ![t] = Override(read.target, Progress(status))]

-----------------------------------------------------------------------------
(* 2. The step                                                              *)

(* A step has the least status of its tasks (getStatus).                    *)
Least(statuses) ==
    IF statuses = {} THEN "PREPARED"
    ELSE IF "PENDING" \in statuses THEN "PENDING"
    ELSE IF "PREPARED" \in statuses THEN "PREPARED"
    ELSE IF "STARTING" \in statuses THEN "STARTING"
    ELSE IF "STARTED" \in statuses THEN "STARTED"
    ELSE "COMPLETE"

StepOf(tasks) == [status |-> Least({tasks[id] : id \in DOMAIN tasks}), tasks |-> tasks]

SetTask(id, status) == [step EXCEPT !.tasks = [@ EXCEPT ![id] = status]]

NewStep == [status |-> "PENDING", tasks |-> NoIds]

(* The status of a task that a status update stands for.                    *)
StatusFor(state) ==
    CASE state \in {"FAILED", "LOST"} -> "PENDING"
      [] state = "STAGING" -> "STARTING"
      [] state = "RUNNING" -> "STARTED"
      [] state = "READY" -> "COMPLETE"

-----------------------------------------------------------------------------
(* 3. The offer thread: DefaultPlanScheduler.resourceOffers for the step    *)

(* Mutant of ToKill: a task that is only staging is not killed.             *)
ToKillRunning ==
    {taskInfo[t] : t \in {u \in Tasks : taskInfo[u] # None /\ taskStatus[u] # None
                                        /\ taskStatus[u].state = "RUNNING"}}

(* The recorded tasks whose recorded status is not terminal: none faults    *)
(* as RUNNING, and TASK_LOST is not terminal.                               *)
ToKill ==
    {taskInfo[t] : t \in {u \in Tasks : taskInfo[u] # None /\
        (taskStatus[u] # None => ~IsTerminal(taskStatus[u].state))}}

(* A step that is PENDING or PREPARED is started: its tasks are killed.     *)
KillTasks ==
    /\ offers.at = "idle"
    /\ unreconciled = {}
    /\ step.status \in {"PENDING", "PREPARED"}
    /\ Kill(ToKill)
    /\ offers' = [offers EXCEPT !.at = "evaluate"]
    /\ UNCHANGED <<storeVars, override, command, used, step, monitor, driver, http, unreconciled,
                   life, unheard, faults>>

(* No offer fits.                                                           *)
EvaluateNothing ==
    /\ offers.at = "evaluate"
    /\ offers' = [offers EXCEPT !.at = "update"]
    /\ UNCHANGED <<storeVars, override, command, used, step, monitor, driver, http, unreconciled,
                   mesosVars, history, faults>>

(* An offer fits: the tasks get new ids, the next ones, and the commands    *)
(* that the override of this moment says.                                   *)
Evaluate ==
    /\ offers.at = "evaluate"
    /\ \E ids \in [Tasks -> TaskIds \ used] :
          /\ \A t, u \in Tasks : ids[t] = ids[u] => t = u
          /\ \A t \in Tasks, id \in TaskIds : id < ids[t] => id \in used \cup Ids(ids)
          /\ offers' = [at |-> "info", ids |-> ids, todo |-> Tasks, read |-> None]
          /\ used' = used \cup Ids(ids)
          /\ command' = [id \in TaskIds |->
                IF \E t \in Tasks : ids[t] = id
                THEN override[CHOOSE t \in Tasks : ids[t] = id].target ELSE command[id]]
    /\ UNCHANGED <<storeVars, override, step, monitor, driver, http, unreconciled, mesosVars,
                   history, faults>>

(* The launch recorder: TaskInfo and the STAGING status of each task.       *)
RecordInfo(t) ==
    /\ offers.at = "info"
    /\ t \in offers.todo
    /\ StoreTasks([u \in {t} |-> offers.ids[u]])
    /\ offers' = [offers EXCEPT !.at = "status", !.read = t]
    /\ UNCHANGED <<taskStatus, override, command, used, step, monitor, driver, http, unreconciled,
                   mesosVars, history, faults>>

RecordStatus ==
    /\ offers.at = "status"
    /\ LET t == offers.read IN
       /\ StoreStatus(t, StatusOf(offers.ids[t], "STAGING"))
       /\ offers' = [offers EXCEPT !.todo = @ \ {t}, !.read = None,
                                   !.at = IF offers.todo = {t} THEN "accept" ELSE "info"]
    /\ UNCHANGED <<taskInfo, override, command, used, step, monitor, driver, http, unreconciled,
                   mesosVars, history, faults>>

AcceptOffers ==
    /\ offers.at = "accept"
    /\ life' = [id \in TaskIds |-> IF id \in Ids(offers.ids) THEN "STAGING" ELSE life[id]]
    /\ offers' = [offers EXCEPT !.at = "update"]
    /\ UNCHANGED <<storeVars, override, command, used, step, monitor, driver, http, unreconciled,
                   unheard, kills, history, faults>>

(* updateOfferStatus with nothing launched.                                 *)
UpdateEmpty ==
    /\ offers.at = "update"
    /\ offers.ids = NoIds
    /\ monitor = "free"
    /\ step' = StepOf(NoIds)
    /\ offers' = Idle
    /\ UNCHANGED <<storeVars, override, command, used, monitor, driver, http, unreconciled,
                   mesosVars, history, faults>>

(* updateOfferStatus after a launch forgets what it waited for, then sets   *)
(* each task's status, which writes its override back.                      *)
UpdateBegin ==
    /\ offers.at = "update"
    /\ offers.ids # NoIds
    /\ monitor = "free"
    /\ monitor' = "offers"
    /\ step' = [step EXCEPT !.tasks = [id \in Ids(offers.ids) |-> "PREPARED"]]
    /\ offers' = [offers EXCEPT !.at = "set", !.todo = Tasks]
    /\ UNCHANGED <<storeVars, override, command, used, driver, http, unreconciled, mesosVars,
                   history, faults>>

UpdateFetch(t) ==
    /\ offers.at = "set"
    /\ t \in offers.todo
    /\ step' = SetTask(offers.ids[t], "STARTING")
    /\ offers' = [offers EXCEPT !.at = "store", !.read = [task |-> t, override |-> override[t]]]
    /\ UNCHANGED <<storeVars, override, command, used, monitor, driver, http, unreconciled,
                   mesosVars, history, faults>>

UpdateStore ==
    /\ offers.at = "store"
    /\ StoreProgress(offers.read.task, offers.read.override, "STARTING")
    /\ offers' = [offers EXCEPT !.at = "set", !.todo = @ \ {offers.read.task}, !.read = None]
    /\ UNCHANGED <<storeVars, command, used, step, monitor, driver, http, unreconciled,
                   mesosVars, history, faults>>

UpdateEnd ==
    /\ offers.at = "set"
    /\ offers.todo = {}
    /\ step' = StepOf(step.tasks)
    /\ monitor' = "free"
    /\ offers' = Idle
    /\ UNCHANGED <<storeVars, override, command, used, driver, http, unreconciled, mesosVars,
                   history, faults>>

(* getCandidates of the recovery plan replaces a step that is COMPLETE.     *)
Recover ==
    /\ offers.at = "idle"
    /\ unreconciled = {}
    /\ step.status = "COMPLETE"
    /\ \E s \in StoredStatuses : IsRecoveryNeeded(s.state)
    /\ monitor = "free"
    /\ step' = NewStep
    /\ UNCHANGED <<storeVars, override, command, used, monitor, offers, driver, http, unreconciled,
                   mesosVars, history, faults>>

-----------------------------------------------------------------------------
(* 4. The driver's thread: processStatusUpdate                              *)

NoStatus == [at |-> "idle", id |-> None, state |-> None, read |-> None]

(* What Mesos says of an id: TASK_LOST when it was never launched.          *)
Truth(id) == IF life[id] = None THEN "LOST" ELSE life[id]

StoredState(state) == IF state = "READY" THEN "RUNNING" ELSE state

(* storeStatus reads and decides, and an exception ends the handler ...     *)
StatusUpdate(id) ==
    /\ driver.at = "idle"
    /\ id \in unheard
    /\ unheard' = unheard \ {id}
    /\ unreconciled' = unreconciled \ {id}
    /\ LET known == {t \in NamesOf(id) : ~StatusRejected(t, StatusOf(id, StoredState(Truth(id))))} IN
       driver' = IF known = {} THEN NoStatus
                 ELSE [at |-> "write", id |-> id, state |-> Truth(id), read |-> CHOOSE t \in known : TRUE]
    /\ UNCHANGED <<storeVars, override, command, used, step, monitor, offers, http, life, kills,
                   history, faults>>

(* ... and then writes.  The records are torn when the name has by now the  *)
(* TaskInfo of another launch.                                              *)
StatusWrite ==
    /\ driver.at = "write"
    /\ StoreStatus(driver.read, StatusOf(driver.id, StoredState(driver.state)))
    /\ history' = [history EXCEPT !.torn = @ \/ taskInfo[driver.read] # driver.id]
    /\ driver' = [driver EXCEPT !.at = "update"]
    /\ UNCHANGED <<taskInfo, override, command, used, step, monitor, offers, http, unreconciled,
                   mesosVars, faults>>

(* update does not know the id, or the step is COMPLETE.  It is a miss when *)
(* the id is of the launch that the offer thread has yet to tell it of.     *)
StepIgnores ==
    /\ driver.at = "update"
    /\ monitor = "free"
    /\ driver.id \notin DOMAIN step.tasks \/ step.status = "COMPLETE"
    /\ history' = [history EXCEPT !.missed =
            IF driver.id \in Ids(offers.ids) THEN @ \cup {driver.id} ELSE @]
    /\ driver' = NoStatus
    /\ UNCHANGED <<storeVars, override, command, used, step, monitor, offers, http, unreconciled,
                   mesosVars, faults>>

(* Mutant of StepFetch: readiness is not looked at.                         *)
StepFetchUnready ==
    /\ driver.at = "update"
    /\ monitor = "free"
    /\ driver.id \in DOMAIN step.tasks
    /\ step.status # "COMPLETE"
    /\ monitor' = "driver"
    /\ step' = SetTask(driver.id, IF driver.state = "RUNNING" THEN "COMPLETE" ELSE StatusFor(driver.state))
    /\ driver' = [driver EXCEPT !.at = "store",
                     !.read = [task |-> driver.read, override |-> override[driver.read]]]
    /\ UNCHANGED <<storeVars, override, command, used, offers, http, unreconciled, mesosVars,
                   history, faults>>

(* Mutant of StepFetch: update is not synchronized.                         *)
StepFetchUnlocked ==
    /\ driver.at = "update"
    /\ driver.id \in DOMAIN step.tasks
    /\ step.status # "COMPLETE"
    /\ monitor' = "driver"
    /\ step' = SetTask(driver.id, StatusFor(driver.state))
    /\ driver' = [driver EXCEPT !.at = "store",
                     !.read = [task |-> driver.read, override |-> override[driver.read]]]
    /\ UNCHANGED <<storeVars, override, command, used, offers, http, unreconciled, mesosVars,
                   history, faults>>

(* update sets the task's status, and with it the override and the status   *)
(* of the step.                                                             *)
StepFetch ==
    /\ driver.at = "update"
    /\ monitor = "free"
    /\ driver.id \in DOMAIN step.tasks
    /\ step.status # "COMPLETE"
    /\ monitor' = "driver"
    /\ step' = SetTask(driver.id, StatusFor(driver.state))
    /\ driver' = [driver EXCEPT !.at = "store",
                     !.read = [task |-> driver.read, override |-> override[driver.read]]]
    /\ UNCHANGED <<storeVars, override, command, used, offers, http, unreconciled, mesosVars,
                   history, faults>>

(* Mutant of StepStore: a failure does not make the step PENDING again.     *)
StepStoreStuck ==
    /\ driver.at = "store"
    /\ StoreProgress(driver.read.task, driver.read.override, step.tasks[driver.id])
    /\ step' = IF StatusFor(driver.state) = "PENDING" THEN step ELSE StepOf(step.tasks)
    /\ monitor' = "free"
    /\ driver' = NoStatus
    /\ UNCHANGED <<storeVars, command, used, offers, http, unreconciled, mesosVars, history, faults>>

StepStore ==
    /\ driver.at = "store"
    /\ StoreProgress(driver.read.task, driver.read.override, step.tasks[driver.id])
    /\ step' = StepOf(step.tasks)
    /\ monitor' = "free"
    /\ driver' = NoStatus
    /\ UNCHANGED <<storeVars, command, used, offers, http, unreconciled, mesosVars, history, faults>>

-----------------------------------------------------------------------------
(* 5. The HTTP thread                                                       *)

Recorded == {t \in Tasks : taskInfo[t] # None}

(* "pod pause" and "pod resume" read the tasks, ...                         *)
OverrideFetch(target) ==
    /\ http.at = "idle"
    /\ Recorded # {}
    /\ Fault
    /\ http' = [at |-> "store", ids |-> [t \in Recorded |-> taskInfo[t]], todo |-> Recorded,
                read |-> target]
    /\ UNCHANGED <<storeVars, override, command, used, step, monitor, offers, driver, unreconciled,
                   mesosVars, history>>

(* ... store the override of each, ...                                      *)
OverrideStore(t) ==
    /\ http.at = "store"
    /\ t \in http.todo
    /\ override' = [override EXCEPT ![t] = Override(http.read, "PENDING")]
    /\ http' = [http EXCEPT !.todo = @ \ {t}, !.at = IF http.todo = {t} THEN "kill" ELSE "store"]
    /\ UNCHANGED <<storeVars, command, used, step, monitor, offers, driver, unreconciled,
                   mesosVars, history, faults>>

(* "pod restart" only reads the tasks ...                                   *)
RestartFetch ==
    /\ http.at = "idle"
    /\ Recorded # {}
    /\ Fault
    /\ http' = [at |-> "kill", ids |-> [t \in Recorded |-> taskInfo[t]], todo |-> {}, read |-> None]
    /\ UNCHANGED <<storeVars, override, command, used, step, monitor, offers, driver, unreconciled,
                   mesosVars, history>>

(* ... and all three kill the ids that they have read.                      *)
HttpKill ==
    /\ http.at = "kill"
    /\ Kill(Ids(http.ids))
    /\ http' = Idle
    /\ UNCHANGED <<storeVars, override, command, used, step, monitor, offers, driver, unreconciled,
                   life, unheard, faults>>

(* "plan restart" and "plan force-complete" of the step.                    *)
RestartStep ==
    /\ Fault
    /\ step' = [step EXCEPT !.status = "PENDING"]
    /\ UNCHANGED <<storeVars, override, command, used, monitor, offers, driver, http, unreconciled,
                   mesosVars, history>>

ForceComplete ==
    /\ Fault
    /\ step.status # "COMPLETE"
    /\ step' = [step EXCEPT !.status = "COMPLETE"]
    /\ UNCHANGED <<storeVars, override, command, used, monitor, offers, driver, http, unreconciled,
                   mesosVars, history>>

-----------------------------------------------------------------------------
(* 6. Mesos                                                                 *)

Alive(id) == life[id] \in {"STAGING", "RUNNING", "READY"}

Becomes(id, state) ==
    /\ life' = [life EXCEPT ![id] = state]
    /\ unheard' = unheard \cup {id}

(* A paused task's readiness check never succeeds.                          *)
TaskRuns(id) ==
    /\ \/ life[id] = "STAGING" /\ Becomes(id, "RUNNING")
       \/ life[id] = "RUNNING" /\ command[id] = "NONE" /\ Becomes(id, "READY")
    /\ history' = [history EXCEPT !.ready = IF life[id] = "RUNNING" THEN @ \cup {id} ELSE @]
    /\ UNCHANGED <<storeVars, override, command, used, processVars, kills, faults>>

TaskFails(id) ==
    /\ Alive(id)
    /\ Fault
    /\ Becomes(id, "FAILED")
    /\ UNCHANGED <<storeVars, override, command, used, processVars, kills, history>>

(* A kill that comes before the launch is lost.                             *)
KillArrives(id) ==
    /\ id \in kills
    /\ kills' = kills \ {id}
    /\ IF Alive(id) THEN Becomes(id, "FAILED") ELSE UNCHANGED <<life, unheard>>
    /\ history' = [history EXCEPT !.asked = IF life[id] = None THEN @ \ {id} ELSE @]
    /\ UNCHANGED <<storeVars, override, command, used, processVars, faults>>

Resend(id) ==
    /\ life[id] # None
    /\ id \notin unheard
    /\ Fault
    /\ unheard' = unheard \cup {id}
    /\ UNCHANGED <<storeVars, override, command, used, processVars, life, kills, history>>

-----------------------------------------------------------------------------
(* 7. A new process                                                         *)

(* repairTaskIDs (module TaskRecords has its steps).                        *)
RepairedInfo == [t \in Tasks |-> IF taskStatus[t] = None THEN taskInfo[t] ELSE taskStatus[t].id]

RepairedStatus == [t \in Tasks |->
    IF taskInfo[t] = RepairedInfo[t] /\ (taskInfo[t] # None => taskStatus[t] # None)
    THEN taskStatus[t] ELSE StatusOf(RepairedInfo[t], "FAILED")]

(* DefaultStepFactory: all at their goal, with the same configuration.      *)
InitialStatus ==
    IF \A t \in Tasks : RepairedStatus[t] # None /\ RepairedStatus[t].state = "RUNNING"
    THEN "COMPLETE" ELSE "PENDING"

(* Mutant of PendingOverrides: the last loop of killUnneededTasks is gone.  *)
PendingOverridesNone == {}

(* killUnneededTasks: a pause whose kill has not been processed.            *)
PendingOverrides == {RepairedInfo[t] : t \in {u \in Tasks : override[u].progress = "PENDING"}}

(* The process dies; its kills may be lost.  The next one repairs the       *)
(* records, builds the plan, repeats what may have been lost and reconciles.*)
Crash ==
    /\ Fault
    /\ taskInfo' = RepairedInfo
    /\ taskStatus' = RepairedStatus
    /\ step' = [status |-> InitialStatus, tasks |-> NoIds]
    /\ monitor' = "free"
    /\ offers' = Idle
    /\ http' = Idle
    /\ driver' = NoStatus
    /\ kills' \in {k \cup (PendingOverrides \ {None}) : k \in {{}, kills}}
    /\ history' = [history EXCEPT !.asked = @ \cup (PendingOverrides \ {None}), !.missed = {}]
    /\ unreconciled' = {s.id : s \in {RepairedStatus[t] : t \in
            {u \in Tasks : RepairedStatus[u] # None /\ ~IsTerminal(RepairedStatus[u].state)}}}
    /\ unheard' = unheard \cup unreconciled' \cup {id \in TaskIds : Alive(id)}
    /\ UNCHANGED <<override, command, used, life>>

-----------------------------------------------------------------------------
Init ==
    /\ taskInfo = [t \in Tasks |-> None]
    /\ taskStatus = [t \in Tasks |-> None]
    /\ override = [t \in Tasks |-> Inactive]
    /\ command = [id \in TaskIds |-> "NONE"]
    /\ used = {}
    /\ step = NewStep
    /\ monitor = "free"
    /\ offers = Idle
    /\ driver = NoStatus
    /\ http = Idle
    /\ unreconciled = {}
    /\ life = [id \in TaskIds |-> None]
    /\ unheard = {}
    /\ kills = {}
    /\ history = [asked |-> {}, ready |-> {}, torn |-> FALSE, missed |-> {}]
    /\ faults = 0

OfferThread ==
    \/ KillTasks \/ EvaluateNothing \/ Evaluate
    \/ \E t \in Tasks : RecordInfo(t) \/ UpdateFetch(t)
    \/ RecordStatus \/ AcceptOffers \/ UpdateEmpty \/ UpdateBegin \/ UpdateStore \/ UpdateEnd
    \/ Recover

DriverThread ==
    \/ \E id \in TaskIds : StatusUpdate(id)
    \/ StatusWrite \/ StepIgnores \/ StepFetch \/ StepStore

HttpThread ==
    \/ \E target \in {"NONE", "PAUSED"} : OverrideFetch(target)
    \/ \E t \in Tasks : OverrideStore(t)
    \/ RestartFetch \/ HttpKill \/ RestartStep \/ ForceComplete

Mesos ==
    \E id \in TaskIds : TaskRuns(id) \/ TaskFails(id) \/ KillArrives(id) \/ Resend(id)

Next == OfferThread \/ DriverThread \/ HttpThread \/ Mesos \/ Crash

(* The threads run, an offer that fits comes back again and again, and      *)
(* Mesos delivers, kills and starts tasks.                                  *)
Fairness ==
    /\ WF_vars(OfferThread)
    /\ SF_vars(Evaluate)
    /\ WF_vars(DriverThread)
    /\ WF_vars((\E t \in Tasks : OverrideStore(t)) \/ HttpKill)
    /\ WF_vars(\E id \in TaskIds : TaskRuns(id))
    /\ WF_vars(\E id \in TaskIds : KillArrives(id))

Spec == Init /\ [][Next]_vars

FairSpec == Spec /\ Fairness

-----------------------------------------------------------------------------
(* 8. Properties                                                            *)

(* Type invariant: also, the monitor is held by who is in the middle of a   *)
(* synchronized method, and the step waits for ids of launches only.        *)
TypeOK ==
    /\ StoreTypeOK
    /\ override \in [Tasks -> [target : {"NONE", "PAUSED"},
                               progress : {"PENDING", "IN_PROGRESS", "COMPLETE"}]]
    /\ step.status \in StepStatuses
    /\ DOMAIN step.tasks \subseteq used
    /\ \A id \in DOMAIN step.tasks : step.tasks[id] \in StepStatuses
    /\ (monitor = "offers") <=> (offers.at \in {"set", "store"})
    /\ (monitor = "driver") <=> (driver.at = "store")
    /\ unheard \cup kills \cup unreconciled \subseteq used

(* Two tasks run under one name, both wanted: the kill that comes before a  *)
(* launch missed one.                                                       *)
NoTwins == Cardinality({id \in TaskIds : Alive(id) /\ id \notin history.asked}) <= Cardinality(Tasks)

(* It takes torn records: as long as no status was written over those of    *)
(* another launch, a launch kills what it replaces.                         *)
TwinsOnlyWhenTorn == history.torn \/ NoTwins

(* A step becomes COMPLETE by itself only when every task it launched has   *)
(* been reported ready by Mesos.                                            *)
CompletesOnlyOnGoal ==
    [][ (step.status # "COMPLETE" /\ step'.status = "COMPLETE" /\ faults' = faults)
        => /\ Cardinality(DOMAIN step.tasks) = Cardinality(Tasks)
           /\ DOMAIN step.tasks \subseteq history.ready ]_vars

(* Once there are no more faults and requests, the step is settled: all its *)
(* tasks run, with the step COMPLETE, or STARTED when one of them is paused.*)
Settled ==
    /\ \A t \in Recorded : Alive(taskInfo[t])
    /\ step.status \in {"STARTED", "COMPLETE"}

StepSettles == <>[](Settled \/ history.missed # {} \/ history.torn)
=============================================================================
