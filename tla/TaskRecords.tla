----------------------------- MODULE TaskRecords -----------------------------
(***************************************************************************)
(* What is written about the tasks of one pod instance, by whom, and what   *)
(* is left of it after a crash.                                             *)
(*                                                                         *)
(* The offer thread replaces TaskInfos and statuses when it launches, the   *)
(* driver's callback thread stores the statuses that arrive, the HTTP       *)
(* thread of "pod replace" rewrites TaskInfos, and the threads of the       *)
(* TaskCleaner read them to find tasks that nobody knows.  Nothing but the  *)
(* persister's single reads and writes is atomic (module StateStore).  A    *)
(* new process first repairs what the old one left half written.            *)
(*                                                                         *)
(* The pod's tasks have a resource set each.  Which tasks a step launches,  *)
(* and when, is arbitrary (an operator can restart any step), except that a *)
(* launch waits for explicit reconciliation (module OfferCycle).  A task    *)
(* that has ended is FAILED here: storeStatus treats FINISHED the same way. *)
(***************************************************************************)
EXTENDS StateStore

CONSTANTS MaxCrashes,   \* bound: crashes of the scheduler
          MaxReplaces,  \* bound: "pod replace" requests
          MaxFailures,  \* bound: writes of the launch recorder that throw
          MaxLost,      \* bound: how often an agent is lost from sight
          MaxFaults     \* bound: all of these together

ASSUME TaskRecordsAssumption ==
    /\ MaxCrashes \in Nat
    /\ MaxReplaces \in Nat
    /\ MaxFailures \in Nat
    /\ MaxLost \in Nat
    /\ MaxFaults \in Nat

Threads == {"driver", "offers", "http"}

VARIABLES
    phase,         \* of the process: "down", "repair", "registering" or "up"
    pc,            \* label of each thread while the process is up
    failed,        \* tasks whose TaskInfo has the label "permanently failed"
    repairs,       \* repairTaskIDs: statuses that are still to be written
    unreconciled,  \* ids to hear of before anything is launched
    implicitDone,  \* the implicit reconciliation request has been answered
    launch,        \* offer thread: the launch it is working on, or None
    used,          \* ids that have been used for a launch
    accepted,      \* history: ids that Mesos has been asked to launch
    current,       \* driver thread: the status it is handling, or None
    cleaning,      \* statuses handed to the TaskCleaner's threads: their ids
    replace,       \* HTTP thread: what it has read
    alive,         \* tasks that run on some agent
    away,          \* those of them whose agent is out of reach
    statuses,      \* statuses on their way to the scheduler, until handled
    kills,         \* killTask calls on their way
    counts         \* crashes, requests, failures so far, against the bounds

processVars == <<phase, pc, repairs, unreconciled, implicitDone, launch, current, cleaning, replace>>
historyVars == <<used, accepted, counts>>
mesosVars == <<alive, away, statuses, kills>>
vars == <<storeVars, failed, processVars, historyVars, mesosVars>>

Goto(t, label) == pc' = [pc EXCEPT ![t] = label]

(* One more of the events that are bounded.                                 *)
Count(what, max) ==
    /\ counts[what] < max
    /\ counts.crash + counts.replace + counts.failure + counts.lost < MaxFaults
    /\ counts' = [counts EXCEPT ![what] = @ + 1]

(* Mutant of Kill: TaskKiller does not look at the id.                      *)
KillAny(ids) == kills' = kills \cup ids

(* killTask is a message to Mesos; TaskKiller never asks for the id "".     *)
Kill(ids) == kills' = kills \cup (ids \ {EmptyId, None})

NoRecords == [t \in {} |-> None]

NoReplace == [ids |-> {}, infos |-> NoRecords]

(* What a new process has in memory.                                        *)
EmptyProcess ==
    /\ pc' = [t \in Threads |-> "idle"]
    /\ unreconciled' = {}
    /\ implicitDone' = FALSE
    /\ launch' = None
    /\ current' = None
    /\ cleaning' = {}
    /\ replace' = NoReplace

-----------------------------------------------------------------------------
(* 1. Start-up: repairTaskIDs in StateStore's constructor, and registration *)

Inconsistent(t) ==
    /\ taskInfo[t] # None
    /\ IF taskStatus[t] = None THEN taskInfo[t] # EmptyId ELSE taskStatus[t].id # taskInfo[t]

(* Mutant of RepairTasks: a TaskInfo without a status is not repaired.      *)
RepairTasksNoStatus ==
    /\ phase = "down"
    /\ phase' = "repair"
    /\ StoreTasks([t \in {u \in Tasks : Inconsistent(u) /\ taskStatus[u] # None} |-> taskStatus[t].id])
    /\ repairs' = [t \in {u \in Tasks : Inconsistent(u) /\ taskStatus[u] # None} |->
                      StatusOf(taskStatus[t].id, "FAILED")]
    /\ UNCHANGED <<taskStatus, failed, pc, unreconciled, implicitDone, launch, current, cleaning,
                   replace, historyVars, mesosVars>>

(* All the TaskInfos are repaired in one write: the id of the status wins.  *)
RepairTasks ==
    /\ phase = "down"
    /\ phase' = "repair"
    /\ StoreTasks([t \in {u \in Tasks : Inconsistent(u) /\ taskStatus[u] # None} |-> taskStatus[t].id])
    /\ repairs' = [t \in {u \in Tasks : Inconsistent(u)} |->
                      StatusOf(IF taskStatus[t] = None THEN taskInfo[t] ELSE taskStatus[t].id, "FAILED")]
    /\ UNCHANGED <<taskStatus, failed, pc, unreconciled, implicitDone, launch, current, cleaning,
                   replace, historyVars, mesosVars>>

(* Then the statuses, one by one, through storeStatus.                      *)
RepairStatus(t) ==
    /\ phase = "repair"
    /\ t \in DOMAIN repairs
    /\ ~StatusRejected(t, repairs[t])
    /\ StoreStatus(t, repairs[t])
    /\ repairs' = [u \in DOMAIN repairs \ {t} |-> repairs[u]]
    /\ UNCHANGED <<taskInfo, failed, phase, pc, unreconciled, implicitDone, launch, current,
                   cleaning, replace, historyVars, mesosVars>>

RepairEnd ==
    /\ phase = "repair"
    /\ DOMAIN repairs = {}
    /\ phase' = "registering"
    /\ UNCHANGED <<storeVars, failed, pc, repairs, unreconciled, implicitDone, launch, current,
                   cleaning, replace, historyVars, mesosVars>>

(* Mutant of Registered: tasks that are only staging are not asked for.     *)
RegisteredRunningOnly ==
    /\ phase = "registering"
    /\ phase' = "up"
    /\ unreconciled' = {s.id : s \in {r \in StoredStatuses : r.state = "RUNNING"}}
    /\ UNCHANGED <<storeVars, failed, pc, repairs, implicitDone, launch, current, cleaning, replace,
                   historyVars, mesosVars>>

(* registered(): explicit reconciliation of the tasks believed alive.       *)
Registered ==
    /\ phase = "registering"
    /\ phase' = "up"
    /\ unreconciled' = {s.id : s \in {r \in StoredStatuses : ~IsTerminal(r.state)}}
    /\ UNCHANGED <<storeVars, failed, pc, repairs, implicitDone, launch, current, cleaning, replace,
                   historyVars, mesosVars>>

(* The process dies, wherever it is.  A status whose callback had not       *)
(* returned is not acknowledged, and so comes again if it is an agent's.    *)
(* Calls to the driver may or may not have left.                            *)
Crash ==
    /\ phase # "down"
    /\ Count("crash", MaxCrashes)
    /\ phase' = "down"
    /\ EmptyProcess
    /\ repairs' = NoRecords
    /\ statuses' = {s \in statuses : s.state # "LOST"}
    /\ kills' \in {kills, {}}
    /\ UNCHANGED <<storeVars, failed, used, accepted, alive, away>>

-----------------------------------------------------------------------------
(* 2. The offer thread: DefaultPlanScheduler for one step                   *)

(* The step names the tasks to launch.  A recovery is permanent for tasks   *)
(* that are labelled as failed or that have been dead for too long, and     *)
(* then labels every TaskInfo of the pod (DefaultRecoveryStep.start).       *)
StepStart(tasks, permanent) ==
    /\ phase = "up"
    /\ pc["offers"] = "idle"
    /\ unreconciled = {}
    /\ IF permanent
       THEN /\ \A t \in tasks : taskStatus[t] # None
            /\ \A t \in tasks : t \in failed \/ IsRecoveryNeeded(taskStatus[t].state)
            /\ failed' = failed \cup {t \in Tasks : taskInfo[t] # None}
       ELSE UNCHANGED failed
    /\ launch' = [tasks |-> tasks, permanent |-> permanent, ids |-> NoRecords,
                  records |-> NoRecords, staging |-> None]
    /\ Goto("offers", "kill")
    /\ UNCHANGED <<storeVars, phase, repairs, unreconciled, implicitDone, current, cleaning, replace,
                   historyVars, mesosVars>>

(* killTasks: the tasks of these names, unless their status is terminal.    *)
KillTasks ==
    /\ pc["offers"] = "kill"
    /\ Kill({taskInfo[t] : t \in {u \in launch.tasks :
                 taskStatus[u] = None \/ ~IsTerminal(taskStatus[u].state)}})
    /\ Goto("offers", "evaluate")
    /\ UNCHANGED <<storeVars, failed, phase, repairs, unreconciled, implicitDone, launch, current,
                   cleaning, replace, historyVars, alive, away, statuses>>

(* getEvaluationPipeline: a pod that is new, or that has failed for good,   *)
(* gets new reservations, also for the tasks that are not launched now.     *)
NewRequirement ==
    LET known == {t \in Tasks : taskInfo[t] # None}
    IN  launch.permanent \/ known \subseteq failed

(* evaluate: no offer fits; or one does, and there is a TaskInfo to store   *)
(* with a new id for each task to launch, and with the id "" for the rest.  *)
EvaluateNothing ==
    /\ pc["offers"] = "evaluate"
    /\ launch' = None
    /\ Goto("offers", "idle")
    /\ UNCHANGED <<storeVars, failed, phase, repairs, unreconciled, implicitDone, current, cleaning,
                   replace, historyVars, mesosVars>>

Evaluate(ids) ==
    /\ pc["offers"] = "evaluate"
    /\ ids \in [launch.tasks -> TaskIds \ used]
    /\ \A t, u \in launch.tasks : ids[t] = ids[u] => t = u
    /\ used' = used \cup {ids[t] : t \in launch.tasks}
    /\ launch' = [launch EXCEPT
          !.ids = ids,
          !.records = [t \in IF NewRequirement THEN Tasks ELSE launch.tasks |->
                          IF t \in launch.tasks THEN ids[t] ELSE EmptyId]]
    /\ Goto("offers", "record")
    /\ UNCHANGED <<storeVars, failed, phase, repairs, unreconciled, implicitDone, current, cleaning,
                   replace, accepted, counts, mesosVars>>

(* PersistentLaunchRecorder.record, for one recommendation: the TaskInfo    *)
(* (with fresh labels), and then STAGING, unless the id is "".              *)
RecordInfo(t) ==
    /\ pc["offers"] = "record"
    /\ t \in DOMAIN launch.records
    /\ StoreTasks([u \in {t} |-> launch.records[t]])
    /\ failed' = failed \ {t}
    /\ launch' = [launch EXCEPT !.records = [u \in DOMAIN @ \ {t} |-> @[u]],
                                !.staging = IF launch.records[t] = EmptyId THEN None ELSE t]
    /\ Goto("offers", IF launch.records[t] = EmptyId THEN "record" ELSE "status")
    /\ UNCHANGED <<taskStatus, phase, repairs, unreconciled, implicitDone, current, cleaning,
                   replace, historyVars, mesosVars>>

RecordStatus ==
    /\ pc["offers"] = "status"
    /\ StoreStatus(launch.staging, StatusOf(launch.ids[launch.staging], "STAGING"))
    /\ launch' = [launch EXCEPT !.staging = None]
    /\ Goto("offers", "record")
    /\ UNCHANGED <<taskInfo, failed, phase, repairs, unreconciled, implicitDone, current, cleaning,
                   replace, historyVars, mesosVars>>

(* One of the writes throws: accept() gives up and nothing is launched.     *)
RecordFails ==
    /\ pc["offers"] \in {"record", "status"}
    /\ DOMAIN launch.records # {} \/ pc["offers"] = "status"
    /\ Count("failure", MaxFailures)
    /\ launch' = None
    /\ Goto("offers", "idle")
    /\ UNCHANGED <<storeVars, failed, phase, repairs, unreconciled, implicitDone, current, cleaning,
                   replace, used, accepted, mesosVars>>

LaunchIds == {launch.ids[t] : t \in DOMAIN launch.ids}

(* driver.acceptOffers: the tasks run, or, if the offer is void, are LOST.  *)
AcceptOffers ==
    /\ pc["offers"] = "record"
    /\ DOMAIN launch.records = {}
    /\ accepted' = accepted \cup LaunchIds
    /\ \/ /\ alive' = alive \cup LaunchIds
          /\ statuses' = statuses \cup {StatusOf(id, "RUNNING") : id \in LaunchIds}
       \/ /\ statuses' = statuses \cup {StatusOf(id, "LOST") : id \in LaunchIds}
          /\ UNCHANGED alive
    /\ launch' = None
    /\ Goto("offers", "idle")
    /\ UNCHANGED <<storeVars, failed, phase, repairs, unreconciled, implicitDone, current, cleaning,
                   replace, used, counts, away, kills>>

-----------------------------------------------------------------------------
(* 3. The driver's callback thread: statusUpdate                            *)

(* processStatusUpdate looks for the task with this id, and throws if there *)
(* is none.  An agent sends the end of a task after its start.              *)
StatusUpdate(s) ==
    /\ phase = "up"
    /\ pc["driver"] = "idle"
    /\ s \in statuses
    /\ s.state = "FAILED" => StatusOf(s.id, "RUNNING") \notin statuses
    /\ \/ \E t \in NamesOf(s.id) :
             /\ NamesOf(s.id) = {t}
             /\ current' = [task |-> t, status |-> s]
             /\ Goto("driver", "store")
       \/ /\ \A t \in Tasks : NamesOf(s.id) # {t}
          /\ current' = [task |-> None, status |-> s]
          /\ Goto("driver", "clean")
    /\ UNCHANGED <<storeVars, failed, phase, repairs, unreconciled, implicitDone, launch, cleaning,
                   replace, historyVars, mesosVars>>

DeliverStatus(id) == \E s \in TaskStatuses : s.id = id /\ StatusUpdate(s)

(* storeStatus reads the stored status, and may refuse the new one ...      *)
StatusStore ==
    /\ pc["driver"] = "store"
    /\ Goto("driver", IF StatusRejected(current.task, current.status) THEN "clean" ELSE "set")
    /\ UNCHANGED <<storeVars, failed, phase, repairs, unreconciled, implicitDone, launch, current,
                   cleaning, replace, historyVars, mesosVars>>

(* ... and then writes it.  The plans and the reconciler are told.          *)
StatusSet ==
    /\ pc["driver"] = "set"
    /\ StoreStatus(current.task, current.status)
    /\ unreconciled' = unreconciled \ {current.status.id}
    /\ Goto("driver", "clean")
    /\ UNCHANGED <<taskInfo, failed, phase, repairs, implicitDone, launch, current, cleaning,
                   replace, historyVars, mesosVars>>

(* In any case the TaskCleaner gets a live status; the callback returns,    *)
(* which acknowledges the status.                                           *)
StatusClean ==
    /\ pc["driver"] = "clean"
    /\ cleaning' = cleaning \cup (IF current.status.state = "RUNNING" THEN {current.status.id} ELSE {})
    /\ statuses' = statuses \ {current.status}
    /\ current' = None
    /\ Goto("driver", "idle")
    /\ UNCHANGED <<storeVars, failed, phase, repairs, unreconciled, implicitDone, launch, replace,
                   historyVars, alive, away, kills>>

(* Mutant of KillUnexpectedTask: nothing is killed.                         *)
KillUnexpectedTaskNever(id) ==
    /\ id \in cleaning
    /\ cleaning' = cleaning \ {id}
    /\ UNCHANGED <<storeVars, failed, phase, pc, repairs, unreconciled, implicitDone, launch, current,
                   replace, historyVars, mesosVars>>

(* TaskCleaner.killUnexpectedTask, on a thread of its pool.                 *)
KillUnexpectedTask(id) ==
    /\ id \in cleaning
    /\ cleaning' = cleaning \ {id}
    /\ Kill({id} \ StoredIds)
    /\ UNCHANGED <<storeVars, failed, phase, pc, repairs, unreconciled, implicitDone, launch, current,
                   replace, historyVars, alive, away, statuses>>

-----------------------------------------------------------------------------
(* 4. An HTTP thread: PodResource.replacePod                                *)

(* What the pod looks like, for the kills at the end.  A pod that has only  *)
(* TaskInfos with the id "" is not labelled.                                *)
ReplaceFetch ==
    /\ phase = "up"
    /\ pc["http"] = "idle"
    /\ \E t \in Tasks : taskInfo[t] # None
    /\ Count("replace", MaxReplaces)
    /\ replace' = [replace EXCEPT !.ids = StoredIds]
    /\ Goto("http", IF StoredIds = {} THEN "kill" ELSE "read")
    /\ UNCHANGED <<storeVars, failed, phase, repairs, unreconciled, implicitDone, launch, current,
                   cleaning, used, accepted, mesosVars>>

(* setPermanentlyFailed reads the TaskInfos ...                             *)
ReplaceRead ==
    /\ pc["http"] = "read"
    /\ replace' = [replace EXCEPT
          !.infos = [t \in {u \in Tasks : taskInfo[u] # None} |-> taskInfo[t]]]
    /\ Goto("http", "write")
    /\ UNCHANGED <<storeVars, failed, phase, repairs, unreconciled, implicitDone, launch, current,
                   cleaning, historyVars, mesosVars>>

(* ... and writes them back with the label.                                 *)
ReplaceWrite ==
    /\ pc["http"] = "write"
    /\ StoreTasks(replace.infos)
    /\ failed' = failed \cup DOMAIN replace.infos
    /\ Goto("http", "kill")
    /\ UNCHANGED <<taskStatus, phase, repairs, unreconciled, implicitDone, launch, current, cleaning,
                   replace, historyVars, mesosVars>>

ReplaceKill ==
    /\ pc["http"] = "kill"
    /\ Kill(replace.ids)
    /\ replace' = NoReplace
    /\ Goto("http", "idle")
    /\ UNCHANGED <<storeVars, failed, phase, repairs, unreconciled, implicitDone, launch, current,
                   cleaning, historyVars, alive, away, statuses>>

-----------------------------------------------------------------------------
(* 5. Mesos (external)                                                      *)

(* The master answers for a task that is being reconciled explicitly (the   *)
(* reconciler asks again and again), and once for all that it sees alive.   *)
ExplicitAnswer(id) ==
    /\ phase = "up"
    /\ id \in unreconciled
    /\ \A s \in statuses : s.id # id
    /\ statuses' = statuses \cup {StatusOf(id, IF id \in alive \ away THEN "RUNNING" ELSE "LOST")}
    /\ UNCHANGED <<storeVars, failed, processVars, historyVars, alive, away, kills>>

ImplicitAnswer ==
    /\ phase = "up"
    /\ unreconciled = {}
    /\ ~implicitDone
    /\ implicitDone' = TRUE
    /\ statuses' = statuses \cup {StatusOf(id, "RUNNING") : id \in alive \ away}
    /\ UNCHANGED <<storeVars, failed, phase, pc, repairs, unreconciled, launch, current, cleaning,
                   replace, historyVars, alive, away, kills>>

(* A task ends, or is killed; its agent says so until that is acknowledged. *)
Ends(id) ==
    /\ alive' = alive \ {id}
    /\ statuses' = statuses \cup {StatusOf(id, "FAILED")}

TaskEnds(id) ==
    /\ id \in alive \ away
    /\ Ends(id)
    /\ UNCHANGED <<storeVars, failed, processVars, historyVars, away, kills>>

(* A kill reaches the agent, or there is no such task (any more), or its    *)
(* agent is out of reach and the master drops the call.                     *)
KillArrives(id) ==
    /\ id \in kills
    /\ kills' = kills \ {id}
    /\ IF id \in alive \ away THEN Ends(id) ELSE UNCHANGED <<alive, statuses>>
    /\ UNCHANGED <<storeVars, failed, processVars, historyVars, away>>

(* The master loses sight of an agent, and the agent comes back.            *)
AgentLost(id) ==
    /\ id \in alive \ away
    /\ Count("lost", MaxLost)
    /\ away' = away \cup {id}
    /\ statuses' = statuses \cup {StatusOf(id, "LOST")}
    /\ UNCHANGED <<storeVars, failed, processVars, used, accepted, alive, kills>>

AgentReturns(id) ==
    /\ id \in away
    /\ away' = away \ {id}
    /\ statuses' = statuses \cup {StatusOf(id, "RUNNING")}
    /\ UNCHANGED <<storeVars, failed, processVars, historyVars, alive, kills>>

-----------------------------------------------------------------------------
(* 6. The specification                                                     *)

(* The first start of a service of which nothing is stored or running.      *)
Init ==
    /\ taskInfo = [t \in Tasks |-> None]
    /\ taskStatus = [t \in Tasks |-> None]
    /\ failed = {}
    /\ phase = "down"
    /\ pc = [t \in Threads |-> "idle"]
    /\ repairs = NoRecords
    /\ unreconciled = {}
    /\ implicitDone = FALSE
    /\ launch = None
    /\ used = {}
    /\ accepted = {}
    /\ current = None
    /\ cleaning = {}
    /\ replace = NoReplace
    /\ alive = {}
    /\ away = {}
    /\ statuses = {}
    /\ kills = {}
    /\ counts = [crash |-> 0, replace |-> 0, failure |-> 0, lost |-> 0]

StartUp ==
    \/ RepairTasks
    \/ \E t \in Tasks : RepairStatus(t)
    \/ RepairEnd
    \/ Registered

(* The rest of a step that has been started.                                *)
OfferThread ==
    \/ KillTasks
    \/ EvaluateNothing
    \/ \E ids \in [(IF launch = None THEN {} ELSE launch.tasks) -> TaskIds] : Evaluate(ids)
    \/ \E t \in Tasks : RecordInfo(t)
    \/ RecordStatus
    \/ RecordFails
    \/ AcceptOffers

DriverThread ==
    \/ StatusStore
    \/ StatusSet
    \/ StatusClean

HttpThread ==
    \/ ReplaceRead
    \/ ReplaceWrite
    \/ ReplaceKill

Mesos ==
    \/ \E id \in TaskIds : DeliverStatus(id)
    \/ \E id \in TaskIds : ExplicitAnswer(id)
    \/ ImplicitAnswer
    \/ \E id \in TaskIds : TaskEnds(id)
    \/ \E id \in TaskIds : KillArrives(id)
    \/ \E id \in TaskIds : AgentLost(id)
    \/ \E id \in TaskIds : AgentReturns(id)

Next ==
    \/ StartUp
    \/ Crash
    \/ \E tasks \in (SUBSET Tasks) \ {{}}, permanent \in BOOLEAN : StepStart(tasks, permanent)
    \/ OfferThread
    \/ DriverThread
    \/ \E id \in TaskIds : KillUnexpectedTask(id)
    \/ ReplaceFetch
    \/ HttpThread
    \/ Mesos

(* A scheduler that is down is restarted, its threads run, and Mesos        *)
(* delivers what it has to deliver.  Nothing makes a plan start a step, an  *)
(* agent come back or an operator call.                                     *)
Fairness ==
    /\ WF_vars(StartUp)
    /\ WF_vars(OfferThread)
    /\ WF_vars(DriverThread)
    /\ WF_vars(HttpThread)
    /\ WF_vars(\E id \in TaskIds : KillUnexpectedTask(id))
    /\ WF_vars(\E id \in TaskIds : ExplicitAnswer(id))
    /\ WF_vars(ImplicitAnswer)
    /\ \A id \in TaskIds : WF_vars(KillArrives(id)) /\ SF_vars(DeliverStatus(id))

Spec == Init /\ [][Next]_vars

FairSpec == Spec /\ Fairness

-----------------------------------------------------------------------------
(* 7. Properties                                                            *)

Records == UNION {[ts -> TaskIds \cup {EmptyId}] : ts \in SUBSET Tasks}

Launches == [tasks : (SUBSET Tasks) \ {{}}, permanent : BOOLEAN, ids : Records, records : Records,
             staging : Tasks \cup {None}]

Currents == [task : Tasks \cup {None}, status : TaskStatuses]

ASSUME NoneAssumption == None \notin TaskStatuses \cup Launches \cup Currents

(* The types, and which threads have something in hand at which label.      *)
TypeOK ==
    /\ StoreTypeOK
    /\ failed \subseteq Tasks
    /\ phase \in {"down", "repair", "registering", "up"}
    /\ pc \in [Threads -> {"idle", "kill", "evaluate", "record", "status", "store", "set", "clean",
                           "read", "write"}]
    /\ phase # "up" => pc = [t \in Threads |-> "idle"]
    /\ repairs \in UNION {[ts -> TaskStatuses] : ts \in SUBSET Tasks}
    /\ unreconciled \subseteq TaskIds
    /\ implicitDone \in BOOLEAN
    /\ launch \in Launches \cup {None}
    /\ launch = None <=> pc["offers"] = "idle"
    /\ used \subseteq TaskIds
    /\ accepted \subseteq used
    /\ current \in Currents \cup {None}
    /\ current = None <=> pc["driver"] = "idle"
    /\ cleaning \subseteq TaskIds
    /\ replace \in [ids : SUBSET TaskIds, infos : Records]
    /\ alive \subseteq accepted
    /\ away \subseteq alive
    /\ statuses \subseteq TaskStatuses
    /\ kills \subseteq used
    /\ counts \in [crash : 0 .. MaxCrashes, replace : 0 .. MaxReplaces,
                   failure : 0 .. MaxFailures, lost : 0 .. MaxLost]

(* The two records of a task agree: no status for the id "", and otherwise  *)
(* a status of the TaskInfo's own id.                                       *)
InSync(t) == ~Inconsistent(t) /\ (taskInfo[t] = None => taskStatus[t] = None)

(* Whatever the threads of the last process had half written, and however   *)
(* often the repair itself was cut off, the plans are built from TaskInfos  *)
(* and statuses that agree.                                                 *)
RepairedInSync == phase = "registering" => \A t \in Tasks : InSync(t)

(* The end of a task is never forgotten for a TASK_LOST of that task, which *)
(* would make a recovery of what has finished, although the driver thread   *)
(* looks at the stored status and writes the new one in two steps.          *)
LostNeverHidesEnd ==
    [][\A t \in Tasks :
          taskStatus[t] # None /\ taskStatus'[t] # None /\ taskStatus[t].id = taskStatus'[t].id =>
              ~(IsTerminal(taskStatus[t].state) /\ taskStatus'[t].state = "LOST")]_vars

(* A task that runs although no TaskInfo has its id is killed once it is    *)
(* heard of, through crashes that lose the kill or the cleaner's work, as   *)
(* long as its agent is in reach.                                           *)
HeardOrphanKilled ==
    \A id \in TaskIds :
        /\ id \in alive
        /\ id \notin StoredIds
        /\ StatusOf(id, "RUNNING") \in statuses
        ~> id \notin alive \/ id \in away \/ id \in StoredIds

(* Both records say that id is t's task and that it lives.                  *)
BelievedAlive(t, id) ==
    /\ taskInfo[t] = id
    /\ taskStatus[t] \in {StatusOf(id, "STAGING"), StatusOf(id, "RUNNING")}

(* A task that Mesos was asked to run and that does not run is not believed *)
(* alive for ever, through lost answers and crashes.                        *)
DeathRecorded ==
    \A t \in Tasks, id \in TaskIds :
        BelievedAlive(t, id) /\ id \in accepted \ alive ~> ~BelievedAlive(t, id)
=============================================================================
