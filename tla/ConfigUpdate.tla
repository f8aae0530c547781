---------------------------- MODULE ConfigUpdate ----------------------------
(***************************************************************************)
(* The service's configurations: how a new process makes the configuration  *)
(* it was given the target, what it then keeps and drops, and how the       *)
(* deploy plan and the recovery plan move the tasks between configurations. *)
(*                                                                         *)
(* Stored are the configurations by id, the id of the target, and for each  *)
(* task a TaskInfo, which is made from one version of the task's pod and    *)
(* carries a label: the id of the configuration that it is said to be made  *)
(* from.  The update runs in one thread before the process registers with   *)
(* Mesos, one write at a time, and can be cut off after any of them.        *)
(*                                                                         *)
(* A ServiceSpec is abstracted to the pods' templates (what a task is made  *)
(* from) and counts.  A pod here is a pod instance with its own pod type,   *)
(* and each task has its own resource set.  Launch records and statuses     *)
(* that crashes or races tear apart are the subject of TaskRecords: a       *)
(* launch and a status are one step each here.  No plan is interrupted, and *)
(* a candidate is chosen and worked on in one step.                         *)
(***************************************************************************)
EXTENDS Naturals

CONSTANTS Tasks,       \* task names
          Pods,        \* pod instances
          PodOf,       \* PodOf[t]: the pod instance of t
          Once,        \* tasks with goal ONCE; the others have goal RUNNING
          Essential,   \* tasks whose failure restarts their pod
          Steps,       \* the steps of the deploy plan: the tasks of each
          After,       \* After[s]: the steps that its strategy lets s wait for
          ConfigIds,   \* ids of stored configurations
          Templates,   \* versions of a pod's tasks
          Counts,      \* numbers of instances of a pod type
          None         \* nothing stored

PodSpecs == [template : Templates, count : Counts]

ServiceSpecs == [Pods -> PodSpecs]

(* "failed" is the label of a task that has failed permanently, "empty"     *)
(* says that the id is "": the task was not part of its pod's launch.       *)
TaskInfos == [config : ConfigIds, template : Templates, failed : BOOLEAN, empty : BOOLEAN]

TaskStates == {"staging", "running", "finished", "failed"}

ASSUME ConfigUpdateAssumption ==
    /\ PodOf \in [Tasks -> Pods]
    /\ Once \subseteq Tasks
    /\ Essential \subseteq Tasks
    /\ Steps \subseteq SUBSET Tasks
    /\ \A s, r \in Steps : s # r => s \cap r = {}
    /\ \A s \in Steps : \E t \in s : \A u \in s : PodOf[u] = PodOf[t]
    /\ After \in [Steps -> SUBSET Steps]
    /\ Counts \subseteq Nat
    /\ None \notin ConfigIds
    /\ None \notin ServiceSpecs
    /\ None \notin TaskInfos
    /\ None \notin TaskStates

-----------------------------------------------------------------------------
VARIABLES
    configs,     \* configs[c]: the stored ServiceSpec, or None
    target,      \* the stored id of the target configuration, or None
    info,        \* info[t]: t's stored TaskInfo, or None
    status,      \* status[t]: t's stored status, or None
    phase,       \* of the process
    candidate,   \* updateConfiguration: the spec that is to be stored, or None
    fresh,       \* updateConfiguration: the id it was stored under, or None
    unreadable,  \* configurations that this version of the scheduler cannot parse
    needed,      \* cleanupDuplicateAndUnusedConfigs: neededConfigs
    step,        \* step[s]: the status of a deploy step
    recovery     \* the steps of the recovery plan that are not complete

storedVars == <<configs, target, info, status>>
updateVars == <<candidate, fresh, unreadable, needed>>
planVars == <<step, recovery>>
vars == <<storedVars, phase, updateVars, planVars>>

-----------------------------------------------------------------------------
Stored == {c \in ConfigIds : configs[c] # None}

Launched == {t \in Tasks : info[t] # None}

PodTasks(p) == {t \in Tasks : PodOf[t] = p}

Readable(c) == c \in Stored \ unreadable

(* The template that pod p has in configuration c.                          *)
TemplateIn(c, p) == configs[c][p].template

(* PodSpecsCannotShrink, for the validators: what a spec may follow.        *)
Valid(old, new) == \A p \in Pods : new[p].count >= old[p].count

(* Threads and memory of a process that ends.                               *)
Exit ==
    /\ phase' = "down"
    /\ candidate' = None
    /\ fresh' = None
    /\ unreadable' = {}
    /\ needed' = {}
    /\ step' = [s \in Steps |-> "pending"]
    /\ recovery' = {}

-----------------------------------------------------------------------------
(* 1. Start-up: DefaultConfigurationUpdater.updateConfiguration             *)

(* Mutant of Accepts: nothing is validated.                                 *)
AcceptsUnchecked(spec) == target = None \/ configs[target] # spec

(* The spec is to become the target: it is the first, or it differs from    *)
(* the target and the validators have no error.                             *)
Accepts(spec) ==
    \/ target = None
    \/ Valid(configs[target], spec) /\ configs[target] # spec

(* repairTaskIDs: a TaskInfo without an id gets that of the stored status,  *)
(* which becomes FAILED.                                                    *)
RepairTaskIDs ==
    LET torn == {t \in Launched : info[t].empty /\ status[t] # None}
    IN /\ info' = [t \in Tasks |-> IF t \in torn THEN [info[t] EXCEPT !.empty = FALSE] ELSE info[t]]
       /\ status' = [t \in Tasks |-> IF t \in torn THEN "failed" ELSE status[t]]

(* A process starts with some spec.  It exits again, with no configuration  *)
(* written, if it cannot parse the target.  With errors it stays with the   *)
(* target.                                                                  *)
Start ==
    /\ phase = "down"
    /\ RepairTaskIDs
    /\ \E bad \in SUBSET Stored :
          /\ target \notin bad
          /\ unreadable' = bad
    /\ \E spec \in ServiceSpecs :
          IF Accepts(spec)
          THEN candidate' = spec /\ phase' = "store"
          ELSE UNCHANGED candidate /\ phase' = "relabel"
    /\ UNCHANGED <<configs, target, fresh, needed, planVars>>

(* ConfigStore.store, under a new UUID: one that nothing refers to.         *)
Store ==
    /\ phase = "store"
    /\ \E c \in ConfigIds \ (Stored \cup {info[t].config : t \in Launched}) :
          /\ configs' = [configs EXCEPT ![c] = candidate]
          /\ fresh' = c
    /\ phase' = "target"
    /\ UNCHANGED <<target, info, status, candidate, unreadable, needed, planVars>>

SetTarget ==
    /\ phase = "target"
    /\ target' = fresh
    /\ fresh' = None
    /\ candidate' = None
    /\ phase' = "relabel"
    /\ UNCHANGED <<configs, info, status, unreadable, needed, planVars>>

(* Mutant of NeedsConfigUpdate: the counts are compared, nothing else.      *)
NeedsConfigUpdateByCount(t) ==
    /\ ~info[t].failed
    /\ configs[info[t].config][PodOf[t]].count # configs[target][PodOf[t]].count

(* A task with another label is on the target all the same if its pod is    *)
(* the same but for the count, or if it has failed permanently.             *)
NeedsConfigUpdate(t) ==
    /\ ~info[t].failed
    /\ TemplateIn(info[t].config, PodOf[t]) # TemplateIn(target, PodOf[t])

(* Mutant of InUse: the labels of tasks are forgotten.                      *)
InUseForgets(ts) == {target} \cup unreadable

(* Configurations that are not dropped, if the tasks in ts keep their label. *)
InUse(ts) == {target} \cup unreadable \cup {info[t].config : t \in ts}

(* The tasks that are on the target get its label, in one write; what the   *)
(* others refer to, and what cannot be parsed, must stay.                   *)
Relabel ==
    /\ phase = "relabel"
    /\ LET current == {t \in Launched : Readable(info[t].config) /\ ~NeedsConfigUpdate(t)}
       IN /\ info' = [t \in Tasks |-> IF t \in current THEN [info[t] EXCEPT !.config = target] ELSE info[t]]
          /\ needed' = InUse(Launched \ current)
    /\ phase' = "clear"
    /\ UNCHANGED <<configs, target, status, candidate, fresh, unreadable, planVars>>

(* clearConfigsNotListed, one by one.                                       *)
Clear(c) ==
    /\ phase = "clear"
    /\ c \in Stored \ needed
    /\ configs' = [configs EXCEPT ![c] = None]
    /\ UNCHANGED <<target, info, status, phase, updateVars, planVars>>

AtGoal(t, st) == st = IF t \in Once THEN "finished" ELSE "running"

OnTarget(t) == info[t].config = target \/ (t \in Once /\ AtGoal(t, status[t]))

(* DefaultStepFactory.getStatus: tasks without a TaskInfo do not count.     *)
InitialStatus(s) ==
    IF /\ s \cap Launched # {}
       /\ \A t \in s \cap Launched : (OnTarget(t) /\ AtGoal(t, status[t])) \/ info[t].failed
    THEN "complete"
    ELSE "pending"

(* Mutant of CleanUpDone: the clean-up is not waited for.                   *)
CleanUpDoneAlways == TRUE

CleanUpDone == Stored \subseteq needed

(* The update is done: the deploy plan is made, and the process registers.  *)
BuildPlans ==
    /\ phase = "clear"
    /\ CleanUpDone
    /\ phase' = "up"
    /\ needed' = {}
    /\ step' = [s \in Steps |-> InitialStatus(s)]
    /\ UNCHANGED <<storedVars, candidate, fresh, unreadable, recovery>>

Crash ==
    /\ phase # "down"
    /\ Exit
    /\ UNCHANGED storedVars

-----------------------------------------------------------------------------
(* 2. The plans at work                                                     *)

Ready(s) == \A r \in After[s] : step[r] = "complete"

Dirty(st) == st \in {"prepared", "starting"}

RecoveryBusy(ts) == \E r \in recovery : Dirty(r.state) /\ r.tasks \cap ts # {}

(* DefaultPlanCoordinator.getCandidates: recovery keeps off what the deploy *)
(* plan works on, and what it would work on now.                            *)
DeployBusy(ts) ==
    \E s \in Steps :
       /\ s \cap ts # {}
       /\ \/ Dirty(step[s])
          \/ step[s] = "pending" /\ Ready(s) /\ ~RecoveryBusy(s)

(* The tasks of p that get a TaskInfo when the tasks in ts are launched:    *)
(* all of them if what is there is to be replaced, or nothing is.           *)
Recorded(p, ts, permanent) ==
    IF permanent \/ \A t \in PodTasks(p) \cap Launched : info[t].failed THEN PodTasks(p) ELSE ts

NewTaskInfo(c, template, launched) ==
    [config |-> c, template |-> template, failed |-> FALSE, empty |-> ~launched]

(* Mutant of LaunchTasks: the status of the launch is not stored.           *)
LaunchTasksInfoOnly(recorded, ts, c, template) ==
    /\ info' = [t \in Tasks |-> IF t \in recorded THEN NewTaskInfo(c, template, t \in ts) ELSE info[t]]
    /\ UNCHANGED status

(* The TaskInfos of a launch, and the statuses of the tasks that it starts. *)
LaunchTasks(recorded, ts, c, template) ==
    /\ info' = [t \in Tasks |-> IF t \in recorded THEN NewTaskInfo(c, template, t \in ts) ELSE info[t]]
    /\ status' = [t \in Tasks |-> IF t \in ts THEN "staging" ELSE status[t]]

(* A deploy step that finds no offer is PREPARED; recovery keeps off.       *)
PrepareDeploy(s) ==
    /\ phase = "up"
    /\ step[s] = "pending"
    /\ Ready(s) /\ ~RecoveryBusy(s)
    /\ step' = [step EXCEPT ![s] = "prepared"]
    /\ UNCHANGED <<storedVars, phase, updateVars, recovery>>

(* A deploy step launches its tasks from the target configuration.          *)
Deploy(s) ==
    /\ phase = "up"
    /\ step[s] \in {"pending", "prepared"}
    /\ Ready(s) /\ ~RecoveryBusy(s)
    /\ \E p \in Pods :
          /\ s \subseteq PodTasks(p)
          /\ LaunchTasks(Recorded(p, s, FALSE), s, target, TemplateIn(target, p))
    /\ step' = [step EXCEPT ![s] = "starting"]
    /\ UNCHANGED <<configs, target, phase, updateVars, recovery>>

(* fetchTasksNeedingRecovery, for one pod: tasks without an id are skipped. *)
FailedTasks(p) ==
    {t \in (Launched \cap PodTasks(p)) \ Once :
        ~info[t].empty /\ (status[t] = "failed" \/ info[t].failed)}

(* The tasks of p that are relaunched: all that have been launched if an    *)
(* essential one has failed.                                                *)
ToRelaunch(p) ==
    IF FailedTasks(p) \cap Essential # {}
    THEN {t \in PodTasks(p) \ Once : status[t] # None}
    ELSE FailedTasks(p)

(* The recovery type of a set of tasks, or "none" for a mixture.            *)
RecoveryType(ts) ==
    IF \A t \in ts : info[t].failed THEN "permanent"
    ELSE IF \A t \in ts : ~info[t].failed THEN "transient"
    ELSE "none"

(* updatePlan: a failed pod gets a step, made from the pod in the           *)
(* configuration of its first failed task.  Steps for the same tasks whose  *)
(* recovery type is no longer right are replaced.  A configuration that     *)
(* cannot be fetched stops all of it.  The step may stay PENDING for some   *)
(* time: the launch constrainer holds it back, or its evaluation throws.    *)
PlanRecovery(p) ==
    /\ phase = "up"
    /\ \A t \in Launched : info[t].empty \/ Readable(info[t].config)
    /\ \E first \in FailedTasks(p) :
          LET tasks == ToRelaunch(p)
              conflicting == {r \in recovery : r.tasks \cap tasks # {}}
              new == [pod |-> p,
                      tasks |-> tasks,
                      template |-> TemplateIn(info[first].config, p),
                      type |-> RecoveryType(tasks),
                      state |-> "pending"]
          IN /\ new.type # "none"
             /\ ~DeployBusy(tasks)
             /\ \A r \in conflicting : r.type # RecoveryType(r.tasks)
             /\ recovery' = (recovery \ conflicting) \cup {new}
    /\ UNCHANGED <<storedVars, phase, updateVars, step>>

(* setPermanentlyFailed, for the tasks of pod p.                            *)
SetPermanentlyFailed(p) ==
    info' = [t \in Tasks |-> IF t \in Launched \cap PodTasks(p)
                             THEN [info[t] EXCEPT !.failed = TRUE] ELSE info[t]]

(* DefaultRecoveryStep.start, and no offer yet.                             *)
PrepareRecovery(r) ==
    /\ phase = "up"
    /\ r.state = "pending"
    /\ ~DeployBusy(r.tasks)
    /\ IF r.type = "permanent" THEN SetPermanentlyFailed(r.pod) ELSE UNCHANGED info
    /\ recovery' = (recovery \ {r}) \cup {[r EXCEPT !.state = "prepared"]}
    /\ UNCHANGED <<configs, target, status, phase, updateVars, step>>

(* A recovery step launches its tasks from the pod it was made with, and    *)
(* OfferEvaluator.getTargetConfig labels them as the pod's first task is.   *)
Recover(r) ==
    /\ phase = "up"
    /\ r.state = "prepared"
    /\ ~DeployBusy(r.tasks)
    /\ \E t \in Launched \cap PodTasks(r.pod) :
          LaunchTasks(Recorded(r.pod, r.tasks, r.type = "permanent"), r.tasks, info[t].config, r.template)
    /\ recovery' = (recovery \ {r}) \cup {[r EXCEPT !.state = "starting"]}
    /\ UNCHANGED <<configs, target, phase, updateVars, step>>

(* What a step that waits for ts makes of the statuses after t's became st. *)
StepStatus(ts, old, t, st) ==
    IF t \notin ts \/ old # "starting" THEN old
    ELSE IF st = "failed" THEN "pending"
    ELSE IF \A u \in ts : AtGoal(u, IF u = t THEN st ELSE status[u]) THEN "complete"
    ELSE old

(* A status arrives, and the steps that launched the task are told.  The    *)
(* status of a task whose TaskInfo has no id is not recognised.             *)
StatusUpdate(t, st) ==
    /\ phase = "up"
    /\ t \in Launched /\ ~info[t].empty
    /\ \/ status[t] = "staging"
       \/ status[t] = "running" /\ st # "running"
    /\ st = "finished" => t \in Once
    /\ status' = [status EXCEPT ![t] = st]
    /\ step' = [s \in Steps |-> StepStatus(s, step[s], t, st)]
    /\ recovery' = {r \in {[q EXCEPT !.state = StepStatus(q.tasks, q.state, t, st)] : q \in recovery} :
                       r.state # "complete"}
    /\ UNCHANGED <<configs, target, info, phase, updateVars>>

(* "pod replace": the pod's tasks are labelled (and killed).                *)
Replace(p) ==
    /\ phase = "up"
    /\ \E t \in Launched \cap PodTasks(p) : ~info[t].failed
    /\ SetPermanentlyFailed(p)
    /\ UNCHANGED <<configs, target, status, phase, updateVars, planVars>>

-----------------------------------------------------------------------------
(* 3. The specification                                                     *)

Init ==
    /\ configs = [c \in ConfigIds |-> None]
    /\ target = None
    /\ info = [t \in Tasks |-> None]
    /\ status = [t \in Tasks |-> None]
    /\ phase = "down"
    /\ candidate = None
    /\ fresh = None
    /\ unreadable = {}
    /\ needed = {}
    /\ step = [s \in Steps |-> "pending"]
    /\ recovery = {}

StartUp ==
    \/ Start
    \/ Store
    \/ SetTarget
    \/ Relabel
    \/ \E c \in ConfigIds : Clear(c)
    \/ BuildPlans

Plans ==
    \/ \E s \in Steps : PrepareDeploy(s)
    \/ \E s \in Steps : Deploy(s)
    \/ \E p \in Pods : PlanRecovery(p)
    \/ \E r \in recovery : PrepareRecovery(r)
    \/ \E r \in recovery : Recover(r)

Next ==
    \/ StartUp
    \/ Plans
    \/ Crash
    \/ \E t \in Tasks, st \in TaskStates \ {"staging"} : StatusUpdate(t, st)
    \/ \E p \in Pods : Replace(p)

Spec == Init /\ [][Next]_vars

-----------------------------------------------------------------------------
(* 4. Properties                                                            *)

Statuses == {"pending", "prepared", "starting", "complete"}

RecoverySteps ==
    [pod : Pods, tasks : SUBSET Tasks, template : Templates,
     type : {"permanent", "transient"}, state : Statuses \ {"complete"}]

StoredTypeOK ==
    /\ configs \in [ConfigIds -> ServiceSpecs \cup {None}]
    /\ target \in ConfigIds \cup {None}
    /\ info \in [Tasks -> TaskInfos \cup {None}]
    /\ status \in [Tasks -> TaskStates \cup {None}]
    /\ \A t \in Tasks : status[t] # None => info[t] # None
    /\ \A t \in Tasks : info[t] # None /\ status[t] = None => info[t].empty

UpdateTypeOK ==
    /\ phase \in {"down", "store", "target", "relabel", "clear", "up"}
    /\ candidate \in ServiceSpecs \cup {None}
    /\ candidate = None <=> phase \notin {"store", "target"}
    /\ fresh \in ConfigIds \cup {None}
    /\ fresh = None <=> phase # "target"
    /\ unreadable \subseteq ConfigIds
    /\ needed \subseteq ConfigIds

PlansTypeOK ==
    /\ step \in [Steps -> Statuses]
    /\ recovery \subseteq RecoverySteps
    /\ \A r \in recovery : r.tasks \subseteq (Launched \cap PodTasks(r.pod)) \ Once

(* The types, and which of the updater's variables are in use when.         *)
TypeOK == StoredTypeOK /\ UpdateTypeOK /\ PlansTypeOK

(* Wherever the update is cut off, and whatever it drops, the target and    *)
(* the label of every task refer to configurations that are still stored:   *)
(* without its configuration a task could neither be recovered nor updated. *)
ReferencesExist ==
    /\ target # None => target \in Stored
    /\ \A t \in Launched : info[t].config \in Stored

(* t's TaskInfo is made from the configuration that its label names.  The   *)
(* tasks of a pod that has been replaced need not be: they are to go.       *)
Matches(t) == info[t].failed \/ info[t].template = TemplateIn(info[t].config, PodOf[t])

(* The update never gives a task the label of a configuration it is not     *)
(* made from, which would make a rollout pass the task over.                *)
UpdateKeepsMatches ==
    [][phase # "up" => \A t \in Launched : Matches(t) => Matches(t)']_vars

(* A target is only ever replaced by one that the validators allow, also    *)
(* after an update that was cut off between its writes.                     *)
TargetsValid ==
    [][target # None /\ target' # target => Valid(configs[target], configs'[target'])]_vars

(* When the plans are made, nothing is left of updates that were cut off:   *)
(* what is stored is the target, what tasks refer to, or unreadable.        *)
UnusedDropped ==
    [][phase # "up" /\ phase' = "up" =>
          Stored \subseteq {target} \cup {info[t].config : t \in Launched} \cup unreadable]_vars

(* Tasks that run, and whose pod the new target does not change but for its *)
(* count, are left alone: the step that deploys them is complete at once.   *)
UnaffectedLeftAlone ==
    [][phase # "up" /\ phase' = "up" =>
          \A s \in Steps :
             (/\ s # {}
              /\ \A t \in s :
                    /\ t \in Launched
                    /\ Readable(info[t].config)
                    /\ AtGoal(t, status[t])
                    /\ Matches(t)
                    /\ info[t].template = TemplateIn(target, PodOf[t]))
             => step'[s] = "complete"]_vars

(* A rollout reaches every task: with the deploy plan complete and nothing  *)
(* to recover, the tasks that run are made from the target configuration.   *)
RolledOut ==
    /\ phase = "up"
    /\ \A s \in Steps : step[s] = "complete"
    /\ recovery = {}
    => \A t \in Launched \ Once :
          status[t] = "running" /\ ~info[t].failed => info[t].template = TemplateIn(target, PodOf[t])
=============================================================================
