----------------------------- MODULE StateStore -----------------------------
(***************************************************************************)
(* The part of the scheduler's persistent state that names tasks: for each  *)
(* task name (a node under "Tasks/" in ZooKeeper) the stored TaskInfo and   *)
(* the stored TaskStatus, which are two separate writes.                    *)
(*                                                                         *)
(* A TaskInfo is abstracted to the task id it carries, because the id is    *)
(* what status updates are matched by.  A TaskInfo whose id is the empty    *)
(* string (a "transient" record of a task that was not launched, or the     *)
(* record left for a task that is no longer part of the service) has id     *)
(* EmptyId.  The persister makes each read and each write atomic and the    *)
(* store has no lock of its own: a call that reads and then writes, such as *)
(* storeStatus, is two steps for the other threads.                         *)
(***************************************************************************)
EXTENDS Naturals, FiniteSets

CONSTANTS Tasks,     \* task names
          TaskIds,   \* ids of launches
          EmptyId,   \* the id "" of a TaskInfo that was stored but not launched
          None       \* nothing stored under this path

ASSUME StoreAssumption ==
    /\ EmptyId \notin TaskIds
    /\ None \notin TaskIds \cup {EmptyId}

VARIABLES taskInfo,    \* taskInfo[t]: the id in t's stored TaskInfo, or None
          taskStatus   \* taskStatus[t]: t's stored TaskStatus, or None

storeVars == <<taskInfo, taskStatus>>

-----------------------------------------------------------------------------
(* The task states that the code tells apart: STAGING is what the launch    *)
(* recorder writes, RUNNING stands for every live state that an agent       *)
(* reports, FAILED for FAILED, KILLED and ERROR, and FINISHED for itself.   *)
(* TASK_LOST is dead for recovery but not "terminal" for isTerminal.        *)
TaskStates == {"STAGING", "RUNNING", "FINISHED", "FAILED", "LOST"}

TaskStatuses == [id : TaskIds, state : TaskStates]

StatusOf(id, state) == [id |-> id, state |-> state]

IsTerminal(state) == state \in {"FINISHED", "FAILED"}

IsRecoveryNeeded(state) == IsTerminal(state) \/ state = "LOST"

StoreTypeOK ==
    /\ taskInfo \in [Tasks -> TaskIds \cup {EmptyId, None}]
    /\ taskStatus \in [Tasks -> TaskStatuses \cup {None}]

-----------------------------------------------------------------------------
(* fetchTasks and fetchStatuses: what is stored, over all the task names.   *)
StoredIds == {taskInfo[t] : t \in Tasks} \ {EmptyId, None}

StoredStatuses == {taskStatus[t] : t \in {u \in Tasks : taskStatus[u] # None}}

(* StateStoreUtils.getTaskName: the single TaskInfo that carries the id of  *)
(* a status.  No TaskInfo, or more than one, is an exception.               *)
NamesOf(id) == {t \in Tasks : taskInfo[t] = id}

(* StateStore.storeTasks: one atomic write of the TaskInfos in infos, a     *)
(* function from some task names to ids.                                    *)
StoreTasks(infos) ==
    taskInfo' = [t \in Tasks |-> IF t \in DOMAIN infos THEN infos[t] ELSE taskInfo[t]]

(* Mutant of StatusRejected: a LOST may follow a terminal status.           *)
StatusRejectedNotLost(t, s) ==
    /\ taskStatus[t] # None
    /\ s.state # "STAGING"
    /\ taskStatus[t].id # s.id

(* StateStore.storeStatus throws for a LOST on top of a terminal status and *)
(* for a status, other than STAGING, of another id than the stored one.     *)
StatusRejected(t, s) ==
    /\ taskStatus[t] # None
    /\ \/ s.state = "LOST" /\ IsTerminal(taskStatus[t].state)
       \/ s.state # "STAGING" /\ taskStatus[t].id # s.id

StoreStatus(t, s) == taskStatus' = [taskStatus EXCEPT ![t] = s]
=============================================================================
