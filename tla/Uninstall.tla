----------------------------- MODULE Uninstall -----------------------------
(***************************************************************************)
(* The scheduler in uninstall mode: from a deployed service to one of which *)
(* Mesos holds no reservation and no framework, and ZooKeeper no state.     *)
(* The plan has four phases in order: kill every task, unreserve every      *)
(* resource as it is offered, delete the TLS secrets, deregister.  What a   *)
(* restart can carry on from is in the state store only: the framework id,  *)
(* the TaskInfos, and in them a tombstone for each resource whose           *)
(* unreservation was recorded, which is before it is sent.                  *)
(*                                                                         *)
(* A TaskInfo is the set of its resource ids.  Those of the task itself get *)
(* tombstones; those of its executor (pod volumes and the executor's own    *)
(* cpu, memory and disk) are read with the others but never marked.         *)
(* PENDING, PREPARED and IN_PROGRESS steps are open, the others COMPLETE.   *)
(***************************************************************************)
EXTENDS Naturals, FiniteSets

CONSTANTS
    Tasks,               \* task names
    TaskResources,       \* TaskResources[t]: ids of t's own resources
    ExecutorResources,   \* ExecutorResources[t]: ids of its executor's resources
    Failed,              \* tasks permanently failed with TASK_ERROR: nothing reserved
    HasTLS,              \* whether the service has tasks with TLS certificates
    None,
    MaxCrashes,          \* bound on crashes of the scheduler
    MaxLosses            \* bound on lost calls, rescinded offers and failing writes

Own == UNION {TaskResources[t] : t \in Tasks}
Shared == UNION {ExecutorResources[t] : t \in Tasks}
Resources == Own \cup Shared

ASSUME UninstallAssumption ==
    /\ DOMAIN TaskResources = Tasks /\ DOMAIN ExecutorResources = Tasks
    /\ Failed \subseteq Tasks
    /\ Own \cap Shared = {}
    /\ HasTLS \in BOOLEAN
    /\ None \notin Nat \cup Tasks
    /\ MaxCrashes \in Nat /\ MaxLosses \in Nat

VARIABLES
    uninstalling, frameworkId, infos, tombstones, statuses,   \* the state store
    at,             \* how far the process has come: see TypeOK
    id,             \* the framework id that the driver has registered with
    killSteps, resourceSteps, tlsStep, deregisterStep,        \* the open steps
    offers, batch, todo,  \* offer thread: where it is, what it unreserves, what is to be recorded
    update,         \* driver thread: the task whose status it is about to store
    reserved, frameworks, running, kills, unacked, secrets,   \* Mesos, the agents, the secret store
    leaked,         \* resources recorded as unreserved by a call that Mesos never got
    orphaned,       \* the process died with its framework id cleared and its state not
    crashes, losses

storeVars == <<uninstalling, frameworkId, infos, tombstones, statuses>>
planVars == <<killSteps, resourceSteps, tlsStep, deregisterStep>>
offerVars == <<offers, batch, todo>>
mesosVars == <<reserved, frameworks, running, kills, unacked, secrets>>
ghostVars == <<leaked, orphaned, crashes, losses>>
vars == <<storeVars, at, id, planVars, offerVars, update, mesosVars, ghostVars>>

FrameworkIds == 1..(MaxCrashes + 1)

TypeOK ==
    /\ uninstalling \in BOOLEAN
    /\ frameworkId \in FrameworkIds \cup {None}
    /\ infos \subseteq Tasks /\ tombstones \subseteq Own /\ statuses \subseteq Tasks
    /\ at \in {"down", "built", "registering", "registered", "up", "finished"}
    /\ id \in FrameworkIds \cup {None}
    /\ killSteps \subseteq Tasks /\ resourceSteps \subseteq Resources
    /\ tlsStep \in BOOLEAN /\ deregisterStep \in BOOLEAN
    /\ offers \in {"idle", "record", "clearId", "stop", "clear"}
    /\ batch \subseteq Resources /\ todo \subseteq batch
    /\ update \in Tasks \cup {None}
    /\ reserved \subseteq Resources /\ frameworks \subseteq FrameworkIds
    /\ running \subseteq Tasks /\ kills \subseteq Tasks /\ unacked \subseteq Tasks
    /\ secrets \in BOOLEAN
    /\ leaked \subseteq Resources /\ orphaned \in BOOLEAN
    /\ crashes \in 0..MaxCrashes /\ losses \in 0..MaxLosses

-----------------------------------------------------------------------------
(* ResourceUtils.getAllResources: a TaskInfo's own and its executor's.      *)
AllResources(t) == TaskResources[t] \cup ExecutorResources[t]

StoredResources(ts) == UNION {AllResources(t) : t \in ts}

(* Mutant of ToUnreserve: only the resources of the tasks themselves.       *)
ToUnreserveOwn == (UNION {TaskResources[t] : t \in infos \ Failed}) \ tombstones

(* Mutant of ToUnreserve: the tombstones are not looked at.                 *)
ToUnreserveAgain == StoredResources(infos \ Failed)

(* The resources for which the plan has a PENDING step: those of the tasks  *)
(* that are not in error for good, less those with a tombstone.             *)
ToUnreserve == StoredResources(infos \ Failed) \ tombstones

(* UninstallScheduler.allButStateStoreUninstalled.                          *)
AllButStateStoreUninstalled ==
    /\ frameworkId = None
    /\ StoredResources(infos) \subseteq tombstones

(* StateStore.clearAllData: one transaction over everything below the root. *)
ClearAllData ==
    /\ uninstalling' = FALSE
    /\ frameworkId' = None
    /\ infos' = {} /\ tombstones' = {} /\ statuses' = {}

NoSteps ==
    /\ killSteps' = {} /\ resourceSteps' = {}
    /\ tlsStep' = FALSE /\ deregisterStep' = FALSE

IdleThreads ==
    /\ offers' = "idle" /\ batch' = {} /\ todo' = {}
    /\ update' = None

(* A service that has run and is started again in uninstall mode.           *)
Init ==
    /\ uninstalling = FALSE /\ frameworkId = 1
    /\ infos = Tasks /\ tombstones = {} /\ statuses = Tasks
    /\ at = "down" /\ id = None
    /\ killSteps = {} /\ resourceSteps = {} /\ tlsStep = FALSE /\ deregisterStep = FALSE
    /\ offers = "idle" /\ batch = {} /\ todo = {} /\ update = None
    /\ reserved = StoredResources(Tasks \ Failed)
    /\ frameworks = {1}
    /\ running = Tasks \ Failed /\ kills = {} /\ unacked = {} /\ secrets = HasTLS
    /\ leaked = {} /\ orphaned = FALSE /\ crashes = 0 /\ losses = 0

Lose ==
    /\ losses < MaxLosses
    /\ losses' = losses + 1
    /\ UNCHANGED <<orphaned, crashes>>

-----------------------------------------------------------------------------
(* SchedulerBuilder.build: the uninstall flag is stored, once.              *)
Build ==
    /\ at = "down"
    /\ at' = "built" /\ uninstalling' = TRUE
    /\ UNCHANGED <<frameworkId, infos, tombstones, statuses, id, planVars, offerVars, update,
                   mesosVars, ghostVars>>

(* SchedulerRunner.run with no scheduler: clear the store and serve an      *)
(* empty, complete plan.                                                    *)
Finish ==
    /\ at = "built" /\ AllButStateStoreUninstalled
    /\ at' = "finished"
    /\ ClearAllData
    /\ UNCHANGED <<id, planVars, offerVars, update, mesosVars, ghostVars>>

(* SchedulerRunner.runScheduler: register under the stored id, if any.      *)
RunDriver ==
    /\ at = "built" /\ ~AllButStateStoreUninstalled
    /\ at' = "registering" /\ id' = frameworkId
    /\ UNCHANGED <<storeVars, planVars, offerVars, update, mesosVars, ghostVars>>

(* UninstallPlanBuilder: without a framework id, clear the store and have   *)
(* nothing to do; otherwise the open steps of the four phases.              *)
BuildPlan ==
    IF frameworkId = None
    THEN ClearAllData /\ NoSteps
    ELSE /\ killSteps' = infos
         /\ resourceSteps' = ToUnreserve
         /\ tlsStep' = HasTLS /\ deregisterStep' = TRUE
         /\ UNCHANGED storeVars

(* The first registered(): Mesos gives a new id to a framework without one; *)
(* initialize() builds the plan.                                            *)
Registered ==
    /\ at = "registering"
    /\ IF id = None THEN id' = crashes + 1 ELSE id' = id
    /\ frameworks' = frameworks \cup {id'}
    /\ at' = "registered"
    /\ BuildPlan
    /\ UNCHANGED <<offerVars, update, reserved, running, kills, unacked, secrets, ghostVars>>

(* ... and then stores the id and is open for offers.                       *)
StoreFrameworkId ==
    /\ at = "registered"
    /\ frameworkId' = id
    /\ at' = "up"
    /\ UNCHANGED <<uninstalling, infos, tombstones, statuses, id, planVars, offerVars, update,
                   mesosVars, ghostVars>>

-----------------------------------------------------------------------------
(* Mesos offers what no live task holds, to a framework that it knows.      *)
Offered == {r \in reserved : id \in frameworks /\ r \notin StoredResources(running)}

(* After the candidates were started, the cleaner takes on every offered    *)
(* resource that has an id.                                                 *)
Clean(S) ==
    /\ offers' = IF S = {} THEN "idle" ELSE "record"
    /\ batch' = S /\ todo' = S

Cycle(S) ==
    /\ at = "up" /\ offers = "idle"
    /\ S \subseteq Offered
    /\ UNCHANGED <<storeVars, at, id, update, reserved, frameworks, running, unacked, ghostVars>>

(* TaskKillStep.start, for all tasks at once: one call each, then COMPLETE. *)
KillTasks(S) ==
    /\ Cycle(S) /\ Clean(S)
    /\ killSteps # {}
    /\ kills' = kills \cup killSteps
    /\ killSteps' = {}
    /\ UNCHANGED <<resourceSteps, tlsStep, deregisterStep, secrets>>

(* ResourceCleanupStep.start only says PREPARED: the cleaner does the work, *)
(* also when no step is left.                                               *)
AwaitResources(S) ==
    /\ Cycle(S) /\ Clean(S)
    /\ killSteps = {}
    /\ resourceSteps # {} \/ ~deregisterStep
    /\ UNCHANGED <<planVars, kills, secrets>>

(* TLSCleanupStep.start deletes the secrets.  A step whose deletion failed  *)
(* has errors and is no candidate again until a new process: left out.      *)
CleanTLS(S) ==
    /\ Cycle(S) /\ Clean(S)
    /\ killSteps = {} /\ resourceSteps = {} /\ tlsStep
    /\ secrets' = FALSE /\ tlsStep' = FALSE
    /\ UNCHANGED <<killSteps, resourceSteps, deregisterStep, kills>>

(* DeregisterStep.start, which makes three calls.  What the cleaner does    *)
(* after it reaches no driver and finds no task in the store.               *)
Deregister ==
    /\ Cycle({})
    /\ killSteps = {} /\ resourceSteps = {} /\ ~tlsStep /\ deregisterStep
    /\ offers' = "clearId"
    /\ UNCHANGED <<planVars, batch, todo, kills, secrets>>

(* Mutant of ClearFrameworkId: the id is left to clearAllData.              *)
ClearFrameworkIdLater ==
    /\ offers = "clearId"
    /\ offers' = "stop"
    /\ UNCHANGED <<storeVars, at, id, planVars, batch, todo, update, mesosVars, ghostVars>>

ClearFrameworkId ==
    /\ offers = "clearId"
    /\ offers' = "stop" /\ frameworkId' = None
    /\ UNCHANGED <<uninstalling, infos, tombstones, statuses, at, id, planVars, batch, todo, update,
                   mesosVars, ghostVars>>

(* Mutant of StopDriver: driver.stop(true), as for a failover.              *)
StopDriverFailover ==
    /\ offers = "stop"
    /\ offers' = "clear"
    /\ UNCHANGED <<storeVars, at, id, planVars, batch, todo, update, mesosVars, ghostVars>>

(* driver.stop(false): Mesos tears the framework down, with its tasks.      *)
StopDriver ==
    /\ offers = "stop"
    /\ offers' = "clear"
    /\ frameworks' = frameworks \ {id}
    /\ running' = {} /\ kills' = {} /\ unacked' = {}
    /\ UNCHANGED <<storeVars, at, id, planVars, batch, todo, update, reserved, secrets, ghostVars>>

ClearState ==
    /\ offers = "clear"
    /\ ClearAllData
    /\ offers' = "idle" /\ deregisterStep' = FALSE
    /\ UNCHANGED <<at, id, killSteps, resourceSteps, tlsStep, batch, todo, update, mesosVars,
                   ghostVars>>

-----------------------------------------------------------------------------
(* UninstallRecorder.record: put a tombstone into every stored TaskInfo     *)
(* that has the resource among its own, and complete the resource's step.   *)
(* A resource that no TaskInfo has (any more) is neither.                   *)
Record(r) ==
    /\ offers = "record" /\ r \in todo
    /\ todo' = todo \ {r}
    /\ IF r \in StoredResources(infos) \ tombstones
       THEN /\ tombstones' = tombstones \cup ({r} \cap Own)
            /\ resourceSteps' = resourceSteps \ {r}
       ELSE UNCHANGED <<tombstones, resourceSteps>>
    /\ UNCHANGED <<uninstalling, frameworkId, infos, statuses, at, id, killSteps, tlsStep,
                   deregisterStep, offers, batch, update, mesosVars, ghostVars>>

(* Mutant of RecordFails: what was not recorded is left on the list.        *)
RecordFailsHalfway ==
    /\ offers = "record" /\ todo # {}
    /\ Lose /\ leaked' = leaked \cup (batch \ todo)
    /\ offers' = "idle" /\ batch' = {}
    /\ UNCHANGED <<storeVars, at, id, planVars, todo, update, mesosVars>>

(* OfferAccepter.accept gives up on all recommendations if one cannot be    *)
(* recorded.                                                                *)
RecordFails ==
    /\ offers = "record" /\ todo # {}
    /\ Lose /\ leaked' = leaked \cup (batch \ todo)
    /\ offers' = "idle" /\ batch' = {} /\ todo' = {}
    /\ UNCHANGED <<storeVars, at, id, planVars, update, mesosVars>>

(* Everything is recorded: send the operations to Mesos ...                 *)
Accept ==
    /\ offers = "record" /\ todo = {}
    /\ offers' = "idle" /\ batch' = {}
    /\ reserved' = reserved \ batch
    /\ UNCHANGED <<storeVars, at, id, planVars, todo, update, frameworks, running, kills, unacked,
                   secrets, ghostVars>>

(* ... which drops them if the offer was rescinded or the call was lost.    *)
AcceptDropped ==
    /\ offers = "record" /\ todo = {}
    /\ Lose /\ leaked' = leaked \cup batch
    /\ offers' = "idle" /\ batch' = {}
    /\ UNCHANGED <<storeVars, at, id, planVars, todo, update, mesosVars>>

-----------------------------------------------------------------------------
(* The driver's thread: processStatusUpdate finds the task's name, which it *)
(* cannot when the TaskInfo is gone, and then stores the status.            *)
StatusUpdate(t) ==
    /\ at = "up" /\ id \in frameworks
    /\ t \in unacked /\ update = None
    /\ IF t \in infos
       THEN update' = t /\ UNCHANGED unacked
       ELSE unacked' = unacked \ {t} /\ UNCHANGED update
    /\ UNCHANGED <<storeVars, at, id, planVars, offerVars, reserved, frameworks, running, kills,
                   secrets, ghostVars>>

StatusWrite ==
    /\ update # None
    /\ statuses' = statuses \cup {update}
    /\ unacked' = unacked \ {update}
    /\ update' = None
    /\ UNCHANGED <<uninstalling, frameworkId, infos, tombstones, at, id, planVars, offerVars,
                   reserved, frameworks, running, kills, secrets, ghostVars>>

-----------------------------------------------------------------------------
(* Mesos: a killTask call ends the task or is lost; the end of a task is    *)
(* reported, and reported again when the acknowledgement was lost.          *)
KillArrives(t) ==
    /\ t \in kills
    /\ kills' = kills \ {t}
    /\ IF t \in running
       THEN running' = running \ {t} /\ unacked' = unacked \cup {t}
       ELSE UNCHANGED <<running, unacked>>
    /\ UNCHANGED <<storeVars, at, id, planVars, offerVars, update, reserved, frameworks, secrets,
                   ghostVars>>

KillLost(t) ==
    /\ t \in kills /\ Lose
    /\ kills' = kills \ {t}
    /\ UNCHANGED <<storeVars, at, id, planVars, offerVars, update, reserved, frameworks, running,
                   unacked, secrets, leaked>>

(* The process dies and is started again, still in uninstall mode.          *)
Crash ==
    /\ at # "down" /\ crashes < MaxCrashes
    /\ crashes' = crashes + 1
    /\ leaked' = leaked \cup (batch \ todo)
    /\ orphaned' = (orphaned \/ offers \in {"stop", "clear"}
                            \/ (frameworkId = None /\ at = "registered"))
    /\ at' = "down" /\ id' = None
    /\ NoSteps /\ IdleThreads
    /\ UNCHANGED <<storeVars, mesosVars, losses>>

-----------------------------------------------------------------------------
Next ==
    \/ Build \/ Finish \/ RunDriver \/ Registered \/ StoreFrameworkId
    \/ \E S \in SUBSET Resources : KillTasks(S) \/ AwaitResources(S) \/ CleanTLS(S)
    \/ Deregister \/ ClearFrameworkId \/ StopDriver \/ ClearState
    \/ \E r \in Resources : Record(r)
    \/ RecordFails \/ Accept \/ AcceptDropped
    \/ \E t \in Tasks : StatusUpdate(t) \/ KillArrives(t) \/ KillLost(t)
    \/ StatusWrite \/ Crash

Spec == Init /\ [][Next]_vars

(* Every thread goes on, Marathon restarts the process, calls that are not  *)
(* lost arrive, and a resource that stays on offer is offered again.        *)
FairSpec ==
    /\ Spec
    /\ WF_vars(Build) /\ WF_vars(Finish) /\ WF_vars(RunDriver)
    /\ WF_vars(Registered) /\ WF_vars(StoreFrameworkId)
    /\ WF_vars(KillTasks({})) /\ WF_vars(CleanTLS({})) /\ WF_vars(Deregister)
    /\ WF_vars(ClearFrameworkId) /\ WF_vars(StopDriver) /\ WF_vars(ClearState)
    /\ \A r \in Resources : SF_vars(AwaitResources({r})) /\ WF_vars(Record(r))
    /\ WF_vars(Accept) /\ WF_vars(StatusWrite)
    /\ \A t \in Tasks : WF_vars(StatusUpdate(t)) /\ WF_vars(KillArrives(t))

-----------------------------------------------------------------------------
(* What the HTTP API reports as a complete plan, on which the package       *)
(* manager removes the scheduler.                                           *)
Done ==
    \/ at = "finished"
    \/ /\ at = "up" /\ offers = "idle"
       /\ killSteps = {} /\ resourceSteps = {} /\ ~tlsStep /\ ~deregisterStep

(* The stored framework id is always one that Mesos has not torn down:      *)
(* otherwise every later start would be refused ("Framework has been        *)
(* removed").  This is why DeregisterStep clears the id before it stops the *)
(* driver.                                                                  *)
StoredFrameworkLives == frameworkId # None => frameworkId \in frameworks

(* When the framework is gone nobody can unreserve any more.  What is still *)
(* reserved then was recorded as unreserved by an accept that a crash, a    *)
(* failing write or a rescinded offer kept from Mesos, and no TLS secret is *)
(* left behind.                                                             *)
OnlyTornRecordsLeak == frameworks = {} => reserved \subseteq leaked /\ ~secrets

(* A scheduler that reports a complete plan has had its framework torn down *)
(* and its state deleted, unless a crash came between the calls of          *)
(* DeregisterStep: then the framework stays, or a new one is registered.    *)
CompleteMeansGone ==
    Done => \/ orphaned
            \/ /\ frameworks = {} /\ frameworkId = None
               /\ ~uninstalling /\ infos = {} /\ tombstones = {}

(* A resource of an executor was unreserved by an earlier process: its step *)
(* is open again and nothing will be offered for it.                        *)
Stranded == at = "up" /\ (resourceSteps \cap Shared) \ reserved # {}

(* The one killTask call of a task was lost.                                *)
KillForgotten == at = "up" /\ running \ (killSteps \cup kills) # {}

(* The uninstall ends, however often the scheduler is restarted at whatever *)
(* point, but for these two cases.                                          *)
UninstallFinishes == <>[](Done \/ Stranded \/ KillForgotten)
=============================================================================
