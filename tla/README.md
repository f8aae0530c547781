# A TLA+ model of the DC/OS service scheduler

This directory specifies and verifies the core of the Java library in
`sdk/scheduler` (package `com.mesosphere.sdk`): the scheduler process that keeps
the tasks of a service running on Mesos, from its configuration and plans down to
its storage, to the point where it is uninstalled; and the Go program that each
task runs first (`sdk/bootstrap`). Paths below are relative to
`sdk/scheduler/src/main/java/com/mesosphere/sdk/` unless they say otherwise.
`PROJECT.json` maps every definition to the lines it models, lists the runs, the
mutants (plausible bugs that the properties are known to catch), the hazards and
the theorems.

    tlc -workers 2 -config MCOfferCycle.cfg MCOfferCycle     # a run
    tlapm OfferCycleProofs.tla                               # the proofs

## 1. Inventory

### Threads

| thread | runs |
| --- | --- |
| Mesos driver | `registered`, `reregistered`, `resourceOffers`, `offerRescinded`, `statusUpdate`, one at a time |
| offer thread | `processQueuedOffers` in an endless loop: reconcile, then the plans, then clean-up of resources |
| HTTP | `PlansResource`, `PodResource`: restart, complete, interrupt, pause, replace |
| TaskCleaner pool | one look at the state store for each status of a task |
| API server start | one callback, after which offers are accepted |
| token bucket timer | refills the budget of revive calls |

The state store has **no lock**: each read and each write of the persister is
atomic, and nothing else is. The reconciler's list, the recovery plan and each
deployment step's statuses have locks of their own.

### Components

| component | state | operations | what makes it correct | module |
| --- | --- | --- | --- | --- |
| Offer cycle (`scheduler/AbstractScheduler`, `queue/OfferQueue`) | bounded queue, set of offers in progress, `isInitialized` | the driver's callbacks, one cycle of the offer thread | every offer is answered, once; none is lost from view; no plan before reconciliation | `OfferCycle` |
| Reconciliation (`reconciliation/DefaultReconciler`) | ids to hear of, phase flag, backoff timer | `start`, `reconcile`, `update`, `isReconciled` | every task that was believed alive is heard of before anything is launched | `Reconciler` |
| Task records (`state/StateStore`, `StateStoreUtils`) | TaskInfo and TaskStatus of each task | `storeTasks`, `storeStatus`, fetches, `repairTaskIDs` | the two records agree; ends of tasks are not forgotten | `StateStore`, `TaskRecords` |
| Launch recording (`offer/OfferAccepter`, `state/PersistentLaunchRecorder`) | - | record, then accept | a crash anywhere leaves records that can be recovered from | `TaskRecords`, `OfferCycle` |
| Plan scheduler (`scheduler/plan/DefaultPlanScheduler`) | - | start, kill, evaluate, accept, update the step | order of these; what happens when one fails | `OfferCycle`, `TaskRecords` (any step), `ConfigUpdate` (which step) |
| Task cleaner, task killer | - | look at a task on a status, kill it if nobody knows it | no task runs that is in no record | `TaskRecords` |
| Configuration update (`config/DefaultConfigurationUpdater`, `state/ConfigStore`) | configurations, target, label of each task | `updateConfiguration`, relabel, clear | no reference dangles; no task is passed over by a rollout or relaunched without need | `ConfigUpdate` |
| Deployment steps (`scheduler/plan/DeploymentStep`, `DefaultStepFactory`) | status of the step and of each of its tasks | initial status, `updateOfferStatus`, `update`, restart, complete | a step is complete only if its tasks are as they should be; it does not get stuck | `Steps`; `ConfigUpdate` (initial status) |
| Plan tree and coordinator (`scheduler/plan/`) | strategies, interrupts | candidates, dirty assets, status aggregation | deploy and recovery keep off each other's pods; plans end or wait for somebody; a status that is shown was true | `Plans`; `ConfigUpdate` |
| Recovery plan manager (`scheduler/recovery/`) | recovery steps | find failed pods, make and replace steps | each failed pod is recovered, as it was | `Plans`, `ConfigUpdate`, `TaskRecords` |
| Offer evaluation (`offer/evaluate/`) | - | match a pod with an offer | TaskInfos, ids and labels that a launch stores | `TaskRecords`, `ConfigUpdate`, `Steps` (only these) |
| Pod commands (`http/PodResource`), goal overrides (`state/GoalStateOverride`) | override of each task | pause, resume, restart, replace | an interrupted command is carried on | `Steps`, `TaskRecords` (replace) |
| Plan commands (`http/PlansResource`) | - | start, stop, continue, interrupt, restart, complete | no command leaves a plan that neither goes on nor says why | `Plans` |
| Uninstall (`scheduler/uninstall/`) | tombstones, framework id, four phases | kill, unreserve, erase, deregister | nothing leaks, restartable anywhere | `Uninstall` |
| Persistence (`storage/PersisterCache`, `curator/CuratorPersister`) | ZooKeeper and its cache | set, delete, many at once, retry | cache and store agree; all or nothing | `Persistence`, `Storage` |
| Bootstrap (`sdk/bootstrap/main.go`) | flags, timers | resolve hosts, check the own address, render templates | a task starts when its surroundings are ready, or fails in time | `Bootstrap` |
| Decommission, revive and suppress, resource cleaner | - | - | - | not modelled, section 7 |

### Hard behaviours

The races of the driver's thread with the offer thread over the reconciler, the
queue and the state store; a crash between any two writes (a new configuration
takes 4 writes and more, a launch 2 per task); requests, answers and kills that
Mesos drops; statuses that come late, twice or out of order; steps that two
plans make from different views of the same pod; operators' commands, made of
several unlocked calls, under the offer thread; ZooKeeper requests that are
applied although they fail; name resolution that changes while it is waited
for; the status of a phase, which is put together from many unlocked reads. The
list with lines is in `PROJECT.json` under "hazards".

## 2. Modules

    StateStore          the two records of a task, storeTasks, storeStatus
      Reconciler        reconciliation at the granularity of its lock
        OfferCycle      the two threads around the queue       OfferCycleProofs
          implements OfferLedger   given, in progress, closed
      TaskRecords       one pod's records: all writers, crashes, repair
                                                       TaskRecordsProofs
      Steps             one step, its three threads, overrides  StepsProofs
    ElementStatus       the status of a parent, from those of its children
      Plans             deploy and recovery plan, coordinator, plan commands
                                                       PlansProofs
    ConfigUpdate        configurations, labels, deploy and recovery  ConfigUpdateProofs
    Uninstall           from a deployed service to none      UninstallProofs
    StorageTree         the tree of paths, what a call does to it
      Persistence       cache over retried ZooKeeper requests
        implements Storage       what the state store expects  PersistenceProofs
    Bootstrap           the program before a task's command  BootstrapProofs
    MCOfferCycle, MCTaskRecords, MCConfigUpdate, MCPlans, MCUninstall,
    MCPersistence, MCBootstrap                        instances for TLC

**StateStore** has the variables `taskInfo` (the id in a task's TaskInfo) and
`taskStatus` (id and state), and `StoreTasks`, `StatusRejected` and
`StoreStatus`. `storeStatus` is split into its checks and its write, as nothing
holds it together in the code. A TaskInfo's id can be "" (`EmptyId`): a launch
stores a TaskInfo for tasks of the pod that it does not start.

**Reconciler** has a label per step of `start` and `reconcile` (`StartFetch`,
`StartAdd`, `ReconcileCheck`, `ReconcileLocked`, `ReconcileTrigger`,
`ReconcileSend`), so that what is inside `synchronized` is one action and what
is outside is not. Both threads run it. The clock is abstracted to "the backoff
has passed or not"; the backoff itself doubles up to a maximum.

**OfferCycle** composes it with the driver's callbacks and the offer thread.
Which step wants to launch what is arbitrary; launches go through kill,
evaluate, two writes, `acceptOffers` and the decline of what is left.
Mesos (section 3 of the module) makes, rescinds and delivers: at most
`MaxOffers` offers and `MaxReregister` master elections. An election drops
reconciliation requests and answers.

**OfferLedger** is what the offer cycle promises, with no queue, batch or thread:
offers are made in order, taken up or turned down, answered at most once and only
while they are in progress, withdrawn by Mesos while unanswered, and leave the
ones in progress only when closed (answered or withdrawn). The refinement mapping
is `given <- received, answers <- answered, withdrawn <- rescinded, inProgress
<- offersInProgress`; every other step of OfferCycle is a stutter of the ledger.

**TaskRecords** takes one pod instance through any number of launches (one id
each) with crashes (`MaxCrashes`), pod replaces (`MaxReplaces`), failing writes
(`MaxFailures`), lost agents (`MaxLost`), together at most `MaxFaults`. A new
process repairs (`RepairTasks`, then each status in `RepairStatus`), which can
itself be cut off. All writers of a record are there: the recorder, the driver's
`storeStatus`, the label of a replace and of a permanent recovery, the repair.

**ConfigUpdate** is the start-up (`Start`, `Store`, `SetTarget`, `Relabel`,
`Clear`, `BuildPlans`, with a `Crash` between any two) and what follows: deploy
steps launch from the target, recovery steps from the configuration that the
failed task is labelled with, and label what they launch as
`OfferEvaluator.getTargetConfig` does. A `ServiceSpec` is a template and a count
for each pod; `Counts` gives the validators something to refuse. A stored
configuration may be unreadable to one version of the scheduler and readable to
the next. A task's record is one write here (TaskRecords has the parts).

**Steps** is one step with the pod's tasks: `step` is its status and its map of
task ids, `monitor` its lock. The offer thread (`offers`) kills, evaluates,
records, accepts and then tells the step in `updateOfferStatus`
(`UpdateBegin`, `UpdateFetch`, `UpdateStore`, `UpdateEnd`); the driver's thread
(`driver`) stores a status and calls `update` (`StepFetch`, `StepStore`); an HTTP
thread (`http`) stores overrides one by one and then kills (`OverrideStore`,
`HttpKill`), or restarts or completes the step without its lock. An override is
read and written back in two actions (`StepFetch`/`StepStore`,
`UpdateFetch`/`UpdateStore`), as in `setOverrideStatus`. The start of a process
runs `repairTaskIDs`, derives the step's status and kills for pending overrides.
It uses StateStore for the records.

**Plans** takes a step's launch as one action and has what is around it: status
aggregation (`ParentStatus` of ElementStatus), strategies (`StepCandidates`:
serial, parallel and both canaries), the cycle of the coordinator, and the
operator's commands.

- The coordinator is cut at each look at a plan, as the driver's thread moves the
  steps in between: `CollectDirty`, `DeployRelevant`, `DeployCandidates`,
  `RecoveryRelevant` (`getRelevantDirtyAssets`, outside the recovery plan's lock),
  `RecoveryCandidates` (`updatePlan` and `getCandidates`, under it), then one
  `Process...` per step.
- A recovery step is `permanent` or not, and a pod's TaskInfo is `marked` as
  permanently failed or not (`pod replace`, or the start of a permanent step). A
  step whose type no longer agrees with the mark does not count as in progress
  (`failureStateHasChanged`) and is replaced.
- The helper of a strategy, which knows what was incomplete when it was made, is
  made on first use, by a status or a candidate call (`Known`, `Made`); that of a
  canary phase not before the canary is over.
- `http` holds what is left of a command: the look at the status in pause, resume
  and start (`Answer`), the second call of restart, start and stop, the kill of a
  replace (`SecondHalf`).
- No lock covers a status. `getStatus` computes the candidates once, child by child,
  and then asks the children again in each of its cases. `seen` has what each of
  the two reading threads can have met of each step since its read began (offer
  thread: while it computes the deploy plan's candidates; HTTP thread: until
  `Answer`), and `StatusesRead` of ElementStatus what the cases can make of it, if
  every test meets any of these statuses and the candidates are taken at any
  time (`Readings`). If nothing moved, that is `ParentStatus`, as the lemma
  `StillReadsAgree` of the proofs has for any element.

**Uninstall** begins with any set of tasks and resources of a deployed service.
`at` is how far the process has come, from `SchedulerBuilder.build` to the end of
the driver. The four phases are sets of open steps. The offer thread cleans
offers (`Cycle`), writes tombstones one by one (`Record`) and only then accepts.
`DeregisterStep.start` is three actions (`ClearFrameworkId`, `StopDriver`,
`ClearState`). A resource of an executor gets no tombstone, as in
`UninstallRecorder.updateResources`. `leaked` and `orphaned` are history.

**StorageTree**, **Storage**, **Persistence**: the tree and the calls, what
readers may rely on, and how it is done. Persistence has a request to ZooKeeper
per action. Each can be applied and still fail (`erred`), can be repeated by
Curator, and is followed by what the code does with the exception. A
transaction is built from what exists (`Build`), committed, and on an error
built again, up to `MaxAttempts` times. The refinement mapping is
`view <- cache`: what ZooKeeper holds shows only when it is loaded, which may
differ from the view under the paths of `doubt`, the calls that threw or were cut
off.

**Bootstrap** follows `main`. A timer is an explicit state ("active", "fired",
"read", "stopped", or "nil" for a timeout of 0), DNS and the timer are the
environment. The flags are arbitrary, including the timeout 0 that crashes it.

### Rules that the modules follow

An action is one stretch of code between two points where another thread or a
crash can get in. Ids are only compared, hence model values, and symmetric
where a run is about safety. History variables (`heard`, `believed`,
`accepted`, `used`) are named as such and never guard an action, except `used`,
which keeps ids fresh as UUIDs are.

## 3. Runs

| run | instance | what it shows |
| --- | --- | --- |
| `offer_cycle` | 1 task, 1 id, 2 offers, queue of 1, 1 election; any initial records | `OpenOffersInProgress`: an open offer is always in `offersInProgress`. `AnsweredOnce`: on the queue-full path, the reconciliation gate, accept and decline together no offer is answered twice. `ReconciledBeforePlans`. `ImplementsLedger`: the two threads implement OfferLedger. |
| `offer_cycle_live` | 1 offer | `OffersAnswered`, `OffersProcessed`, `KnownTaskReconciled`: under fairness no offer is hoarded, and a task that is waited for is heard of although requests are lost |
| `reconcile_stall` | violation | finding 1 |
| `task_records` | 1 task, 2 launches, 2 faults of 4 kinds | `RepairedInSync`: plans are built from records that agree, wherever writers and repair were cut. `LostNeverHidesEnd` |
| `task_records_live` | 1 task, 1 crash | `HeardOrphanKilled`, `DeathRecorded` |
| `config_update` | pod of a ONCE and a RUNNING task, 2 templates, 2 counts, 4 ids | `ReferencesExist`, `UpdateKeepsMatches`, `TargetsValid`, `UnusedDropped` |
| `config_rollout` | violation, two pods | finding 2 |
| `steps` | 1 task, 3 launches, 2 faults: failures, crashes, pause, resume, restart, complete, statuses sent again | `TwinsOnlyWhenTorn`: two tasks of one name run only after torn records (section 4, 4). `CompletesOnlyOnGoal`: readiness of every task, not of some or of an older one. `StepSettles`: it does not get stuck, but when a status came too early or records were torn |
| `plans` | a canary step and one behind it, 1 command, 1 failure | `NoStateIsError`: the cases of `getStatus` leave no state out. `CompleteReadIsComplete`: a phase that is read as COMPLETE is complete, whatever moved during the read, but for a restart. `RecoveryYields`: recovery takes up no pod that the deploy plan is about to launch, unless it had a step for it before. `PlansSettle`: neither plan starves, but for clashes that are named |
| `uninstall` | 2 tasks with a shared volume, 1 given up; 2 crashes, 1 loss | `StoredFrameworkLives`, `OnlyTornRecordsLeak`, `CompleteMeansGone`, `UninstallFinishes` |
| `persistence` | a node with two leaves, 2 values, 3 attempts | `ManyAtOnce`: all or nothing at every moment. `ImplementsStorage`. `CallsReturn`: the lock is given back |
| `bootstrap` | the own name and one peer, 2 addresses, 1 template, all flags | `StartedMeansReady`, `NeverBlocked`, `TimeoutEnds` |

**Bounds.** Two offers against a queue of one reach every path of the queue
(fits, full, rescinded while queued) and every pair of threads' positions; a
third offer only repeats a role. One election is enough to restart
reconciliation at any point of either thread, two would repeat it. Two ids per
task are an old and a new launch, which is all that a record can confuse. Two
faults are a crash in the repair of a crash, a crash while a replace is under
way, or one after a write that threw. `MaxFaults` bounds the sum so that the
instance stays small. In `config_update` nothing is counted: updates, crashes
and failures go on for ever; 4 ids suffice for the target, the labels of two
tasks, and one configuration left over from an update that was cut off. One task
per pod in the other runs is enough, as the code treats the tasks of a pod
alike except where `config_update` looks; the theorems about `TaskRecords` are
for any number of tasks. In `steps` three ids are two launches and one that
replaces the second; two faults are, say, a pause and a crash in it. In `plans`
one command and one failure already bring deploy and recovery to the same pod;
each strategy of a phase is exercised as the canary part, and after it is over
the serial one; two steps are what a read needs to meet one before and one after
it moved. In `uninstall` two crashes are one at any point and one in the
work of its successor. `persistence` bounds nothing but the attempts, of which the code
has as many: calls, crashes and lost answers go on for ever.

**Deadlock** is checked in every passing run: the offer thread and the start-up
never stop for good. It is switched off in `steps`, `plans` and `uninstall`,
where everything is done in the end (or the bounded supply of ids, failures and
commands used up), in `bootstrap`, which ends, and in `config_rollout`, whose
ids run out.

**Fairness** (`FairSpec`), with what justifies it: a thread that has work runs
(weak fairness of each thread's actions; none of them waits for another: callbacks do
not block, and `OfferQueue.takeAll` returns after a timeout);
a cycle looks at finitely many candidate steps before it declines what is left
(strong fairness of `DeclineUnused`); the API server starts; time passes; a
scheduler that is down is restarted by Marathon; the master answers requests
that it has not dropped, and messages that are on their way are delivered
(strong fairness, as delivery has to wait for other callbacks). Nothing makes a
plan start a step in OfferCycle and TaskRecords, an agent come back, or an operator call.
Where the progress of steps is the question, an offer that fits comes again and
again: strong fairness of `Evaluate` in Steps, of the launch of each pod, by
whichever plan, in Plans (`ProcessLaunch`), of `AwaitResources` in Uninstall (a
resource that is reserved is offered again, as Mesos rejects it for a limited time
only). A task that is launched becomes ready again and again (`TaskRuns`). A command
that has begun goes on (`Answer`, `SecondHalf`). A request to ZooKeeper returns or
throws in the end, as Curator's retries are bounded. Time passes in Bootstrap; of
DNS nothing is assumed.

## 4. Findings

1. **Reconciliation that never completes** (`reconcile_stall`). `reconcile()`
   sees the list empty under its lock and sets the flag of its last phase after
   it. `start()` on the other thread in between adds tasks and clears the flag
   first: then the flag is set with tasks waiting, and nothing asks for them.
   `KnownTaskReconciled` shows that this is the only way.
   (Another way to the same end: the status of an id that was replaced meanwhile
   throws in `processStatusUpdate`, so that `reconciler.update` is not called.)
2. **A rollout undone by an older recovery step** (`config_rollout`): a recovery
   step that was made from the old configuration, and is still pending when the
   deploy step runs, later relaunches the pod from it, labelled with the target.

### Seen on the way, without a run

Each of these came up as a counterexample of a model or while translating the
code; a run of its own would only repeat it.

*Records and tasks*

3. `processQueuedOffers` says (AbstractScheduler:409) that reconciliation must
   complete before any task is launched; it checks once per cycle, and a
   re-registration can restart reconciliation between the check and the launch.
4. TaskInfo and TaskStatus get different ids in a running process, although
   StateStoreUtils:168 says "While the scheduler process is up they remain in
   sync": `storeStatus` checks and writes without a lock, while the launch
   recorder stores a new launch. These are the *torn* records of Steps: the new
   task's statuses are dropped, and the next launch of the step misses it.
5. A task that comes back from LOST while it is being replaced is looked at by the
   task cleaner before its TaskInfo is replaced, and runs on as an orphan.
6. `getTargetConfig` (OfferEvaluator:526) takes the label of any task of the pod; a
   finished ONCE task keeps an old label by design, and a recovered task is then
   labelled with it.
7. A permanent replace stores the id "" over the record of a finished ONCE
   task, which the next start marks FAILED and a later deploy runs again. A pod
   replace that runs beside a launch writes back the old id.
8. A crash in `repairTaskIDs` after the TaskInfos leaves a task that should have
    become FAILED with its old state. One TaskInfo whose configuration cannot be
    fetched makes `fetchTasksNeedingRecovery` throw, which stops all recovery. An
    offer rescinded in the queue stays in `offersInProgress` (only a test hook and a
    log line read it).

*Steps and overrides* (each breaks a stronger form of a property of `Steps`)

9. An override can be lost: the driver's thread reads it, an HTTP thread stores a
    pause, the driver's thread writes back what it read. And a pause that is stored
    after a launch was evaluated is marked done by the RUNNING status of the
    normal command.
10. A status that arrives between `acceptOffers` and `updateOfferStatus` is not
    for an id that the step knows; if it is the last one, the step stays
    STARTING (`missed` in `StepSettles`).
11. `restart()` keeps the map of tasks: a repeated status of the old task
    completes the step, and nothing is relaunched.
12. The table of GoalStateOverride has TASK_KILLED lead to IN_PROGRESS; the code
    sets PENDING.

*Plans* (13 is why `NoStateIsError` is about states and not about reads, the others
are the carve-outs of `RecoveryYields` and `PlansSettle`)

13. Status:11 says of ERROR that "the initial construction of the Element failed".
    A lone candidate that is STARTED when line 159 of ParentElement asks for
    STARTING, and COMPLETE or back at PENDING when line 163 asks for STARTED, fits
    no case, and line 168 returns ERROR. The same if a step completes between the
    reads of two children, so that there is no candidate at all. "plan status" shows
    it, the coordinator leaves the phase out for a cycle (`PhasesRead`), and
    continue and interrupt act on it (`Answer`).
14. DefaultPlanCoordinator:36 says that no asset is worked on by two plans. STARTED is
    not dirty: a deploy step that is restarted while recovery has launched its pod
    is a candidate, and the pod is not dirty for recovery, whose own step works on
    it (line 55 takes it out, before `updatePlan` has its lock). If the task fails
    in between, both steps are pending candidates of one cycle, and each kills and
    launches the pod. Likewise a deploy step that was PREPARED (and has killed the
    task of its pod) and a recovery step, one cycle after the other (`Clash`).
15. `plan restart` of elements that were complete when the strategy was first
    asked runs them in no order, as the dependencies are computed once over
    what was incomplete.
16. A PREPARED step of a phase that is then paused keeps its pod, whose task it has
    killed, from recovery (`HeldBack`). A paused recovery plan goes on after the
    next change, as `setPlan` makes a new strategy, and a pause is lost if the plan
    is replaced before it takes effect. A recovery plan that is paused and then
    completes (or is empty) answers "continue" with 208, so that only start or
    restart resumes it. `interrupt` is ignored by a canary phase that is still at
    its canary; a canary step completed by force stays interrupted.

*Uninstall*

17. Resources of executors (pod volumes, the executor's own cpu) get no tombstone
    (UninstallRecorder:85). After a crash between the last unreservation and the
    deregistration, the next process opens steps for them that no offer will
    ever complete (`Stranded`), although "This allows Schedulers to be killed at
    any time and continue where they left off" (docs/pages/ops-guide/overview.md:21).
18. A task is sent one kill; if it is lost, its resources are never offered
    (`KillForgotten`). A tombstone is written before its unreservation is sent:
    a crash between leaks that reservation, and nothing else does
    (`OnlyTornRecordsLeak`).
19. A crash between clearing the framework id and stopping the driver leaves the
    framework registered; one between stopping it and clearing the state makes the
    next process register anew if a resource has no tombstone (`orphaned`). A
    status that races `clearAllData` leaves a node behind.

*Storage*

20. `Persister` says of `setMany` and `recursiveDeleteMany` that on an error "no changes
    should have been made"; the last attempt may throw although it was applied.
    Cache and ZooKeeper then differ until the next start (`doubt` in Storage).
21. A `recursiveDelete` whose answer is lost ends in NOT_FOUND when Curator repeats it.
    `clearTask` and others swallow it, while the cache keeps the data. It is also
    several requests: a crash leaves a task's status without its TaskInfo.
22. Clearing the root writes null bytes, and the error path of `set` reads their
    length (CuratorPersister:249).

*Bootstrap*

23. `-resolve-timeout=0`, documented as "zero to wait indefinitely", makes the timer
    nil, and `timer.Stop()` panics after everything has resolved. With another
    value the program may wait twice that time, as self resolution has a timer of
    its own. `os.Stat` errors other than "does not exist" panic in `openTemplate`.

## 5. Proofs

Checked by TLAPS for every value of the constants that satisfies the named
assumptions (`StoreAssumption`, `BackoffAssumption`, `OfferCycleAssumption`,
`TaskRecordsAssumption`, `ConfigUpdateAssumption`, `UninstallAssumption`, `TreeAssumption`,
`AttemptsAssumption`, `StepsAssumption`, `PlansAssumption`, `NoneAssumption`,
`BootstrapAssumption`), which only say what the constants
are: which are numbers or finite, that names of different things differ, and that a plan
has no element twice.

**OfferCycleProofs**
- `TypeCorrect`: `Spec => []TypeOK`. `TypeOK` is inductive, as it also says what
  each thread holds at each of its labels; it includes the bound on the queue.
- `ReconciledFirst`: `Spec => []ReconciledBeforePlans`. Alone this is not
  inductive. `ReconciledInv` adds `NotInitialized` (before `registered` returns
  there is no offer in the process, so that the offer thread stays out of the
  plans) and `BelievedTracked`, which follows the ids that were believed alive
  at the start: from the state store into `fetched`, from there into
  `unreconciled`, and from there only into `heard`.

  The rest follows from one more invariant, `LedgerInv`, on top of `TypeCorrect`:
- `LedgerInvariant`: `Spec => []LedgerInv`. `HandInv` says where an offer can be:
  `incoming`, `queue` and `batch` are disjoint parts of `offersInProgress`, and the
  queue has no offer twice. `AnswersInv` and `BatchInv` say what is answered: an
  offer that is in none of the three is closed; nothing in `incoming` (but the one
  that did not fit, at "full") or in the queue is answered; of the batch nothing
  before the gate, exactly what is not in `available` while the plans work, and
  all of it at "finish".
- `LedgerImplemented`: `Spec => ImplementsLedger`. Each answer is a ledger
  `Answer` as what is answered is in hand and unanswered; the two removals are
  ledger `Finish`es as what is removed is answered.
- `NoSecondAnswer` and `NoOpenOfferMissing`: `AnsweredOnce` and
  `OpenOffersInProgress` follow from the invariant.

**ConfigUpdateProofs**, the first four from one invariant, `IndInv`:
`TypeOK /\ ReferencesExist /\ UpdateInv`.
- `TypeCorrect`: `Spec => []TypeOK`.
- `ReferencesKept`: `Spec => []ReferencesExist`. `Clear` may only drop what is
  not in `needed`, so `UpdateInv` has that during the clean-up `needed` covers
  the target and every label; that holds because `Relabel` computes `needed`
  from exactly the tasks that it does not move to the target.
- `TargetsOnlyValid`: `Spec => TargetsValid`. Validation and the write of the
  target are three steps apart; `UpdateInv` carries the validity of the
  candidate, and that it is what was stored under the fresh id, across them.
- `LabelsKept`: `Spec => UpdateKeepsMatches`. `Relabel` moves only tasks whose
  template is the target's, and `Store` and `Clear` never change a
  configuration that a label names.
- `NothingUnusedStays` and `UnaffectedStays`: `Spec => UnusedDropped` and
  `Spec => UnaffectedLeftAlone`, about the step in which the plans are made, which is
  `BuildPlans` and no other (`UpByBuildPlans`). `CleanUpInv` carries what `Relabel`
  decided through any number of `Clear`s: `needed` has nothing but the target, labels
  and what is unreadable, and a launched task whose configuration can be read has
  the target's label unless it is to be updated. `UnaffectedLeftAlone` is proved
  only, no run checks it.

**TaskRecordsProofs**
- `TypeCorrect`: from `TypeInv`, which adds that every id in a record, a thread's
  hand or a message was used for a launch.
- `RepairIsComplete`: `Spec => []RepairedInSync`. `RepairInv` says that while the
  process is up every status has a TaskInfo (`StatusHasInfo`), and that while
  it repairs, a task whose records disagree is in `repairs`.
- `EndIsNotHidden`: `Spec => LostNeverHidesEnd`. `LostIsNews` carries the check of
  `storeStatus` to its write: a TASK_LOST that passed the check is for an id whose
  stored status is not terminal, and nobody else writes a status of that id in
  between.

**StepsProofs**, from `TypeInv` with `ReadyInv` (together `StepsInv`) or `TwinsInv`:
- `TypeCorrect`. `TypeInv` adds what the threads hold, that every id in a
  record, a thread's hand or Mesos was used for a launch, and that the step's
  tasks are those of one launch of the whole pod, or none.
- `CompletesOnGoal`: `Spec => CompletesOnlyOnGoal`. `ReadyInv` follows "ready"
  from Mesos through the driver's hand into the step's map; only `UpdateEnd` and
  `StepStore` aggregate the map into the step's status (`CompletesStep`), and a
  launch has as many ids as the pod has tasks (`LaunchSize`).
- `LaunchKillsWhatItReplaces`: `Spec => []TwinsOnlyWhenTorn`. That two tasks run under
  one name can only be excluded by following the records, which `TwinsInv` does:
  while none is torn, every TaskInfo has a status of its own id, except the one
  the recorder is at (`InSync`); what is alive and not asked to die is recorded,
  with a status that is not over; and from the kill before a launch until the
  offers are accepted nothing is (`SoundInv`). A status that the driver's thread
  writes keeps this as it is of the recorded id or tears the records, and if it
  is terminal, its task has failed (`FailedInv`); the repair keeps it as it
  changes no record in sync (`RepairedSync`); the launch restores it as Mesos
  does not know the new ids before it is complete (`RecordsInv`).

**PlansProofs**, from `PlansInv`, for plans of any size:
- `TypeCorrect`. `PlansInv` adds what the threads hold, that a task belongs to a
  recovery step only where there is one, and `CandidatesInv`: until recovery has
  looked at them, the candidates are deploy steps and their pods are dirty, and they
  stay relevant to recovery but for pods that recovery has a step for already.
- `RecoveryKeepsOff`: `Spec => RecoveryYields`, for any interleaving of the
  driver's thread, the operator and the coordinator's looks at the plans. A pod
  without a recovery step gets none while a deploy step for it is among the
  candidates: only `RecoveryCandidates` makes recovery steps, for pods that are
  not relevant, and `RecoveryRelevant` drops from the dirty ones only what
  recovery has a step for (`CandidatesInv`). The condition on an older step is
  needed (section 4, 14).
- `NoStateNeedsError`: `Spec => []NoStateIsError`, a statement about states, not
  about reads: in no reachable state do the cases of `getStatus` leave the mix of
  children's statuses out. An element with an incomplete child that is neither
  interrupted nor waiting has a candidate: its first incomplete child is ready
  under every strategy, whatever was incomplete when the strategy computed its
  dependencies (`FirstOpen`); the statuses that such a candidate can have are all
  covered (`PhaseGoesOn`, `PhaseShowsNoError`), and with them those of the plan
  (`PlanShowsNoError`). So an ERROR that is shown comes from a torn read (section 4, 13).
- `CompleteReadsAreTrue`: `Spec => []CompleteReadIsComplete`, about reads. COMPLETE is
  the result of one case only, for which every child was met COMPLETE
  (`CompleteWasMet`, `ReadComplete`); `SeenInv` has that a step that was met COMPLETE
  is so still or was restarted, as only a command takes a step from COMPLETE
  (`ReopenedByCommand`), and a thread that serves a command does not read while
  another command restarts (commands come one at a time in the model).

**UninstallProofs**
- `TypeCorrect`. `TypeOK` is inductive.
- `FrameworkLives`: from `LifeInv`, which says of each point of the process what is
  known of `frameworkId` and `frameworks`. It rests on the order of
  `DeregisterStep`: the id is cleared before the driver is stopped.
- `LeaksAreTornRecords`: `ReservationInv` has that every reserved resource is the
  subject of an open step, untombstoned in a stored TaskInfo, in the batch that
  is being recorded, or leaked.
- `CompletionIsReal`: from `CompletionInv`.

**PersistenceProofs**, all from `StorageInv` (`TypeOK`, `Coherent`, `PartWay`,
`AtLabel`, `DeletedUnheard`):
- `Coherent` says that ZooKeeper and a loaded cache agree outside `doubt` and the
  paths of the call in hand. `PartWay` and `AtLabel` say what a call can have done at
  each of its labels, `DeletedUnheard` when a node that is gone was gone before.
- `StorageImplemented`: `Spec => ImplementsStorage`; the steps that return,
  throw, crash and load are steps of Storage, every request is a stutter.
- `ManyAtOnceHolds` and `TypeCorrect` follow from the invariant.

**BootstrapProofs**, from `BootstrapInv`: `ProgressInv` says what has been waited
for at each step of `main`. `ReadyWhenStarted`, `TimerReadOnce`, `TypeCorrect`.

**Model-checked only.** Liveness and everything else that needs fairness or
ENABLED is outside the prover's reach (`OffersAnswered`, `OffersProcessed`,
`KnownTaskReconciled`, `HeardOrphanKilled`, `DeathRecorded`, `StepSettles`,
`PlansSettle`, `UninstallFinishes`, `CallsReturn`, `TimeoutEnds`), as is induction
over data (there is no recursive definition here). Every invariant and every action
property of the passing runs is a theorem.

## 6. Plan

What could follow, most important first:

1. **Decommission**, by the steps of Uninstall for removed pods, with
   `killUnneededTasks`; ConfigUpdate with pods that an update removes.
2. **Revive** with the token bucket: work that appears leads to offers.
3. The composition of ConfigUpdate with Plans: a rollout completes under fairness.
4. Larger instances of Plans: two phases, and a second command.

## 7. Limits of the model

- A persister write is atomic in all modules but Persistence, and one that
  throws was not applied; Storage says what else can happen. The data of nodes
  that are only parents is abstracted.
- Each task has a resource set of its own: a launch in a shared set rewrites
  the records of the others.
- `Steps` has tasks with the goal RUNNING and a readiness check, all launched
  together; it has one step of the pod, which a recovery step replaces.
- `Plans` has pods of one task and no elements with errors; besides deploy and
  recovery no plan is there (decommission, sidecar plans). The candidates of one
  phase, and the dirty assets of all plans, are one read. A status that is torn is
  over-approximated: its tests meet the statuses in any order. The restart of
  several steps is one action, and the commands of operators do not overlap. The
  recovery plan can be paused and resumed, not restarted or completed. Neither the
  failure monitor's clock nor the launch constrainer holds a recovery step back.
- `ConfigUpdate`: no pod is removed by an update, no plan is interrupted, and
  choosing a candidate and working on it is one step; launches and statuses are
  one step (TaskRecords splits them); of the validators only the one on
  shrinking is there; the user that `fixServiceSpecUser` fills in is left out.
- `Uninstall`: plan commands on its plan and a failing TLS client are left out.
- Resource matching is arbitrary: an offer fits or not.
- `Bootstrap`: what a template renders to, and the certificate, are left out.

### Not modelled

Decommission (it needs pods that an update removes), the resource cleaner (a
function of records and one offer), revival and suppression (offers may come at any
time in every module), `CuratorLocker`, specification parsing and templates
(immutable data), endpoints and artifacts (formatting), the custom executor, the
command line interface (`cli/`, a stateless HTTP client), test tools and the
example frameworks.

The repository vendors some 50,000 lines of third-party Go (`govendor/`, and
`vendor/` of a framework): YAML, TOML and netlink libraries, test assertions. They
are no part of this system's logic and are not modelled. Of its own, about
3,000 lines are Go, mostly the command line interface; the program among them
that has states and time, the bootstrap, is modelled. The system itself is written
in Java, and the map's lines are mostly there.
