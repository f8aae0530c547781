------------------------------- MODULE Plans -------------------------------
(***************************************************************************)
(* The plans: the deploy plan, a tree of phases and steps whose strategies  *)
(* say which step may go next, the recovery plan, one step for each pod     *)
(* with a failed task, the coordinator that gives the offer thread its      *)
(* candidates, and the operator's plan commands ("dcos <service> plan ...", *)
(* PlansResource), which change the tree under the offer thread.            *)
(*                                                                         *)
(* A step works on one pod of one task.  What happens inside a step is in   *)
(* module Steps: here the offer thread launches it or prepares it in one    *)
(* action.  The steps have no configuration errors.                         *)
(*                                                                         *)
(* No lock covers the status of a phase or of the plan.  A read begins, the *)
(* steps may move, and it ends: it shows what the cases of getStatus can    *)
(* make of the statuses that the steps had in between.                      *)
(***************************************************************************)
EXTENDS ElementStatus, Naturals, FiniteSets, SequencesExt

CONSTANTS Phases,      \* the phases of the deploy plan, a sequence
          StepsOf,     \* StepsOf[p]: the steps of phase p, a sequence
          Strategy,    \* Strategy[e]: of each phase, and of "deploy"
          PodOf,       \* PodOf[s]: the pod instance that step s works on
          Proceeds,    \* requiredProceeds of a canary strategy
          None,
          MaxCommands, \* bound: operator commands
          MaxFailures  \* bound: tasks that fail

AllPhases == ToSet(Phases)
Kids(p) == ToSet(StepsOf[p])
Steps == UNION {Kids(p) : p \in AllPhases}
Pods == {PodOf[s] : s \in Steps}
Parents == AllPhases \cup {"deploy"}
Children(e) == IF e = "deploy" THEN Phases ELSE StepsOf[e]

StrategyNames == {"serial", "parallel", "serial-canary", "parallel-canary"}

ASSUME PlansAssumption ==
    /\ \A e \in Parents : Strategy[e] \in StrategyNames
    /\ Strategy["deploy"] \in {"serial", "parallel"}
    /\ {Proceeds, MaxCommands, MaxFailures} \subseteq Nat
    /\ \A e \in Parents :
          /\ Children(e) \in Seq(ToSet(Children(e)))
          /\ \A i, j \in DOMAIN Children(e) : Children(e)[i] = Children(e)[j] => i = j
    /\ \A p, q \in AllPhases : p # q => Kids(p) \cap Kids(q) = {}
    /\ AllPhases \cap Steps = {}
    /\ Pods \cap Steps = {}
    /\ {"deploy", "recovery"} \cap (AllPhases \cup Steps \cup Pods) = {}
    /\ None \notin Steps \cup Pods \cup StepStatuses
    /\ \A e \in Parents \cup Steps : None # [do |-> "proceed", element |-> e]

VARIABLES
    status,       \* status[s]: of a deploy step, as its tasks say
    interrupted,  \* steps with the interrupted bit
    canary,       \* the canary steps that the strategies chose when created
    first,        \* first[e]: what its helper found incomplete when made, or None
    halted,       \* parents, and "recovery", whose strategy is interrupted
    recovery,     \* recovery[pod]: status of its recovery step, or None
    task,         \* task[pod]: whose launch is its last one, and its state
    permanent,    \* pods whose recovery step has the type PERMANENT
    needy,        \* pods whose recorded status needs recovery
    marked,       \* pods whose TaskInfo is labelled permanently failed
    heard,        \* driver thread: the pod whose status the plans will get
    cycle,        \* offer thread: where it is, dirty assets, candidates
    http,         \* HTTP thread: what is left of its command, or None
    seen,         \* statuses of each step since a thread began to read them
    counts        \* commands and failures so far, against the bounds

operatorVars == <<http, counts>>
podVars == <<permanent, needy, marked>>
vars == <<status, interrupted, canary, first, halted, recovery, task, podVars, heard, cycle, seen, operatorVars>>

-----------------------------------------------------------------------------
(* 1. The status of the elements and the strategies                         *)

(* AbstractStep.getStatus                                                   *)
Status(s) == IF s \in interrupted /\ status[s] \in {"PENDING", "PREPARED"} THEN "WAITING" ELSE status[s]

(* Mutant of IsRunning: a PREPARED step is not seen as running.             *)
IsRunningLaunched(st) == st \in {"STARTING", "STARTED", "IN_PROGRESS"}

IsRunning(st) == st \in {"PREPARED", "STARTING", "STARTED", "IN_PROGRESS"}

IsAssetDirty(st) == st \in {"PREPARED", "STARTING"}

Complete(e) == IF e \in AllPhases THEN \A s \in Kids(e) : status[s] = "COMPLETE" ELSE status[e] = "COMPLETE"

Canaries(p) == canary \cap Kids(p)

(* getNextCanaryStep, getNextProceedStep                                    *)
InCanary(p) == Canaries(p) \cap interrupted # {}

Proceeding(p) == \E s \in Canaries(p) : s \notin interrupted /\ status[s] # "COMPLETE"

(* isInterrupted of a parent is its strategy's; only a canary strategy has  *)
(* canary steps.                                                            *)
IsInterrupted(e) ==
    \/ e \in AllPhases /\ InCanary(e) /\ ~Proceeding(e)
    \/ e \in halted

(* What the helper of a strategy found incomplete, or would find now.       *)
Known(e) == IF first[e] = None THEN {c \in ToSet(Children(e)) : ~Complete(c)} ELSE first[e]

(* The helpers that a call of getCandidates for the elements es makes: a    *)
(* canary strategy does not ask the one behind it while in canary.          *)
Made(es) ==
    [e \in Parents |-> IF e \in es /\ ~(e \in AllPhases /\ InCanary(e)) THEN Known(e) ELSE first[e]]

(* The status of a parent reaches the strategies of its children.           *)
Under(e) == IF e = "deploy" THEN Parents ELSE {e}

(* The helper of a serial strategy: an element that was not COMPLETE then   *)
(* depends on the one before it of those that were not.  Those in done are  *)
(* read as COMPLETE.                                                        *)
ReadyAfter(e, c, done) ==
    Strategy[e] \in {"serial", "serial-canary"} /\ c \in Known(e) =>
        LET kids == Children(e) IN
        \A i \in DOMAIN kids : \A j \in 1..i - 1 :
            (/\ kids[i] = c
             /\ kids[j] \in Known(e)
             /\ \A k \in j + 1..i - 1 : kids[k] \notin Known(e)) => Complete(kids[j]) \/ kids[j] \in done

Ready(e, c) == ReadyAfter(e, c, {})

(* CanaryStrategy.getCandidates, SerialStrategy, ParallelStrategy, with     *)
(* Step.isEligible.                                                         *)
StepCandidates(p, dirty) ==
    LET eligible == {s \in Kids(p) : status[s] # "COMPLETE" /\ s \notin interrupted /\ PodOf[s] \notin dirty} IN
    IF InCanary(p) THEN eligible \cap canary
    ELSE IF p \in halted THEN {}
    ELSE {s \in eligible : Ready(p, s)}

(* The statuses that the tree shows while nothing moves.                    *)
PhaseStatus(p) ==
    ParentStatus({Status(s) : s \in Kids(p)}, {Status(s) : s \in StepCandidates(p, {})}, IsInterrupted(p))

(* The strategy of the deploy plan, with ParentElement.isEligible.  Phases  *)
(* in lost are read as COMPLETE or ERROR, those in done as COMPLETE.        *)
PhasesRead(lost, done) ==
    IF "deploy" \in halted THEN {}
    ELSE {p \in AllPhases \ lost : /\ PhaseStatus(p) \notin {"COMPLETE", "ERROR"}
                                   /\ ~IsInterrupted(p)
                                   /\ ReadyAfter("deploy", p, done)}

PhaseCandidates == PhasesRead({}, {})

PlanStatus ==
    ParentStatus({PhaseStatus(p) : p \in AllPhases}, {PhaseStatus(p) : p \in PhaseCandidates},
                 IsInterrupted("deploy"))

(* What a thread that has seen the statuses sn may read an element as.  Its *)
(* candidates and its interrupted bit are read at any time, too.            *)
StepsRead(sn, p) == \A s \in Kids(p) : sn[s] = {Status(s)}

PhaseReadings(sn, p) ==
    IF StepsRead(sn, p) THEN {PhaseStatus(p)}
    ELSE LET kids == [s \in Kids(p) |-> sn[s]] IN
         UNION {StatusesRead(kids, cands, bit) :
                cands \in SUBSET {s \in Kids(p) : kids[s] # {"COMPLETE"}}, bit \in BOOLEAN}

PlanReadings(sn) ==
    IF \A p \in AllPhases : StepsRead(sn, p) THEN {PlanStatus}
    ELSE LET kids == [p \in AllPhases |-> PhaseReadings(sn, p)] IN
         UNION {StatusesRead(kids, cands, bit) :
                cands \in SUBSET {p \in AllPhases : kids[p] # {"COMPLETE"}}, bit \in BOOLEAN}

Readings(sn, e) == IF e = "deploy" THEN PlanReadings(sn) ELSE PhaseReadings(sn, e)

(* Plan.getCandidates                                                       *)
PlanCandidates(phases, dirty) == UNION {StepCandidates(p, dirty) : p \in phases}

-----------------------------------------------------------------------------
(* 2. The offer thread: getCandidates and resourceOffers                    *)

(* What the two threads that read statuses can have seen of each step, and  *)
(* the steps that a command took from COMPLETE meanwhile (every command     *)
(* changes http with it).  Part of every action.                            *)
Looking(h) == h # None /\ h.do \in {"interrupt", "continue", "start"}

Watch ==
    LET Add(reads, old) == [s \in Steps |-> IF reads THEN old[s] \cup {Status(s)'} ELSE {}]
        reads == cycle'.at = "candidates" IN
    seen' = [offers |-> Add(reads, seen.offers),
             http |-> Add(Looking(http'), seen.http),
             reopened |-> {s \in Steps : /\ reads
                                         /\ \/ s \in seen.reopened
                                            \/ http' # http /\ status[s] = "COMPLETE" /\ status'[s] # "COMPLETE"}]

NoCycle == [at |-> "idle", dirty |-> {}, relevant |-> {}, steps |-> {}]

(* The assets that the steps of a plan are working on, and those of them    *)
(* that matter to a plan: its own running steps are left out.               *)
DeployDirty == {PodOf[s] : s \in {u \in Steps : IsAssetDirty(Status(u))}}
RecoveryDirty == {pod \in Pods : recovery[pod] # None /\ IsAssetDirty(recovery[pod])}
DeployRunning == {PodOf[s] : s \in {u \in Steps : IsRunning(Status(u))}}
RecoveryRunning == {pod \in Pods : recovery[pod] # None /\ IsRunning(recovery[pod])}

(* The dirty assets of the plans that are not interrupted.                  *)
CollectDirty ==
    /\ cycle.at = "idle"
    /\ cycle' = [NoCycle EXCEPT !.at = "deploy",
                 !.dirty = (IF IsInterrupted("deploy") THEN {} ELSE DeployDirty)
                           \cup (IF "recovery" \in halted THEN {} ELSE RecoveryDirty)]
    /\ UNCHANGED <<status, interrupted, canary, first, halted, recovery, task, podVars, heard, operatorVars>>
    /\ Watch

(* Mutant of DeployRelevant: what its steps do not work on is dirty.        *)
DeployRelevantNotRunning ==
    /\ cycle.at = "deploy"
    /\ cycle' = IF IsInterrupted("deploy") THEN [cycle EXCEPT !.at = "recovery"]
                ELSE [cycle EXCEPT !.at = "candidates", !.relevant = Pods \ DeployRunning]
    /\ UNCHANGED <<status, interrupted, canary, first, halted, recovery, task, podVars, heard, operatorVars>>
    /\ Watch

(* getRelevantDirtyAssets for the deploy plan, unless it is interrupted.    *)
DeployRelevant ==
    /\ cycle.at = "deploy"
    /\ cycle' = IF IsInterrupted("deploy") THEN [cycle EXCEPT !.at = "recovery"]
                ELSE [cycle EXCEPT !.at = "candidates", !.relevant = cycle.dirty \ DeployRunning]
    /\ UNCHANGED <<status, interrupted, canary, first, halted, recovery, task, podVars, heard, operatorVars>>
    /\ Watch

(* An interrupted strategy asks no phase, but makes its helper first.       *)
MadeByCandidates == IF "deploy" \in halted /\ first["deploy"] # None THEN first ELSE Made(Parents)

(* Phases that getCandidates may have read as one of these.                 *)
ReadAs(statuses) == {p \in AllPhases : PhaseReadings(seen.offers, p) \cap statuses # {}}

(* Mutant of DeployCandidates: its candidates are not dirty for recovery.   *)
DeployCandidatesNotDirty ==
    /\ cycle.at = "candidates"
    /\ \E lost \in SUBSET ReadAs({"COMPLETE", "ERROR"}) : \E done \in SUBSET ReadAs({"COMPLETE"}) :
          LET steps == PlanCandidates(PhasesRead(lost, done), cycle.relevant) IN
          cycle' = [cycle EXCEPT !.at = "recovery", !.relevant = {}, !.steps = steps]
    /\ first' = MadeByCandidates
    /\ UNCHANGED <<status, interrupted, canary, halted, recovery, task, podVars, heard, operatorVars>>
    /\ Watch

DeployCandidates ==
    /\ cycle.at = "candidates"
    /\ \E lost \in SUBSET ReadAs({"COMPLETE", "ERROR"}) : \E done \in SUBSET ReadAs({"COMPLETE"}) :
          LET steps == PlanCandidates(PhasesRead(lost, done), cycle.relevant) IN
          cycle' = [at |-> "recovery", relevant |-> {}, steps |-> steps,
                    dirty |-> cycle.dirty \cup {PodOf[s] : s \in steps}]
    /\ first' = MadeByCandidates
    /\ UNCHANGED <<status, interrupted, canary, halted, recovery, task, podVars, heard, operatorVars>>
    /\ Watch

(* The same for the recovery plan.  This is outside its lock: the driver's  *)
(* thread may move the recovery steps before they are looked at again.      *)
RecoveryRelevant ==
    /\ cycle.at = "recovery"
    /\ cycle' = IF "recovery" \in halted THEN [cycle EXCEPT !.at = "process", !.dirty = {}, !.relevant = {}]
                ELSE [cycle EXCEPT !.at = "update", !.relevant = cycle.dirty \ RecoveryRunning]
    /\ UNCHANGED <<status, interrupted, canary, first, halted, recovery, task, podVars, heard, operatorVars>>
    /\ Watch

(* The tasks of steps cs are cleared: a status under way is unknown to them.*)
Forget(cs) == heard' = IF heard # None /\ heard.owner \in cs THEN [heard EXCEPT !.owner = None] ELSE heard

(* Recovery steps that are not complete and still have the type that their  *)
(* pods' TaskInfos call for (failureStateHasChanged).                       *)
InProgress == {pod \in Pods : recovery[pod] \notin {None, "COMPLETE"} /\ (pod \in permanent <=> pod \in marked)}

(* Under the lock of the recovery plan: a pod that needs recovery, is not   *)
(* dirty and has no recovery in progress gets a new step, which knows of no *)
(* task.  The plan is a new one, with a strategy that is not interrupted.   *)
(* As a candidate, a recovery step is named by its pod.                     *)
RecoveryCandidates ==
    /\ cycle.at = "update"
    /\ LET new == (needy \cup marked) \ (cycle.relevant \cup InProgress) IN
       /\ recovery' = [pod \in Pods |-> IF pod \in new THEN "PENDING" ELSE recovery[pod]]
       /\ permanent' = (permanent \ new) \cup (new \cap marked)
       /\ halted' = halted \ {"recovery"}
       /\ cycle' = [at |-> "process", dirty |-> {}, relevant |-> {}, steps |-> cycle.steps \cup
                       {pod \in Pods \ cycle.relevant : recovery'[pod] \notin {None, "COMPLETE"}}]
       /\ task' = [pod \in Pods |->
                      IF pod \in new /\ task[pod].owner = pod THEN [task[pod] EXCEPT !.owner = None] ELSE task[pod]]
       /\ Forget(new)
    /\ UNCHANGED <<status, interrupted, canary, first, needy, marked, operatorVars>>
    /\ Watch

Living == {"STAGING", "RUNNING", "READY"}

StatusOf(c) == IF c \in Steps THEN Status(c) ELSE recovery[c]

Asset(c) == IF c \in Steps THEN PodOf[c] ELSE c

SetStatus(c, st) ==
    IF c \in Steps THEN status' = [status EXCEPT ![c] = st] /\ UNCHANGED recovery
    ELSE recovery' = [recovery EXCEPT ![c] = st] /\ UNCHANGED status

Processed(c) == cycle' = [cycle EXCEPT !.steps = @ \ {c}]

(* A candidate that is neither PENDING nor PREPARED by now is left alone.   *)
ProcessIgnored(c) ==
    /\ cycle.at = "process"
    /\ c \in cycle.steps
    /\ StatusOf(c) \notin {"PENDING", "PREPARED"}
    /\ Processed(c)
    /\ UNCHANGED <<status, interrupted, canary, first, halted, recovery, task, podVars, heard, operatorVars>>
    /\ Watch

(* No offer fits: the pod's task has been killed, and the step is PREPARED. *)
(* The start of a PERMANENT recovery step labels the pod's TaskInfo.        *)
ProcessPrepare(c) ==
    /\ cycle.at = "process"
    /\ c \in cycle.steps
    /\ StatusOf(c) \in {"PENDING", "PREPARED"}
    /\ SetStatus(c, "PREPARED")
    /\ task' = [task EXCEPT ![Asset(c)] =
                   [owner |-> IF @.owner = c THEN None ELSE @.owner,
                    state |-> IF @.state \in Living THEN "KILLED" ELSE @.state]]
    /\ marked' = marked \cup (permanent \cap {c})
    /\ Forget({c})
    /\ Processed(c)
    /\ UNCHANGED <<interrupted, canary, first, halted, permanent, needy, operatorVars>>
    /\ Watch

(* An offer fits.  The launch replaces the pod's task and its records, so   *)
(* that a status of the old one is no longer known to any step, its label   *)
(* is gone, and a kill that "pod replace" still has to send is for nothing. *)
ProcessLaunch(c) ==
    /\ cycle.at = "process"
    /\ c \in cycle.steps
    /\ StatusOf(c) \in {"PENDING", "PREPARED"}
    /\ SetStatus(c, "STARTING")
    /\ task' = [task EXCEPT ![Asset(c)] = [owner |-> c, state |-> "STAGING"]]
    /\ needy' = needy \ {Asset(c)}
    /\ marked' = marked \ {Asset(c)}
    /\ http' = IF http = [do |-> "kill", element |-> Asset(c)] THEN None ELSE http
    /\ Forget({c})
    /\ Processed(c)
    /\ UNCHANGED <<interrupted, canary, first, halted, permanent, counts>>
    /\ Watch

CycleEnds ==
    /\ cycle.at = "process"
    /\ cycle.steps = {}
    /\ cycle' = NoCycle
    /\ UNCHANGED <<status, interrupted, canary, first, halted, recovery, task, podVars, heard, operatorVars>>
    /\ Watch

-----------------------------------------------------------------------------
(* 3. Mesos and the driver's thread                                         *)

(* The task goes on and the driver's thread records its status ...          *)
TaskRuns(pod) ==
    /\ heard = None
    /\ \/ task[pod].state = "STAGING" /\ task' = [task EXCEPT ![pod].state = "RUNNING"]
       \/ task[pod].state = "RUNNING" /\ task' = [task EXCEPT ![pod].state = "READY"]
    /\ heard' = [pod |-> pod, owner |-> task[pod].owner, state |-> task'[pod].state]
    /\ UNCHANGED <<status, interrupted, canary, first, halted, recovery, podVars, cycle, operatorVars>>
    /\ Watch

TaskEnds(pod) ==
    /\ task' = [task EXCEPT ![pod].state = "DEAD"]
    /\ needy' = needy \cup {pod}
    /\ heard' = [pod |-> pod, owner |-> task[pod].owner, state |-> "DEAD"]
    /\ UNCHANGED <<status, interrupted, canary, first, halted, recovery, permanent, marked, cycle, http>>
    /\ Watch

TaskFails(pod) ==
    /\ heard = None
    /\ task[pod].state \in Living
    /\ counts.failures < MaxFailures
    /\ counts' = [counts EXCEPT !.failures = @ + 1]
    /\ TaskEnds(pod)

KillArrives(pod) ==
    /\ heard = None
    /\ task[pod].state = "KILLED"
    /\ TaskEnds(pod)
    /\ UNCHANGED counts

StatusFor(state) ==
    CASE state = "RUNNING" -> "STARTED" [] state = "READY" -> "COMPLETE" [] state = "DEAD" -> "PENDING"

(* Mutant of PlansUpdate: a COMPLETE step takes the status, too.            *)
PlansUpdateReopens ==
    /\ heard # None
    /\ heard' = None
    /\ LET c == heard.owner IN
       IF c # None THEN SetStatus(c, StatusFor(heard.state)) ELSE UNCHANGED <<status, recovery>>
    /\ UNCHANGED <<interrupted, canary, first, halted, task, podVars, cycle, operatorVars>>
    /\ Watch

(* ... and then gives it to the plans: the step that waits for this task    *)
(* takes it, unless it is COMPLETE.                                         *)
PlansUpdate ==
    /\ heard # None
    /\ heard' = None
    /\ LET c == heard.owner IN
       IF c # None /\ StatusOf(c) # "COMPLETE"
       THEN SetStatus(c, StatusFor(heard.state))
       ELSE UNCHANGED <<status, recovery>>
    /\ UNCHANGED <<interrupted, canary, first, halted, task, podVars, cycle, operatorVars>>
    /\ Watch

-----------------------------------------------------------------------------
(* 4. The operator: PlansResource                                           *)

Command ==
    /\ http = None
    /\ counts.commands < MaxCommands
    /\ counts' = [counts EXCEPT !.commands = @ + 1]

(* interrupt() of a parent: a canary strategy ignores it while in canary.   *)
HaltedBy(e) == IF e \in AllPhases /\ InCanary(e) THEN halted ELSE halted \cup {e}

(* The first canary step, in order, that is still interrupted.              *)
NextCanary(p) == SelectSeq(StepsOf[p], LAMBDA s : s \in canary \cap interrupted)[1]

(* proceed() of a parent.                                                   *)
Proceed(e) ==
    IF e \in AllPhases /\ InCanary(e)
    THEN interrupted' = interrupted \ {NextCanary(e)} /\ UNCHANGED halted
    ELSE halted' = halted \ {e} /\ UNCHANGED interrupted

(* "plan pause" and "plan resume" of the deploy plan or a phase look at its *)
(* status first: see Answer.                                                *)
Interrupt(e) ==
    /\ Command
    /\ http' = [do |-> "interrupt", element |-> e]
    /\ UNCHANGED <<status, interrupted, canary, first, halted, recovery, task, podVars, heard, cycle>>
    /\ Watch

Continue(e) ==
    /\ Command
    /\ http' = [do |-> "continue", element |-> e]
    /\ UNCHANGED <<status, interrupted, canary, first, halted, recovery, task, podVars, heard, cycle>>
    /\ Watch

(* The same for the recovery plan, which is also COMPLETE when it is empty. *)
(* A plan that is replaced between check and change is changed for nothing. *)
ToggleRecovery ==
    /\ Command
    /\ \E pod \in Pods : recovery[pod] \notin {None, "COMPLETE"}
    /\ halted' = IF "recovery" \in halted THEN halted \ {"recovery"} ELSE halted \cup {"recovery"}
    /\ UNCHANGED <<status, interrupted, canary, first, recovery, task, podVars, heard, cycle, http>>
    /\ Watch

Below(e) == IF e = "deploy" THEN Steps ELSE IF e \in AllPhases THEN Kids(e) ELSE {e}

RestartSteps(e) == status' = [s \in Steps |-> IF s \in Below(e) THEN "PENDING" ELSE status[s]]

(* "plan restart" of the deploy plan, a phase or a step restarts the steps  *)
(* and then lets it proceed.                                                *)
Restart(e) ==
    /\ Command
    /\ RestartSteps(e)
    /\ http' = [do |-> "proceed", element |-> e]
    /\ UNCHANGED <<interrupted, canary, first, halted, recovery, task, podVars, heard, cycle>>
    /\ Watch

(* "plan start": a complete plan is restarted, then it proceeds.            *)
Start ==
    /\ Command
    /\ http' = [do |-> "start", element |-> "deploy"]
    /\ UNCHANGED <<status, interrupted, canary, first, halted, recovery, task, podVars, heard, cycle>>
    /\ Watch

(* "plan stop" interrupts the plan and then restarts it.                    *)
Stop ==
    /\ Command
    /\ halted' = halted \cup {"deploy"}
    /\ http' = [do |-> "restart", element |-> "deploy"]
    /\ UNCHANGED <<status, interrupted, canary, first, recovery, task, podVars, heard, cycle>>
    /\ Watch

(* "plan force-complete" of a step.                                         *)
ForceComplete(s) ==
    /\ Command
    /\ Status(s) # "COMPLETE"
    /\ status' = [status EXCEPT ![s] = "COMPLETE"]
    /\ UNCHANGED <<interrupted, canary, first, halted, recovery, task, podVars, heard, cycle, http>>
    /\ Watch

(* "pod replace" labels the pod's TaskInfo and then kills the task.         *)
Replace(pod) ==
    /\ Command
    /\ task[pod].state # "NONE"
    /\ marked' = marked \cup {pod}
    /\ http' = [do |-> "kill", element |-> pod]
    /\ UNCHANGED <<status, interrupted, canary, first, halted, recovery, task, permanent, needy, heard, cycle>>
    /\ Watch

(* 208 for an interrupt of what is interrupted or complete, for a continue  *)
(* of what is running or complete.                                          *)
Answer ==
    /\ Looking(http)
    /\ \E st \in Readings(seen.http, http.element) :
          CASE http.do = "interrupt" ->
                   /\ halted' = IF IsInterrupted(http.element) \/ st = "COMPLETE" THEN halted
                                ELSE HaltedBy(http.element)
                   /\ http' = None
                   /\ UNCHANGED <<status, interrupted>>
            [] http.do = "continue" ->
                   /\ IF IsRunning(st) \/ st = "COMPLETE" THEN UNCHANGED <<interrupted, halted>>
                      ELSE Proceed(http.element)
                   /\ http' = None
                   /\ UNCHANGED status
            [] http.do = "start" ->
                   /\ IF st = "COMPLETE" THEN RestartSteps("deploy") ELSE UNCHANGED status
                   /\ http' = [do |-> "proceed", element |-> "deploy"]
                   /\ UNCHANGED <<interrupted, halted>>
    /\ first' = Made(Under(http.element))
    /\ UNCHANGED <<canary, recovery, task, podVars, heard, cycle, counts>>
    /\ Watch

SecondHalf ==
    /\ http # None /\ ~Looking(http)
    /\ http' = None
    /\ CASE http.do = "restart" -> RestartSteps(http.element) /\ UNCHANGED <<interrupted, halted, task>>
         [] http.do = "kill" ->
                /\ task' = [task EXCEPT ![http.element].state = IF @ \in Living THEN "KILLED" ELSE @]
                /\ UNCHANGED <<status, interrupted, halted>>
         [] http.do = "proceed" ->
                /\ IF http.element \in Steps
                   THEN interrupted' = interrupted \ {http.element} /\ UNCHANGED halted
                   ELSE Proceed(http.element)
                /\ UNCHANGED <<status, task>>
    /\ UNCHANGED <<canary, first, recovery, podVars, heard, cycle, counts>>
    /\ Watch

-----------------------------------------------------------------------------
(* interruptCanarySteps: the first steps that are still PENDING.            *)
ChosenCanaries(done) ==
    UNION {LET steps == StepsOf[p] IN
           {steps[i] : i \in {j \in DOMAIN steps :
                /\ steps[j] \notin done
                /\ Cardinality({k \in 1..j : steps[k] \notin done}) <= Proceeds}}
           : p \in {q \in AllPhases : Strategy[q] \in {"serial-canary", "parallel-canary"}}}

(* A new process: steps whose pod is at its goal are COMPLETE, and of the   *)
(* others some pods run from an older configuration.                        *)
Init ==
    /\ \E done, old \in SUBSET Steps :
          /\ done \cap old = {}
          /\ status = [s \in Steps |-> IF s \in done THEN "COMPLETE" ELSE "PENDING"]
          /\ canary = ChosenCanaries(done)
          /\ task = [pod \in Pods |-> [owner |-> None, state |->
                        IF \E s \in done \cup old : PodOf[s] = pod THEN "READY" ELSE "NONE"]]
    /\ interrupted = canary
    /\ first = [e \in Parents |-> None]
    /\ halted = {}
    /\ recovery = [pod \in Pods |-> None]
    /\ permanent = {} /\ needy = {} /\ marked = {}
    /\ heard = None
    /\ cycle = NoCycle
    /\ http = None
    /\ seen = [offers |-> [s \in Steps |-> {}], http |-> [s \in Steps |-> {}], reopened |-> {}]
    /\ counts = [commands |-> 0, failures |-> 0]

OfferThread ==
    \/ CollectDirty \/ DeployRelevant \/ DeployCandidates \/ RecoveryRelevant \/ RecoveryCandidates
    \/ \E c \in Steps \cup Pods : ProcessIgnored(c) \/ ProcessPrepare(c) \/ ProcessLaunch(c)
    \/ CycleEnds

Operator ==
    \/ \E e \in Parents : Interrupt(e) \/ Continue(e)
    \/ ToggleRecovery
    \/ \E e \in Parents \cup Steps : Restart(e)
    \/ Start \/ Stop \/ Answer \/ SecondHalf
    \/ \E s \in Steps : ForceComplete(s)
    \/ \E pod \in Pods : Replace(pod)

Next ==
    \/ OfferThread
    \/ \E pod \in Pods : TaskRuns(pod) \/ TaskFails(pod) \/ KillArrives(pod)
    \/ PlansUpdate
    \/ Operator

(* The threads run, launched tasks become ready, and no pod is refused by   *)
(* every offer forever.                                                     *)
Fairness ==
    /\ WF_vars(OfferThread)
    /\ \A pod \in Pods : SF_vars(\E c \in Steps \cup Pods : Asset(c) = pod /\ ProcessLaunch(c))
    /\ WF_vars(PlansUpdate)
    /\ \A pod \in Pods : SF_vars(TaskRuns(pod))
    /\ WF_vars((Answer \/ SecondHalf))

Spec == Init /\ [][Next]_vars

FairSpec == Spec /\ Fairness

-----------------------------------------------------------------------------
(* 5. Properties                                                            *)

TypeOK ==
    /\ status \in [Steps -> StepStatuses]
    /\ interrupted \subseteq canary
    /\ canary \subseteq Steps
    /\ \A e \in Parents : first[e] = None \/ first[e] \subseteq Steps \cup AllPhases
    /\ halted \subseteq Parents \cup {"recovery"}
    /\ recovery \in [Pods -> StepStatuses \cup {None}]
    /\ permanent \cup needy \cup marked \subseteq Pods
    /\ cycle.at \in {"idle", "deploy", "candidates", "recovery", "update", "process"}
    /\ cycle.at = "idle" => cycle = NoCycle
    /\ cycle.relevant \subseteq cycle.dirty /\ cycle.dirty \subseteq Pods
    /\ cycle.steps \subseteq Steps \cup Pods
    /\ {seen.offers, seen.http} \subseteq [Steps -> SUBSET (StepStatuses \cup {"WAITING"})]
    /\ seen.reopened \subseteq Steps

(* The cases of getStatus leave no state out: whatever commands, failures   *)
(* and the strategies' helpers have made of the steps, a plan or a phase is *)
(* not ERROR when it is read while nothing moves.  (A read during which a   *)
(* step moves can show ERROR: see StatusesRead.)                            *)
NoStateIsError == PlanStatus # "ERROR" /\ \A p \in AllPhases : PhaseStatus(p) # "ERROR"

(* A plan or phase that is read as COMPLETE is complete, whatever moved     *)
(* while it was read, unless a command restarted one of its steps then: the *)
(* phases behind it do not go on too early, and "plan start" does not       *)
(* restart a plan that is still at work.                                    *)
CompleteReadIsComplete ==
    \A e \in Parents :
        /\ cycle.at = "candidates" /\ "COMPLETE" \in Readings(seen.offers, e) /\ Below(e) \cap seen.reopened = {} =>
              \A s \in Below(e) : status[s] = "COMPLETE"
        /\ Looking(http) /\ "COMPLETE" \in Readings(seen.http, e) =>
              \A s \in Below(e) : status[s] = "COMPLETE"

(* Recovery never takes up a pod that the deploy plan is about to launch in *)
(* the same cycle, unless it had a step for that pod before.                *)
RecoveryYields ==
    [][ \A pod \in Pods :
          recovery[pod] = None /\ recovery'[pod] # None => \A s \in cycle.steps \cap Steps : PodOf[s] # pod ]_vars

(* Both plans work on the pod, or one of them waits for a task of the pod   *)
(* that the other one has replaced.                                         *)
Clash(pod) ==
    LET open == {c \in {s \in Steps : PodOf[s] = pod} \cup {pod} : StatusOf(c) \notin {None, "COMPLETE"}} IN
    \/ pod \in open /\ open # {pod}
    \/ \E c \in open : StatusOf(c) \in {"STARTING", "STARTED"} /\ task[pod].owner # c

(* A step of a paused phase was PREPARED: it keeps its pod from recovery.   *)
HeldBack(pod) ==
    \E p \in AllPhases : IsInterrupted(p) /\ \E s \in Kids(p) : PodOf[s] = pod /\ status[s] = "PREPARED"

(* Again and again, the deploy plan is COMPLETE, waits for the operator or  *)
(* clashes with the recovery plan, and every pod that needs recovery, or is *)
(* to be replaced, gets it, waits for the operator or is the object of a    *)
(* clash.                                                                   *)
PlansSettle ==
    /\ []<>(PlanStatus \in {"COMPLETE", "WAITING"} \/ \E pod \in Pods : Clash(pod))
    /\ \A pod \in Pods : []<>(pod \notin needy \cup marked \/ "recovery" \in halted \/ HeldBack(pod) \/ Clash(pod))
=============================================================================
