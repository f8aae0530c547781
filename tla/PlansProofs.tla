---------------------------- MODULE PlansProofs -----------------------------
(***************************************************************************)
(* Proofs about module Plans, for any phases and steps, any strategies, any *)
(* pods and any number of failures and operator commands.                   *)
(***************************************************************************)
EXTENDS Plans, WellFoundedInduction, SequenceTheorems, TLAPS

-----------------------------------------------------------------------------
(* 1. What the threads hold                                                 *)

Candidates == Steps \cup Pods

TaskTypes == [owner : Candidates \cup {None},
              state : {"NONE", "STAGING", "RUNNING", "READY", "KILLED", "DEAD"}]

Cycles == [at : {"idle", "deploy", "candidates", "recovery", "update", "process"},
           dirty : SUBSET Pods, relevant : SUBSET Pods, steps : SUBSET Candidates]

Heards == [pod : Pods, owner : Candidates \cup {None}, state : {"RUNNING", "READY", "DEAD"}]

Https == [do : {"interrupt", "continue", "start", "restart", "proceed", "kill"}, element : Parents \cup Candidates]

ThreadsInv ==
    /\ task \in [Pods -> TaskTypes]
    /\ cycle \in Cycles
    /\ heard = None \/ heard \in Heards
    /\ http = None \/ http \in Https
    /\ Looking(http) => http.element \in Parents

(* What waits for a task of its own is a step, or a recovery step that was  *)
(* made.                                                                    *)
OwnersInv ==
    /\ \A pod, c \in Pods : task[pod].owner = c => recovery[c] # None
    /\ heard # None => \A c \in Pods : heard.owner = c => recovery[c] # None

(* Until recovery makes its new steps, the candidates are of the deploy     *)
(* plan.  Their pods are dirty, and stay so for recovery but for those that *)
(* it has a step for.                                                       *)
CandidatesInv ==
    /\ cycle.at \in {"deploy", "candidates"} => cycle.steps = {}
    /\ cycle.at \in {"recovery", "update"} => cycle.steps \subseteq Steps
    /\ cycle.at = "recovery" => \A s \in cycle.steps : PodOf[s] \in cycle.dirty
    /\ cycle.at = "update" => \A s \in cycle.steps : PodOf[s] \in cycle.relevant \/ recovery[PodOf[s]] # None

PlansInv == TypeOK /\ ThreadsInv /\ OwnersInv /\ CandidatesInv

LEMMA Names ==
    /\ "deploy" \notin AllPhases \cup Candidates
    /\ "recovery" \notin Parents \cup Candidates
    /\ None \notin Candidates \cup StepStatuses
    /\ Steps \cap Pods = {} /\ AllPhases \cap Candidates \subseteq Pods
    /\ \A s \in Steps : PodOf[s] \in Pods
    /\ \A p \in AllPhases : Kids(p) \subseteq Steps
BY PlansAssumption DEF Candidates, Parents, Steps, Pods

(* interruptCanarySteps chooses among the steps.                            *)
LEMMA ChosenType == \A done : ChosenCanaries(done) \subseteq Steps
<1>1. \A p \in AllPhases : \A j \in DOMAIN StepsOf[p] : StepsOf[p][j] \in Steps
  BY DEF Steps, Kids, ToSet
<1>2. ASSUME NEW done, NEW s \in ChosenCanaries(done) PROVE s \in Steps
  <2>1. PICK p \in AllPhases : \E j \in DOMAIN StepsOf[p] : s = StepsOf[p][j]
    BY Zenon DEF ChosenCanaries
  <2> QED
    BY <1>1, <2>1
<1> QED
  BY <1>2

LEMMA InitPlansInv == Init => PlansInv
<1> SUFFICES ASSUME Init PROVE PlansInv
  OBVIOUS
<1>1. /\ status \in [Steps -> StepStatuses]
      /\ canary \subseteq Steps
      /\ task \in [Pods -> TaskTypes]
      /\ \A pod \in Pods : task[pod].owner = None
  BY ChosenType DEF Init, StepStatuses, TaskTypes
<1>2. cycle \in Cycles /\ cycle.at = "idle" /\ cycle = NoCycle /\ cycle.steps = {} /\ cycle.relevant = {}
  BY DEF Init, NoCycle, Cycles
<1>3. TypeOK
  BY <1>1, <1>2 DEF Init, TypeOK, Cycles
<1> QED
  BY <1>1, <1>2, <1>3, Names DEF Init, PlansInv, ThreadsInv, OwnersInv, CandidatesInv, Candidates, Looking

-----------------------------------------------------------------------------
(* 2. The offer thread                                                      *)

(* What is seen are statuses of steps.                                      *)
LEMMA WatchType ==
    TypeOK /\ Watch /\ status' \in [Steps -> StepStatuses] =>
        /\ {seen'.offers, seen'.http} \subseteq [Steps -> SUBSET (StepStatuses \cup {"WAITING"})]
        /\ seen'.reopened \subseteq Steps
<1> SUFFICES ASSUME TypeOK, Watch, status' \in [Steps -> StepStatuses]
             PROVE  /\ seen'.offers \in [Steps -> SUBSET (StepStatuses \cup {"WAITING"})]
                    /\ seen'.http \in [Steps -> SUBSET (StepStatuses \cup {"WAITING"})]
                    /\ seen'.reopened \subseteq Steps
  OBVIOUS
<1>1. \A s \in Steps : Status(s)' \in StepStatuses \cup {"WAITING"}
  BY DEF Status
<1>2. /\ seen.offers \in [Steps -> SUBSET (StepStatuses \cup {"WAITING"})]
      /\ seen.http \in [Steps -> SUBSET (StepStatuses \cup {"WAITING"})]
  BY DEF TypeOK
<1> QED
  BY <1>1, <1>2 DEF Watch

(* The candidates stay as they are while the coordinator does nothing: a    *)
(* recovery step is replaced, but never only removed.                       *)
LEMMA CandidatesKept ==
    ASSUME CandidatesInv, UNCHANGED cycle, \A pod \in Pods : recovery[pod] # None => recovery'[pod] # None
    PROVE  CandidatesInv'
BY Names DEF CandidatesInv

LEMMA StepCandidatesType == \A dirty : \A p \in AllPhases : StepCandidates(p, dirty) \subseteq Steps
BY Names DEF StepCandidates

LEMMA PlanCandidatesType == \A lost, done, dirty : PlanCandidates(PhasesRead(lost, done), dirty) \subseteq Steps
<1>1. \A lost, done : PhasesRead(lost, done) \subseteq AllPhases
  BY DEF PhasesRead
<1> QED
  BY <1>1, StepCandidatesType DEF PlanCandidates

(* The helpers know of children only.                                       *)
LEMMA MadeType ==
    ASSUME TypeOK, NEW es, NEW e \in Parents
    PROVE  Made(es)[e] = None \/ Made(es)[e] \subseteq Steps \cup AllPhases
<1>1. ToSet(Children(e)) \subseteq Steps \cup AllPhases
  BY Names DEF Children, Parents, Kids, AllPhases
<1>2. first[e] = None \/ first[e] \subseteq Steps \cup AllPhases
  BY DEF TypeOK
<1>3. Known(e) = None \/ Known(e) \subseteq Steps \cup AllPhases
  BY <1>1, <1>2 DEF Known
<1>4. Made(es)[e] \in {Known(e), first[e]}
  BY DEF Made
<1> QED
  BY <1>2, <1>3, <1>4

LEMMA CollectDirtyStep == PlansInv /\ CollectDirty => PlansInv'
<1> SUFFICES ASSUME PlansInv, CollectDirty PROVE PlansInv'
  OBVIOUS
<1>1. DeployDirty \subseteq Pods /\ RecoveryDirty \subseteq Pods
  BY Names DEF DeployDirty, RecoveryDirty
<1>2. cycle' \in Cycles /\ cycle'.at = "deploy" /\ cycle'.steps = {} /\ cycle'.relevant = {}
  BY <1>1 DEF CollectDirty, Cycles, NoCycle
<1> QED
  BY <1>2, WatchType
     DEF CollectDirty, PlansInv, TypeOK, ThreadsInv, OwnersInv, CandidatesInv, Cycles, podVars, operatorVars

LEMMA DeployRelevantStep == PlansInv /\ DeployRelevant => PlansInv'
<1> SUFFICES ASSUME PlansInv, DeployRelevant PROVE PlansInv'
  OBVIOUS
<1>1. cycle \in Cycles /\ cycle.at = "deploy" /\ cycle.steps = {} /\ cycle.relevant \subseteq cycle.dirty
  BY DEF DeployRelevant, PlansInv, TypeOK, ThreadsInv, CandidatesInv
<1>2. /\ cycle' \in Cycles /\ cycle'.at \in {"recovery", "candidates"} /\ cycle'.steps = {}
      /\ cycle'.relevant \subseteq cycle'.dirty
  BY <1>1 DEF DeployRelevant, Cycles
<1> QED
  BY <1>2, WatchType
     DEF DeployRelevant, PlansInv, TypeOK, ThreadsInv, OwnersInv, CandidatesInv, Cycles, podVars, operatorVars

LEMMA DeployCandidatesStep == PlansInv /\ DeployCandidates => PlansInv'
<1> SUFFICES ASSUME PlansInv, DeployCandidates PROVE PlansInv'
  OBVIOUS
<1>1. PICK lost, done :
          LET steps == PlanCandidates(PhasesRead(lost, done), cycle.relevant) IN
          cycle' = [at |-> "recovery", relevant |-> {}, steps |-> steps,
                    dirty |-> cycle.dirty \cup {PodOf[s] : s \in steps}]
  BY DEF DeployCandidates
<1>2. PICK steps \in SUBSET Steps :
          cycle' = [at |-> "recovery", relevant |-> {}, steps |-> steps,
                    dirty |-> cycle.dirty \cup {PodOf[s] : s \in steps}]
  BY <1>1, PlanCandidatesType
<1>3. cycle \in Cycles
  BY DEF PlansInv, ThreadsInv
<1>4. /\ cycle' \in Cycles /\ cycle'.at = "recovery" /\ cycle'.relevant = {}
      /\ cycle'.steps \subseteq Steps /\ \A s \in cycle'.steps : PodOf[s] \in cycle'.dirty
  BY <1>2, <1>3, Names DEF Cycles, Candidates
<1>5. \A e \in Parents : first'[e] = None \/ first'[e] \subseteq Steps \cup AllPhases
  BY MadeType DEF DeployCandidates, MadeByCandidates, PlansInv, TypeOK
<1> QED
  BY <1>4, <1>5, WatchType
     DEF DeployCandidates, PlansInv, TypeOK, ThreadsInv, OwnersInv, CandidatesInv, Cycles, Candidates,
         podVars, operatorVars

(* What recovery is working on is no longer dirty, and it has a step for it.*)
LEMMA RecoveryRelevantStep == PlansInv /\ RecoveryRelevant => PlansInv'
<1> SUFFICES ASSUME PlansInv, RecoveryRelevant PROVE PlansInv'
  OBVIOUS
<1>1. /\ cycle \in Cycles /\ cycle.at = "recovery" /\ cycle.relevant \subseteq cycle.dirty
      /\ cycle.steps \subseteq Steps /\ \A s \in cycle.steps : PodOf[s] \in cycle.dirty
  BY DEF RecoveryRelevant, PlansInv, TypeOK, ThreadsInv, CandidatesInv
<1>2. \/ cycle' = [cycle EXCEPT !.at = "process", !.dirty = {}, !.relevant = {}]
      \/ cycle' = [cycle EXCEPT !.at = "update", !.relevant = cycle.dirty \ RecoveryRunning]
  BY DEF RecoveryRelevant
<1>3. /\ cycle' \in Cycles /\ cycle'.at \in {"process", "update"}
      /\ cycle'.relevant \subseteq cycle'.dirty /\ cycle'.steps = cycle.steps
      /\ cycle'.at = "update" => cycle'.relevant = cycle.dirty \ RecoveryRunning
  BY <1>1, <1>2 DEF Cycles
<1>4. UNCHANGED <<status, interrupted, canary, first, halted, recovery, task, permanent, needy, marked, heard, http>>
  BY DEF RecoveryRelevant, podVars, operatorVars
<1>5. CandidatesInv'
  BY <1>1, <1>3, <1>4, Names DEF CandidatesInv, RecoveryRunning
<1> QED
  BY <1>3, <1>4, <1>5, WatchType DEF RecoveryRelevant, PlansInv, TypeOK, ThreadsInv, OwnersInv, Cycles, Candidates

(* What Forget leaves.                                                      *)
LEMMA ForgetType ==
    ASSUME ThreadsInv, NEW cs, Forget(cs)
    PROVE  /\ heard' = None \/ heard' \in Heards
           /\ heard' # None => heard # None /\ heard'.owner \in {heard.owner, None}
<1>1. CASE heard = None
  BY <1>1 DEF Forget
<1>2. CASE heard \in Heards
  BY <1>2 DEF Forget, Heards
<1> QED
  BY <1>1, <1>2 DEF ThreadsInv

LEMMA RecoveryCandidatesStep == PlansInv /\ RecoveryCandidates => PlansInv'
<1> SUFFICES ASSUME PlansInv, RecoveryCandidates PROVE PlansInv'
  OBVIOUS
<1> DEFINE new == (needy \cup marked) \ (cycle.relevant \cup InProgress)
<1>1. PICK fresh, pods \in SUBSET Pods :
          /\ recovery' = [pod \in Pods |-> IF pod \in fresh THEN "PENDING" ELSE recovery[pod]]
          /\ permanent' = (permanent \ fresh) \cup (fresh \cap marked)
          /\ halted' = halted \ {"recovery"}
          /\ cycle' = [at |-> "process", dirty |-> {}, relevant |-> {}, steps |-> cycle.steps \cup pods]
          /\ task' = [pod \in Pods |-> IF pod \in fresh /\ task[pod].owner = pod
                                       THEN [task[pod] EXCEPT !.owner = None] ELSE task[pod]]
          /\ Forget(fresh)
  <2> DEFINE mine == {pod \in Pods \ cycle.relevant : recovery'[pod] \notin {None, "COMPLETE"}}
  <2>1. new \in SUBSET Pods /\ mine \in SUBSET Pods
    BY DEF PlansInv, TypeOK
  <2>2. /\ recovery' = [pod \in Pods |-> IF pod \in new THEN "PENDING" ELSE recovery[pod]]
        /\ permanent' = (permanent \ new) \cup (new \cap marked)
        /\ halted' = halted \ {"recovery"}
        /\ cycle' = [at |-> "process", dirty |-> {}, relevant |-> {}, steps |-> cycle.steps \cup mine]
        /\ task' = [pod \in Pods |-> IF pod \in new /\ task[pod].owner = pod
                                     THEN [task[pod] EXCEPT !.owner = None] ELSE task[pod]]
        /\ Forget(new)
    BY Zenon DEF RecoveryCandidates
  <2> HIDE DEF new, mine
  <2> QED
    BY <2>1, <2>2
<1>2. UNCHANGED <<status, interrupted, canary, first, needy, marked, http>> /\ Watch
  BY DEF RecoveryCandidates, operatorVars
<1>3. cycle' \in Cycles /\ cycle'.at = "process" /\ cycle'.relevant = {}
  BY <1>1 DEF PlansInv, ThreadsInv, Cycles, Candidates
<1>4. /\ recovery' \in [Pods -> StepStatuses \cup {None}]
      /\ \A pod \in Pods : recovery[pod] # None => recovery'[pod] # None
  BY <1>1, Names DEF PlansInv, TypeOK, StepStatuses
<1>5. /\ heard' = None \/ heard' \in Heards
      /\ heard' # None => heard # None /\ heard'.owner \in {heard.owner, None}
  BY <1>1, ForgetType DEF PlansInv
<1>6. /\ task' \in [Pods -> TaskTypes]
      /\ \A pod \in Pods : task'[pod].owner \in {task[pod].owner, None}
  BY <1>1 DEF PlansInv, ThreadsInv, TaskTypes
<1>7. TypeOK'
  BY <1>1, <1>2, <1>3, <1>4, WatchType DEF PlansInv, TypeOK, Cycles, Candidates
<1>8. ThreadsInv'
  BY <1>2, <1>3, <1>5, <1>6 DEF PlansInv, ThreadsInv
<1>9. OwnersInv'
  BY <1>4, <1>5, <1>6, Names DEF PlansInv, OwnersInv, Candidates
<1>10. CandidatesInv'
  BY <1>3 DEF CandidatesInv
<1> QED
  BY <1>7, <1>8, <1>9, <1>10 DEF PlansInv

(* The status of a step, or of a recovery step, is set.                     *)
LEMMA SetStatusType ==
    ASSUME TypeOK, NEW c \in Candidates, NEW st \in StepStatuses, SetStatus(c, st)
    PROVE  /\ status' \in [Steps -> StepStatuses]
           /\ recovery' \in [Pods -> StepStatuses \cup {None}]
           /\ \A pod \in Pods : recovery[pod] # None => recovery'[pod] # None
           /\ c \in Pods => recovery'[c] # None
           /\ \A pod \in Pods : recovery'[pod] # recovery[pod] => pod = c /\ c \notin Steps /\ recovery'[pod] = st
<1>1. CASE c \in Steps
  BY <1>1, Names DEF SetStatus, TypeOK, Candidates
<1>2. CASE c \in Pods /\ c \notin Steps
  BY <1>2, Names DEF SetStatus, TypeOK, Candidates
<1> QED
  BY <1>1, <1>2 DEF Candidates

LEMMA AssetType == \A c \in Candidates : Asset(c) \in Pods
BY Names DEF Asset, Candidates

LEMMA ProcessedType ==
    ASSUME ThreadsInv, NEW c, Processed(c), cycle.at = "process"
    PROVE  cycle' \in Cycles /\ cycle'.at = "process"
BY DEF Processed, ThreadsInv, Cycles

LEMMA ProcessIgnoredStep == ASSUME NEW c \in Candidates, PlansInv, ProcessIgnored(c) PROVE PlansInv'
<1>1. cycle' \in Cycles /\ cycle'.at = "process" /\ cycle'.relevant \subseteq cycle'.dirty
  BY ProcessedType DEF ProcessIgnored, Processed, PlansInv, ThreadsInv, TypeOK, Cycles
<1> QED
  BY <1>1, WatchType
     DEF ProcessIgnored, PlansInv, TypeOK, ThreadsInv, OwnersInv, CandidatesInv, Cycles, Candidates,
         podVars, operatorVars

(* A candidate is worked on: it gets a status, its pod another task.        *)
LEMMA ProcessType ==
    ASSUME PlansInv, NEW c \in Candidates, NEW st \in StepStatuses, SetStatus(c, st),
           NEW new \in TaskTypes, task' = [task EXCEPT ![Asset(c)] = new],
           new.owner \in {None, c, task[Asset(c)].owner},
           needy' \subseteq needy, marked' \subseteq marked \cup permanent,
           http' = http \/ http' = None,
           Forget({c}), Processed(c), cycle.at = "process", Watch,
           UNCHANGED <<interrupted, canary, first, halted, permanent>>
    PROVE  PlansInv'
<1>1. cycle' \in Cycles /\ cycle'.at = "process" /\ cycle'.relevant \subseteq cycle'.dirty
  BY ProcessedType DEF Processed, PlansInv, ThreadsInv, TypeOK, Cycles
<1>2. /\ status' \in [Steps -> StepStatuses]
      /\ recovery' \in [Pods -> StepStatuses \cup {None}]
      /\ \A pod \in Pods : recovery[pod] # None => recovery'[pod] # None
      /\ c \in Pods => recovery'[c] # None
  BY SetStatusType DEF PlansInv
<1>3. /\ heard' = None \/ heard' \in Heards
      /\ heard' # None => heard # None /\ heard'.owner \in {heard.owner, None}
  BY ForgetType DEF PlansInv
<1>4. task' \in [Pods -> TaskTypes]
  BY AssetType DEF PlansInv, ThreadsInv
<1>5. TypeOK'
  BY <1>1, <1>2, WatchType DEF PlansInv, TypeOK, Cycles, Candidates
<1>6. ThreadsInv'
  <2>1. (http = None \/ http \in Https) /\ (Looking(http) => http.element \in Parents)
    BY DEF PlansInv, ThreadsInv
  <2>2. (http' = None \/ http' \in Https) /\ (Looking(http)' => http'.element \in Parents)
    BY <2>1 DEF Looking
  <2> QED
    BY <1>1, <1>3, <1>4, <2>2 DEF ThreadsInv
<1>7. OwnersInv'
  <2>1. ASSUME NEW pod \in Pods, NEW d \in Pods, task'[pod].owner = d PROVE recovery'[d] # None
    <3>1. task[pod].owner = d \/ (pod = Asset(c) /\ d = new.owner)
      BY <2>1, AssetType DEF PlansInv, ThreadsInv
    <3>2. d # None
      BY Names DEF Candidates
    <3> QED
      BY <1>2, <2>1, <3>1, <3>2, AssetType DEF PlansInv, OwnersInv
  <2>2. ASSUME heard' # None, NEW d \in Pods, heard'.owner = d PROVE recovery'[d] # None
    BY <1>2, <1>3, <2>2, Names DEF PlansInv, OwnersInv, Candidates
  <2> QED
    BY <2>1, <2>2 DEF OwnersInv
<1>8. CandidatesInv'
  BY <1>1 DEF CandidatesInv
<1> QED
  BY <1>5, <1>6, <1>7, <1>8 DEF PlansInv

LEMMA ProcessPrepareStep == ASSUME NEW c \in Candidates, PlansInv, ProcessPrepare(c) PROVE PlansInv'
<1> DEFINE old == task[Asset(c)]
           new == [owner |-> IF old.owner = c THEN None ELSE old.owner,
                   state |-> IF old.state \in Living THEN "KILLED" ELSE old.state]
<1>1. old \in TaskTypes /\ Asset(c) \in Pods
  BY AssetType DEF PlansInv, ThreadsInv
<1>2. new \in TaskTypes /\ new.owner \in {None, c, old.owner}
  BY <1>1 DEF TaskTypes
<1>3. task' = [task EXCEPT ![Asset(c)] = new]
  BY <1>1 DEF ProcessPrepare, PlansInv, ThreadsInv
<1>4. "PREPARED" \in StepStatuses
  BY DEF StepStatuses
<1>5. /\ SetStatus(c, "PREPARED") /\ Forget({c}) /\ Processed(c) /\ cycle.at = "process" /\ Watch
      /\ marked' \subseteq marked \cup permanent
      /\ UNCHANGED <<interrupted, canary, first, halted, permanent, needy, http>>
  BY DEF ProcessPrepare, operatorVars
<1> HIDE DEF new
<1> QED
  BY <1>2, <1>3, <1>4, <1>5, ProcessType

LEMMA ProcessLaunchStep == ASSUME NEW c \in Candidates, PlansInv, ProcessLaunch(c) PROVE PlansInv'
<1> DEFINE new == [owner |-> c, state |-> "STAGING"]
<1>1. new \in TaskTypes /\ new.owner = c
  BY DEF TaskTypes
<1>2. task' = [task EXCEPT ![Asset(c)] = new]
  BY DEF ProcessLaunch
<1>3. "STARTING" \in StepStatuses
  BY DEF StepStatuses
<1>4. /\ SetStatus(c, "STARTING") /\ Forget({c}) /\ Processed(c) /\ cycle.at = "process" /\ Watch
      /\ needy' \subseteq needy /\ marked' \subseteq marked \cup permanent
      /\ http' = http \/ http' = None
      /\ UNCHANGED <<interrupted, canary, first, halted, permanent>>
  BY DEF ProcessLaunch
<1> HIDE DEF new
<1> QED
  BY <1>1, <1>2, <1>3, <1>4, ProcessType

LEMMA CycleEndsStep == PlansInv /\ CycleEnds => PlansInv'
<1> SUFFICES ASSUME PlansInv, CycleEnds PROVE PlansInv'
  OBVIOUS
<1>1. cycle' \in Cycles /\ cycle'.at = "idle" /\ cycle' = NoCycle /\ cycle'.relevant = {}
  BY DEF CycleEnds, NoCycle, Cycles
<1> QED
  BY <1>1, WatchType
     DEF CycleEnds, PlansInv, TypeOK, ThreadsInv, OwnersInv, CandidatesInv, Cycles, Candidates,
         podVars, operatorVars

-----------------------------------------------------------------------------
(* 3. Mesos and the driver's thread                                         *)

LEMMA TaskRunsStep == ASSUME NEW pod \in Pods, PlansInv, TaskRuns(pod) PROVE PlansInv'
<1>1. PICK st \in {"RUNNING", "READY"} : task' = [task EXCEPT ![pod].state = st]
  BY DEF TaskRuns
<1>2. task[pod] \in TaskTypes
  BY DEF PlansInv, ThreadsInv
<1>3. /\ task' \in [Pods -> TaskTypes]
      /\ task'[pod].state = st
      /\ \A q \in Pods : task'[q].owner = task[q].owner
  BY <1>1, <1>2 DEF PlansInv, ThreadsInv, TaskTypes
<1>4. heard' \in Heards /\ heard'.owner = task[pod].owner
  BY <1>2, <1>3 DEF TaskRuns, Heards, TaskTypes
<1> QED
  BY <1>3, <1>4, WatchType
     DEF TaskRuns, PlansInv, TypeOK, ThreadsInv, OwnersInv, CandidatesInv, Looking, podVars, operatorVars

LEMMA TaskEndsStep ==
    ASSUME NEW pod \in Pods, PlansInv, TaskEnds(pod)
    PROVE  PlansInv'
<1>1. task[pod] \in TaskTypes
  BY DEF PlansInv, ThreadsInv
<1>2. /\ task' \in [Pods -> TaskTypes]
      /\ \A q \in Pods : task'[q].owner = task[q].owner
  BY <1>1 DEF TaskEnds, PlansInv, ThreadsInv, TaskTypes
<1>3. heard' \in Heards /\ heard'.owner = task[pod].owner
  BY <1>1 DEF TaskEnds, Heards, TaskTypes
<1>4. needy' \subseteq Pods
  BY DEF TaskEnds, PlansInv, TypeOK
<1> QED
  BY <1>2, <1>3, <1>4, WatchType
     DEF TaskEnds, PlansInv, TypeOK, ThreadsInv, OwnersInv, CandidatesInv, Looking

LEMMA PlansUpdateStep == PlansInv /\ PlansUpdate => PlansInv'
<1> SUFFICES ASSUME PlansInv, PlansUpdate PROVE PlansInv'
  OBVIOUS
<1>1. heard \in Heards /\ heard' = None
  BY DEF PlansUpdate, PlansInv, ThreadsInv
<1>2. StatusFor(heard.state) \in StepStatuses
  BY <1>1 DEF Heards, StatusFor, StepStatuses
<1>3. /\ UNCHANGED <<interrupted, canary, first, halted, task, permanent, needy, marked, cycle, http>>
      /\ Watch
  BY DEF PlansUpdate, podVars, operatorVars
<1>4. /\ status' \in [Steps -> StepStatuses]
      /\ recovery' \in [Pods -> StepStatuses \cup {None}]
      /\ \A pod \in Pods : recovery[pod] # None => recovery'[pod] # None
  <2>1. CASE SetStatus(heard.owner, StatusFor(heard.state)) /\ heard.owner # None
    <3>1. heard.owner \in Candidates
      BY <1>1, <2>1 DEF Heards
    <3> QED
      BY <1>2, <2>1, <3>1, SetStatusType DEF PlansInv
  <2>2. CASE UNCHANGED <<status, recovery>>
    BY <2>2 DEF PlansInv, TypeOK
  <2> QED
    BY <2>1, <2>2 DEF PlansUpdate
<1>5. CandidatesInv'
  BY <1>3, <1>4, CandidatesKept DEF PlansInv
<1> QED
  BY <1>1, <1>3, <1>4, <1>5, WatchType DEF PlansInv, TypeOK, ThreadsInv, OwnersInv, Looking

-----------------------------------------------------------------------------
(* 4. The operator                                                          *)

(* A command changes deploy steps, what is interrupted or labelled, and its *)
(* own state; its second half may kill a task.                              *)
LEMMA CommandType ==
    ASSUME PlansInv,
           status' \in [Steps -> StepStatuses],
           interrupted' \subseteq interrupted,
           halted' \subseteq Parents \cup {"recovery"},
           marked' \subseteq Pods,
           \A e \in Parents : first'[e] = None \/ first'[e] \subseteq Steps \cup AllPhases,
           http' = None \/ http' \in Https,
           Looking(http') => http'.element \in Parents,
           task' \in [Pods -> TaskTypes],
           \A pod \in Pods : task'[pod].owner = task[pod].owner,
           UNCHANGED <<canary, recovery, permanent, needy, heard, cycle>>, Watch
    PROVE  PlansInv'
<1>1. CandidatesInv'
  BY CandidatesKept DEF PlansInv
<1> QED
  BY <1>1, WatchType DEF PlansInv, TypeOK, ThreadsInv, OwnersInv

(* What a command leaves as it is has its type.                             *)
LEMMA CommandKeeps ==
    ASSUME PlansInv
    PROVE  /\ status \in [Steps -> StepStatuses]
           /\ halted \subseteq Parents \cup {"recovery"}
           /\ marked \subseteq Pods
           /\ \A e \in Parents : first[e] = None \/ first[e] \subseteq Steps \cup AllPhases
           /\ http = None \/ http \in Https
           /\ Looking(http) => http.element \in Parents
           /\ task \in [Pods -> TaskTypes]
BY DEF PlansInv, TypeOK, ThreadsInv

LEMMA RestartType == TypeOK => \A e : RestartSteps(e) => status' \in [Steps -> StepStatuses]
BY DEF RestartSteps, TypeOK, StepStatuses

LEMMA ProceedType ==
    ASSUME TypeOK, NEW e, Proceed(e)
    PROVE  interrupted' \subseteq interrupted /\ halted' \subseteq Parents \cup {"recovery"}
BY DEF Proceed, TypeOK

LEMMA AskedStep ==
    ASSUME PlansInv, NEW do \in {"interrupt", "continue", "start"}, NEW e \in Parents,
           http' = [do |-> do, element |-> e],
           UNCHANGED <<status, interrupted, canary, first, halted, recovery, task, podVars, heard, cycle>>, Watch
    PROVE  PlansInv'
<1>1. http' \in Https /\ http'.element \in Parents
  BY DEF Https
<1> QED
  BY <1>1, CommandKeeps, CommandType DEF podVars

LEMMA AnswerStep == PlansInv /\ Answer => PlansInv'
<1> SUFFICES ASSUME PlansInv, Answer PROVE PlansInv'
  OBVIOUS
<1> DEFINE e == http.element
<1>1. http \in Https /\ e \in Parents
  BY CommandKeeps DEF Answer, Looking
<1>2. \A d \in Parents : first'[d] = None \/ first'[d] \subseteq Steps \cup AllPhases
  BY MadeType DEF Answer, PlansInv
<1>3. UNCHANGED <<canary, recovery, task, permanent, needy, marked, heard, cycle>> /\ Watch
  BY DEF Answer, podVars
<1>4. CASE http.do = "interrupt"
  <2>1. /\ halted' = halted \/ halted' = HaltedBy(e)
        /\ http' = None /\ UNCHANGED <<status, interrupted>>
    BY <1>4 DEF Answer
  <2>2. halted' \subseteq Parents \cup {"recovery"}
    BY <1>1, <2>1, CommandKeeps DEF HaltedBy
  <2> QED
    BY <1>2, <1>3, <2>1, <2>2, CommandKeeps, CommandType DEF Looking
<1>5. CASE http.do = "continue"
  <2>1. /\ UNCHANGED <<interrupted, halted>> \/ Proceed(e)
        /\ http' = None /\ UNCHANGED status
    BY <1>5 DEF Answer
  <2>2. interrupted' \subseteq interrupted /\ halted' \subseteq Parents \cup {"recovery"}
    BY <2>1, CommandKeeps, ProceedType DEF PlansInv
  <2> QED
    BY <1>2, <1>3, <2>1, <2>2, CommandKeeps, CommandType DEF Looking
<1>6. CASE http.do = "start"
  <2>1. /\ RestartSteps("deploy") \/ UNCHANGED status
        /\ http' = [do |-> "proceed", element |-> "deploy"] /\ UNCHANGED <<interrupted, halted>>
    BY <1>6 DEF Answer
  <2>2. status' \in [Steps -> StepStatuses]
    BY <2>1, CommandKeeps, RestartType DEF PlansInv
  <2>3. http' \in Https /\ ~Looking(http')
    BY <2>1 DEF Https, Parents, Looking
  <2> QED
    BY <1>2, <1>3, <2>1, <2>2, <2>3, CommandKeeps, CommandType
<1> QED
  BY <1>4, <1>5, <1>6 DEF Answer, Looking

LEMMA SecondHalfStep == PlansInv /\ SecondHalf => PlansInv'
<1> SUFFICES ASSUME PlansInv, SecondHalf PROVE PlansInv'
  OBVIOUS
<1>1. http \in Https /\ http' = None /\ http.do \in {"restart", "proceed", "kill"}
  BY CommandKeeps DEF SecondHalf, Looking, Https
<1>2. UNCHANGED <<canary, first, recovery, permanent, needy, marked, heard, cycle>> /\ Watch
  BY DEF SecondHalf, podVars
<1>3. CASE http.do = "restart"
  <2>1. status' \in [Steps -> StepStatuses] /\ UNCHANGED <<interrupted, halted, task>>
    BY <1>3, RestartType DEF SecondHalf, PlansInv
  <2> QED
    BY <1>1, <1>2, <2>1, CommandKeeps, CommandType DEF Looking
<1>4. CASE http.do = "kill"
  <2>1. /\ task' = [task EXCEPT ![http.element].state = IF @ \in Living THEN "KILLED" ELSE @]
        /\ UNCHANGED <<status, interrupted, halted>>
    BY <1>4 DEF SecondHalf
  <2>2. task' \in [Pods -> TaskTypes] /\ \A pod \in Pods : task'[pod].owner = task[pod].owner
    BY <2>1, CommandKeeps DEF TaskTypes
  <2> QED
    BY <1>1, <1>2, <2>1, <2>2, CommandKeeps, CommandType DEF Looking
<1>5. CASE http.do = "proceed"
  <2>1. /\ (interrupted' = interrupted \ {http.element} /\ UNCHANGED halted) \/ Proceed(http.element)
        /\ UNCHANGED <<status, task>>
    BY <1>5 DEF SecondHalf
  <2>2. interrupted' \subseteq interrupted /\ halted' \subseteq Parents \cup {"recovery"}
    BY <2>1, CommandKeeps, ProceedType DEF PlansInv
  <2> QED
    BY <1>1, <1>2, <2>1, <2>2, CommandKeeps, CommandType DEF Looking
<1> QED
  BY <1>1, <1>3, <1>4, <1>5

LEMMA OperatorStep == PlansInv /\ Operator => PlansInv'
<1> SUFFICES ASSUME PlansInv, Operator PROVE PlansInv'
  OBVIOUS
<1> USE DEF podVars
<1>1. ASSUME NEW e \in Parents, Interrupt(e) \/ Continue(e) PROVE PlansInv'
  BY <1>1, AskedStep DEF Interrupt, Continue
<1>2. CASE ToggleRecovery
  <2>1. halted' \subseteq Parents \cup {"recovery"}
    BY <1>2, CommandKeeps DEF ToggleRecovery
  <2> QED
    BY <1>2, <2>1, CommandKeeps, CommandType DEF ToggleRecovery
<1>3. ASSUME NEW e \in Parents \cup Steps, Restart(e) PROVE PlansInv'
  <2>1. http' \in Https /\ ~Looking(http')
    BY <1>3 DEF Restart, Https, Candidates, Looking
  <2>2. status' \in [Steps -> StepStatuses]
    BY <1>3, RestartType DEF Restart, PlansInv
  <2> QED
    BY <1>3, <2>1, <2>2, CommandKeeps, CommandType DEF Restart
<1>4. CASE Start
  BY <1>4, AskedStep DEF Start, Parents
<1>5. CASE Stop
  <2>1. http' \in Https /\ ~Looking(http')
    BY <1>5 DEF Stop, Https, Parents, Looking
  <2>2. halted' \subseteq Parents \cup {"recovery"}
    BY <1>5, CommandKeeps DEF Stop, Parents
  <2> QED
    BY <1>5, <2>1, <2>2, CommandKeeps, CommandType DEF Stop
<1>6. ASSUME NEW s \in Steps, ForceComplete(s) PROVE PlansInv'
  <2>1. status' \in [Steps -> StepStatuses]
    BY <1>6, CommandKeeps DEF ForceComplete, StepStatuses
  <2> QED
    BY <1>6, <2>1, CommandKeeps, CommandType DEF ForceComplete
<1>7. ASSUME NEW pod \in Pods, Replace(pod) PROVE PlansInv'
  <2>1. http' \in Https /\ ~Looking(http')
    BY <1>7 DEF Replace, Https, Candidates, Looking
  <2>2. marked' \subseteq Pods
    BY <1>7, CommandKeeps DEF Replace
  <2> QED
    BY <1>7, <2>1, <2>2, CommandKeeps, CommandType DEF Replace
<1> QED
  BY <1>1, <1>2, <1>3, <1>4, <1>5, <1>6, <1>7, AnswerStep, SecondHalfStep DEF Operator

LEMMA NextPlansInv == PlansInv /\ [Next]_vars => PlansInv'
<1> SUFFICES ASSUME PlansInv, [Next]_vars PROVE PlansInv'
  OBVIOUS
<1>1. CASE OfferThread
  BY <1>1, CollectDirtyStep, DeployRelevantStep, DeployCandidatesStep, RecoveryRelevantStep,
     RecoveryCandidatesStep, ProcessIgnoredStep, ProcessPrepareStep, ProcessLaunchStep, CycleEndsStep
     DEF OfferThread, Candidates
<1>2. CASE \E pod \in Pods : TaskRuns(pod) \/ TaskFails(pod) \/ KillArrives(pod)
  BY <1>2, TaskRunsStep, TaskEndsStep DEF TaskFails, KillArrives
<1>3. CASE PlansUpdate
  BY <1>3, PlansUpdateStep
<1>4. CASE Operator
  BY <1>4, OperatorStep
<1>5. CASE UNCHANGED vars
  BY <1>5 DEF vars, podVars, operatorVars, PlansInv, TypeOK, ThreadsInv, OwnersInv, CandidatesInv
<1> QED
  BY <1>1, <1>2, <1>3, <1>4, <1>5 DEF Next

LEMMA Invariant == Spec => []PlansInv
BY InitPlansInv, NextPlansInv, PTL DEF Spec

(* The plans' state keeps its type, and an offer thread that is between two *)
(* cycles has forgotten everything of the last one.                         *)
THEOREM TypeCorrect == Spec => []TypeOK
<1>1. PlansInv => TypeOK
  BY DEF PlansInv
<1> QED
  BY <1>1, Invariant, PTL

-----------------------------------------------------------------------------
(* 5. Recovery keeps off what the deploy plan is about to launch            *)

(* What gives a pod its first recovery step.                                *)
LEMMA NewRecoveryStep ==
    ASSUME PlansInv, [Next]_vars, NEW pod \in Pods, recovery[pod] = None, recovery'[pod] # None
    PROVE  RecoveryCandidates
<1>1. ASSUME NEW c \in Candidates, NEW st \in StepStatuses, SetStatus(c, st)
      PROVE  pod = c /\ c \notin Steps
  BY <1>1, SetStatusType DEF PlansInv
<1>2. ASSUME NEW c \in Candidates PROVE ~ProcessPrepare(c) /\ ~ProcessLaunch(c)
  <2>1. {"PREPARED", "STARTING"} \subseteq StepStatuses
    BY DEF StepStatuses
  <2>2. ASSUME SetStatus(c, "PREPARED") \/ SetStatus(c, "STARTING"), StatusOf(c) \in {"PENDING", "PREPARED"}
        PROVE  FALSE
    <3>1. pod = c /\ c \notin Steps
      BY <1>1, <2>1, <2>2
    <3>2. None \notin {"PENDING", "PREPARED"}
      BY Names DEF StepStatuses
    <3> QED
      BY <2>2, <3>1, <3>2 DEF StatusOf
  <2> QED
    BY <2>2 DEF ProcessPrepare, ProcessLaunch
<1>3. ~PlansUpdate
  <2> SUFFICES ASSUME PlansUpdate PROVE FALSE
    OBVIOUS
  <2>1. heard \in Heards
    BY DEF PlansUpdate, PlansInv, ThreadsInv
  <2>2. StatusFor(heard.state) \in StepStatuses
    BY <2>1 DEF Heards, StatusFor, StepStatuses
  <2>3. heard.owner \in Candidates /\ SetStatus(heard.owner, StatusFor(heard.state))
    BY <2>1 DEF PlansUpdate, Heards
  <2>4. pod = heard.owner
    BY <1>1, <2>2, <2>3
  <2> QED
    BY <2>1, <2>4 DEF PlansInv, OwnersInv, PlansUpdate
<1>4. \/ CollectDirty \/ DeployRelevant \/ DeployCandidates \/ RecoveryRelevant \/ CycleEnds \/ Operator
      \/ \E c \in Steps \cup Pods : ProcessIgnored(c)
      \/ \E p \in Pods : TaskRuns(p) \/ TaskFails(p) \/ KillArrives(p)
      \/ UNCHANGED vars
      => UNCHANGED recovery
  BY DEF CollectDirty, DeployRelevant, DeployCandidates, RecoveryRelevant, CycleEnds, ProcessIgnored, TaskRuns,
         TaskFails, KillArrives, TaskEnds, Operator, Interrupt, Continue, ToggleRecovery, Restart, Start, Stop,
         Answer, SecondHalf, ForceComplete, Replace, vars
<1> QED
  BY <1>2, <1>3, <1>4 DEF Next, OfferThread, Candidates

(* A pod that recovery has no step for gets none while a step of the deploy *)
(* plan for it is among the candidates of the cycle, at whatever moments    *)
(* the coordinator reads the statuses and takes the recovery plan's lock:   *)
(* the deploy plan's candidates are dirty for the recovery plan, and only   *)
(* pods that recovery has a running step for are taken out of what is dirty.*)
(* A pod with an older recovery step is not protected (Clash).              *)
THEOREM RecoveryKeepsOff == Spec => RecoveryYields
<1>1. ASSUME PlansInv, [Next]_vars, NEW pod \in Pods, recovery[pod] = None, recovery'[pod] # None,
             NEW s \in cycle.steps \cap Steps
      PROVE  PodOf[s] # pod
  <2>1. RecoveryCandidates
    BY <1>1, NewRecoveryStep
  <2>2. pod \notin cycle.relevant
    BY <1>1, <2>1 DEF RecoveryCandidates
  <2>3. PodOf[s] \in cycle.relevant \/ recovery[PodOf[s]] # None
    BY <1>1, <2>1 DEF RecoveryCandidates, PlansInv, CandidatesInv
  <2> QED
    BY <1>1, <2>2, <2>3
<1>2. PlansInv /\ [Next]_vars
      => [\A pod \in Pods :
            recovery[pod] = None /\ recovery'[pod] # None => \A s \in cycle.steps \cap Steps : PodOf[s] # pod]_vars
  BY <1>1
<1> QED
  BY <1>2, Invariant, PTL DEF Spec, RecoveryYields

-----------------------------------------------------------------------------
(* 6. The cases of getStatus leave no state out                             *)

LEMMA LeastIndex ==
    ASSUME NEW S \in SUBSET Nat, S # {}
    PROVE  \E i \in S : \A j \in S : ~(j < i)
<1> DEFINE R == OpToRel(<, Nat)
<1>1. IsWellFoundedOn(R, Nat)
  BY NatLessThanWellFounded, Zenon
<1>2. \A i, j \in Nat : i < j => <<i, j>> \in R
  BY Zenon DEF OpToRel
<1> HIDE DEF R
<1>3. PICK i \in S : \A j \in S : ~(<<j, i>> \in R)
  BY <1>1, WFMin
<1> QED
  BY <1>2, <1>3

(* Of the children that are not complete, the first may always go, whatever *)
(* the strategy's helper remembers.                                         *)
LEMMA FirstOpen ==
    ASSUME NEW e \in Parents, NEW c \in ToSet(Children(e)), ~Complete(c)
    PROVE  \E d \in ToSet(Children(e)) : ~Complete(d) /\ Ready(e, d)
<1> DEFINE kids == Children(e)
           open == {i \in DOMAIN kids : ~Complete(kids[i])}
<1>1. /\ kids \in Seq(ToSet(kids))
      /\ \A i, j \in DOMAIN kids : kids[i] = kids[j] => i = j
  BY PlansAssumption
<1>2. Len(kids) \in Nat /\ DOMAIN kids = 1..Len(kids)
  BY <1>1, LenProperties
<1>3. open \in SUBSET Nat /\ open # {}
  BY <1>2 DEF ToSet
<1>4. PICK i \in open : \A j \in open : ~(j < i)
  BY <1>3, LeastIndex
<1>5. \A j \in 1..i - 1 : Complete(kids[j])
  BY <1>2, <1>4
<1>6. Ready(e, kids[i])
  <2>1. \A k \in DOMAIN kids : kids[k] = kids[i] => k = i
    BY <1>1, <1>4
  <2> HIDE DEF kids
  <2>2. \A k \in DOMAIN kids : \A j \in 1..k - 1 : kids[k] = kids[i] => Complete(kids[j])
    BY <1>5, <2>1
  <2> USE DEF kids
  <2> QED
    BY <2>2 DEF Ready, ReadyAfter
<1>7. kids[i] \in ToSet(kids) /\ ~Complete(kids[i])
  BY <1>4 DEF ToSet
<1> QED
  BY <1>6, <1>7

LEMMA ParentNoError ==
    ASSUME NEW kids, NEW cands, NEW isInterrupted \in BOOLEAN,
           "ERROR" \notin kids,
           \/ kids \subseteq {"COMPLETE"} \/ isInterrupted \/ "PREPARED" \in kids \/ "WAITING" \in kids
           \/ cands \cap {"IN_PROGRESS", "WAITING", "PENDING", "STARTING", "STARTED"} # {}
    PROVE  ParentStatus(kids, cands, isInterrupted) # "ERROR"
BY DEF ParentStatus

(* The other statuses of a parent.                                          *)
LEMMA ParentStatusType ==
    ASSUME NEW kids, NEW cands, NEW isInterrupted \in BOOLEAN, "ERROR" \notin kids
    PROVE  /\ ParentStatus(kids, cands, isInterrupted) \in
                  {"ERROR", "COMPLETE", "WAITING", "IN_PROGRESS", "PENDING", "STARTING", "STARTED"}
           /\ ParentStatus(kids, cands, isInterrupted) = "COMPLETE" <=> kids \subseteq {"COMPLETE"}
           /\ isInterrupted /\ ~(kids \subseteq {"COMPLETE"})
              => ParentStatus(kids, cands, isInterrupted) = "WAITING"
BY DEF ParentStatus

LEMMA StatusType ==
    ASSUME TypeOK, NEW s \in Steps
    PROVE  /\ Status(s) \in StepStatuses \cup {"WAITING"}
           /\ Status(s) = "COMPLETE" <=> status[s] = "COMPLETE"
           /\ s \notin interrupted => Status(s) = status[s] /\ status[s] \in StepStatuses
           /\ Complete(s) <=> status[s] = "COMPLETE"
BY PlansAssumption DEF Status, TypeOK, StepStatuses, Complete

(* A phase that is not complete and not interrupted has a candidate.        *)
LEMMA PhaseGoesOn ==
    ASSUME TypeOK, NEW p \in AllPhases, ~IsInterrupted(p), NEW s \in Kids(p), status[s] # "COMPLETE"
    PROVE  StepCandidates(p, {}) # {}
<1> DEFINE eligible == {u \in Kids(p) : status[u] # "COMPLETE" /\ u \notin interrupted /\ PodOf[u] \notin {}}
<1>1. Kids(p) \subseteq Steps /\ p \in Parents /\ Children(p) = StepsOf[p]
  BY Names DEF Parents, Children
<1>2. CASE InCanary(p)
  <2>1. Proceeding(p)
    BY <1>2 DEF IsInterrupted
  <2>2. PICK u \in Canaries(p) : u \notin interrupted /\ status[u] # "COMPLETE"
    BY <2>1 DEF Proceeding
  <2>3. u \in eligible \cap canary
    BY <2>2 DEF Canaries
  <2> QED
    BY <1>2, <2>3 DEF StepCandidates
<1>3. CASE ~InCanary(p)
  <2>1. p \notin halted
    BY DEF IsInterrupted
  <2>2. Kids(p) \cap interrupted = {}
    BY <1>3 DEF InCanary, Canaries, TypeOK
  <2>3. s \in ToSet(Children(p)) /\ ~Complete(s)
    BY <1>1, StatusType DEF Kids
  <2>4. PICK d \in ToSet(Children(p)) : ~Complete(d) /\ Ready(p, d)
    BY <1>1, <2>3, FirstOpen
  <2>5. d \in Kids(p) /\ status[d] # "COMPLETE" /\ d \notin interrupted
    BY <1>1, <2>2, <2>4, StatusType DEF Kids
  <2>6. StepCandidates(p, {}) = {u \in eligible : Ready(p, u)}
    BY <1>3, <2>1 DEF StepCandidates
  <2> QED
    BY <2>4, <2>5, <2>6
<1> QED
  BY <1>2, <1>3

LEMMA PhaseShowsNoError ==
    ASSUME TypeOK, NEW p \in AllPhases
    PROVE  /\ PhaseStatus(p) \in {"COMPLETE", "WAITING", "IN_PROGRESS", "PENDING", "STARTING", "STARTED"}
           /\ PhaseStatus(p) = "COMPLETE" <=> Complete(p)
           /\ IsInterrupted(p) /\ ~Complete(p) => PhaseStatus(p) = "WAITING"
<1> DEFINE kids == {Status(s) : s \in Kids(p)}
           cands == {Status(s) : s \in StepCandidates(p, {})}
<1>1. Kids(p) \subseteq Steps
  BY Names
<1>2. "ERROR" \notin kids /\ IsInterrupted(p) \in BOOLEAN
  BY <1>1, StatusType DEF StepStatuses, IsInterrupted
<1>3. kids \subseteq {"COMPLETE"} <=> Complete(p)
  BY <1>1, StatusType DEF Complete
<1>4. \/ kids \subseteq {"COMPLETE"} \/ IsInterrupted(p) \/ "PREPARED" \in kids
      \/ cands \cap {"IN_PROGRESS", "WAITING", "PENDING", "STARTING", "STARTED"} # {}
  <2> SUFFICES ASSUME ~(kids \subseteq {"COMPLETE"}), ~IsInterrupted(p), "PREPARED" \notin kids
               PROVE  cands \cap {"PENDING", "STARTING", "STARTED"} # {}
    OBVIOUS
  <2>1. PICK s \in Kids(p) : status[s] # "COMPLETE"
    BY <1>1, StatusType
  <2>2. PICK d \in StepCandidates(p, {}) : TRUE
    BY <2>1, PhaseGoesOn
  <2>3. d \in Kids(p) /\ status[d] # "COMPLETE" /\ d \notin interrupted
    BY DEF StepCandidates
  <2>4. Status(d) \in {"PENDING", "STARTING", "STARTED"}
    BY <1>1, <2>3, StatusType DEF StepStatuses
  <2> QED
    BY <2>4
<1>5. PhaseStatus(p) = ParentStatus(kids, cands, IsInterrupted(p))
  BY DEF PhaseStatus
<1> HIDE DEF kids, cands
<1> QED
  BY <1>2, <1>3, <1>4, <1>5, ParentNoError, ParentStatusType

LEMMA PlanShowsNoError == TypeOK => PlanStatus # "ERROR"
<1> SUFFICES ASSUME TypeOK PROVE PlanStatus # "ERROR"
  OBVIOUS
<1> DEFINE kids == {PhaseStatus(p) : p \in AllPhases}
           cands == {PhaseStatus(p) : p \in PhaseCandidates}
<1>1. "ERROR" \notin kids /\ IsInterrupted("deploy") \in BOOLEAN
  BY PhaseShowsNoError DEF IsInterrupted
<1>2. \/ kids \subseteq {"COMPLETE"} \/ IsInterrupted("deploy") \/ "WAITING" \in kids
      \/ cands \cap {"IN_PROGRESS", "WAITING", "PENDING", "STARTING", "STARTED"} # {}
  <2> SUFFICES ASSUME ~(kids \subseteq {"COMPLETE"}), ~IsInterrupted("deploy"), "WAITING" \notin kids
               PROVE  cands \cap {"IN_PROGRESS", "WAITING", "PENDING", "STARTING", "STARTED"} # {}
    OBVIOUS
  <2>1. "deploy" \notin halted
    BY DEF IsInterrupted
  <2>2. PICK p \in AllPhases : ~Complete(p)
    BY PhaseShowsNoError
  <2>3. "deploy" \in Parents /\ ToSet(Children("deploy")) = AllPhases
    BY DEF Parents, Children, AllPhases
  <2>4. PICK q \in AllPhases : ~Complete(q) /\ Ready("deploy", q)
    BY <2>2, <2>3, FirstOpen
  <2>5. ~IsInterrupted(q)
    BY <2>4, PhaseShowsNoError
  <2>6. PhaseStatus(q) \in {"WAITING", "IN_PROGRESS", "PENDING", "STARTING", "STARTED"}
    BY <2>4, PhaseShowsNoError
  <2>7. q \in PhaseCandidates
    BY <2>1, <2>4, <2>5, <2>6 DEF PhaseCandidates, PhasesRead, Ready
  <2> QED
    BY <2>6, <2>7
<1>3. PlanStatus = ParentStatus(kids, cands, IsInterrupted("deploy"))
  BY DEF PlanStatus
<1> HIDE DEF kids, cands
<1> QED
  BY <1>1, <1>2, <1>3, ParentNoError

(* In no state that can be reached, whatever is interrupted and whatever    *)
(* the strategies' helpers have come to know, is the last case of getStatus *)
(* left for the plan or a phase without a step in error: ERROR is not the   *)
(* status of such a state.  It can still be the outcome of a read during    *)
(* which steps move: the cases are tried one after the other.               *)
THEOREM NoStateNeedsError == Spec => []NoStateIsError
<1>1. PlansInv => NoStateIsError
  <2> SUFFICES ASSUME TypeOK PROVE NoStateIsError
    BY DEF PlansInv
  <2>1. \A p \in AllPhases : PhaseStatus(p) # "ERROR"
    BY PhaseShowsNoError
  <2> QED
    BY <2>1, PlanShowsNoError DEF NoStateIsError
<1> QED
  BY <1>1, Invariant, PTL

-----------------------------------------------------------------------------
(* 7. What a read shows while steps move                                    *)

(* COMPLETE has a case of its own: every child was met COMPLETE.            *)
LEMMA CompleteWasMet ==
    ASSUME NEW seenOf, NEW cands, NEW bit \in BOOLEAN, "COMPLETE" \in StatusesRead(seenOf, cands, bit)
    PROVE  \A c \in DOMAIN seenOf : "COMPLETE" \in seenOf[c]
BY DEF StatusesRead

(* Reading what does not move is reading the statuses of one moment.        *)
LEMMA StillReadsAgree ==
    ASSUME NEW seenOf, NEW cands \in SUBSET DOMAIN seenOf, NEW bit \in BOOLEAN, NEW of,
           \A c \in DOMAIN seenOf : seenOf[c] = {of[c]}
    PROVE  StatusesRead(seenOf, cands, bit) =
               {ParentStatus({of[c] : c \in DOMAIN seenOf}, {of[c] : c \in cands}, bit)}
<1> DEFINE kids == {of[c] : c \in DOMAIN seenOf}
           candidates == {of[c] : c \in cands}
<1>1. \A st : /\ (\E c \in DOMAIN seenOf : st \in seenOf[c]) <=> st \in kids
              /\ (\A c \in DOMAIN seenOf : seenOf[c] # {st}) <=> st \notin kids
              /\ (\E c \in cands : st \in seenOf[c]) <=> st \in candidates
              /\ (\A c \in cands : seenOf[c] # {st}) <=> st \notin candidates
  OBVIOUS
<1>2. /\ (\A c \in DOMAIN seenOf : "COMPLETE" \in seenOf[c]) <=> kids \subseteq {"COMPLETE"}
      /\ (\E c \in DOMAIN seenOf : seenOf[c] # {"COMPLETE"}) <=> ~(kids \subseteq {"COMPLETE"})
  OBVIOUS
<1>3. candidates \cap {"PENDING", "STARTING", "STARTED"} # {} <=>
          \E st \in {"PENDING", "STARTING", "STARTED"} : st \in candidates
  OBVIOUS
<1> HIDE DEF kids, candidates
<1>4. StatusesRead(seenOf, cands, bit) = {ParentStatus(kids, candidates, bit)}
  BY <1>1, <1>2, <1>3 DEF StatusesRead, ParentStatus
<1> QED
  BY <1>4 DEF kids, candidates

(* A step that was seen COMPLETE is so still, or a command restarted it.    *)
SeenInv ==
    \A s \in Steps :
        /\ "COMPLETE" \in seen.offers[s] => status[s] = "COMPLETE" \/ s \in seen.reopened
        /\ "COMPLETE" \in seen.http[s] => status[s] = "COMPLETE"

LEMMA InitSeenInv == Init => SeenInv
BY DEF Init, SeenInv

LEMMA NextWatches == Next => Watch
BY DEF Next, OfferThread, Operator, CollectDirty, DeployRelevant, DeployCandidates, RecoveryRelevant,
       RecoveryCandidates, ProcessIgnored, ProcessPrepare, ProcessLaunch, CycleEnds, TaskRuns, TaskFails, KillArrives,
       TaskEnds, PlansUpdate, Interrupt, Continue, ToggleRecovery, Restart, Start, Stop, ForceComplete, Replace, Answer,
       SecondHalf

(* Only a command takes a step from COMPLETE: the restart itself, or the    *)
(* second call of another.                                                  *)
LEMMA ReopenedByCommand ==
    ASSUME PlansInv, Next, NEW s \in Steps, status[s] = "COMPLETE", status'[s] # "COMPLETE"
    PROVE  http' # http /\ ~Looking(http')
<1>1. ASSUME NEW c \in Candidates, NEW st \in StepStatuses, SetStatus(c, st) PROVE c = s
  BY <1>1, Names DEF SetStatus, PlansInv, TypeOK, Candidates
<1>2. StatusOf(s) = "COMPLETE"
  BY StatusType DEF StatusOf, PlansInv
<1>3. ASSUME NEW c \in Candidates PROVE ~ProcessPrepare(c) /\ ~ProcessLaunch(c)
  BY <1>1, <1>2 DEF ProcessPrepare, ProcessLaunch, StepStatuses
<1>4. ~PlansUpdate
  <2> SUFFICES ASSUME PlansUpdate PROVE FALSE
    OBVIOUS
  <2>1. heard \in Heards
    BY DEF PlansUpdate, PlansInv, ThreadsInv
  <2>2. StatusFor(heard.state) \in StepStatuses
    BY <2>1 DEF Heards, StatusFor, StepStatuses
  <2>3. heard.owner \in Candidates /\ SetStatus(heard.owner, StatusFor(heard.state)) /\ StatusOf(heard.owner) # "COMPLETE"
    BY <2>1 DEF PlansUpdate, Heards
  <2> QED
    BY <1>1, <1>2, <2>2, <2>3
<1>5. \/ CollectDirty \/ DeployRelevant \/ DeployCandidates \/ RecoveryRelevant \/ RecoveryCandidates \/ CycleEnds
      \/ \E c \in Steps \cup Pods : ProcessIgnored(c)
      \/ \E p \in Pods : TaskRuns(p) \/ TaskFails(p) \/ KillArrives(p) \/ Replace(p)
      \/ \E e \in Parents : Interrupt(e) \/ Continue(e)
      \/ ToggleRecovery \/ Start \/ Stop
      => UNCHANGED status
  BY DEF CollectDirty, DeployRelevant, DeployCandidates, RecoveryRelevant, RecoveryCandidates, CycleEnds,
         ProcessIgnored, TaskRuns, TaskFails, KillArrives, TaskEnds, Interrupt, Continue, ToggleRecovery, Start,
         Stop, Replace
<1>6. ASSUME NEW u \in Steps PROVE ~ForceComplete(u)
  BY DEF ForceComplete, PlansInv, TypeOK
<1>7. ASSUME NEW e \in Parents \cup Steps, Restart(e) PROVE http' # http /\ ~Looking(http')
  <2>1. http = None /\ http' = [do |-> "proceed", element |-> e]
    BY <1>7 DEF Restart, Command
  <2>2. http' # None
    BY <2>1, PlansAssumption
  <2> QED
    BY <2>1, <2>2 DEF Looking
<1>8. CASE Answer
  <2>1. Looking(http) /\ http' = [do |-> "proceed", element |-> "deploy"]
    BY <1>8 DEF Answer, Looking
  <2> QED
    BY <2>1 DEF Looking
<1>9. CASE SecondHalf
  BY <1>9 DEF SecondHalf, Looking
<1> QED
  BY <1>3, <1>4, <1>5, <1>6, <1>7, <1>8, <1>9 DEF Next, OfferThread, Operator, Candidates

LEMMA NextSeenInv == PlansInv /\ SeenInv /\ [Next]_vars => SeenInv'
<1>1. CASE UNCHANGED vars
  BY <1>1 DEF vars, SeenInv
<1>2. CASE Next
  <2> SUFFICES ASSUME PlansInv, SeenInv, Next, NEW s \in Steps
               PROVE  /\ "COMPLETE" \in seen'.offers[s] => status'[s] = "COMPLETE" \/ s \in seen'.reopened
                      /\ "COMPLETE" \in seen'.http[s] => status'[s] = "COMPLETE"
    BY <1>2 DEF SeenInv
  <2>1. Watch
    BY NextWatches
  <2>2. Status(s)' = "COMPLETE" => status'[s] = "COMPLETE"
    BY DEF Status
  <2>3. "COMPLETE" \in seen'.offers[s] =>
            cycle'.at = "candidates" /\ ("COMPLETE" \in seen.offers[s] \/ Status(s)' = "COMPLETE")
    BY <2>1 DEF Watch
  <2>4. "COMPLETE" \in seen'.http[s] =>
            Looking(http') /\ ("COMPLETE" \in seen.http[s] \/ Status(s)' = "COMPLETE")
    BY <2>1 DEF Watch
  <2>5. /\ cycle'.at = "candidates" /\ s \in seen.reopened => s \in seen'.reopened
        /\ cycle'.at = "candidates" /\ http' # http /\ status[s] = "COMPLETE" /\ status'[s] # "COMPLETE"
              => s \in seen'.reopened
    BY <2>1 DEF Watch
  <2> QED
    BY <2>2, <2>3, <2>4, <2>5, ReopenedByCommand DEF SeenInv
<1> QED
  BY <1>1, <1>2

LEMMA SeenInvariant == Spec => []SeenInv
BY InitSeenInv, NextSeenInv, Invariant, InitPlansInv, PTL DEF Spec

(* A phase or plan that is read as COMPLETE was seen so step by step.       *)
LEMMA PhaseReadComplete ==
    ASSUME TypeOK, NEW sn, NEW p \in AllPhases, "COMPLETE" \in PhaseReadings(sn, p)
    PROVE  \A s \in Kids(p) : status[s] = "COMPLETE" \/ "COMPLETE" \in sn[s]
<1>1. CASE StepsRead(sn, p)
  <2>1. PhaseStatus(p) = "COMPLETE"
    BY <1>1 DEF PhaseReadings
  <2> QED
    BY <2>1, PhaseShowsNoError DEF Complete
<1>2. CASE ~StepsRead(sn, p)
  <2> DEFINE kids == [s \in Kids(p) |-> sn[s]]
  <2>1. PICK cands \in SUBSET {s \in Kids(p) : kids[s] # {"COMPLETE"}} : \E bit \in BOOLEAN :
            "COMPLETE" \in StatusesRead(kids, cands, bit)
    BY <1>2 DEF PhaseReadings
  <2>2. \A s \in DOMAIN kids : "COMPLETE" \in kids[s]
    BY <2>1, CompleteWasMet
  <2> QED
    BY <2>2
<1> QED
  BY <1>1, <1>2

LEMMA ReadComplete ==
    ASSUME TypeOK, NEW sn, NEW e \in Parents, "COMPLETE" \in Readings(sn, e)
    PROVE  \A s \in Below(e) : status[s] = "COMPLETE" \/ "COMPLETE" \in sn[s]
<1>1. CASE e # "deploy"
  <2>1. e \in AllPhases /\ Below(e) = Kids(e)
    BY <1>1 DEF Parents, Below
  <2> QED
    BY <1>1, <2>1, PhaseReadComplete DEF Readings
<1>2. CASE e = "deploy"
  <2>1. Below(e) = Steps
    BY <1>2 DEF Below
  <2>2. ASSUME NEW p \in AllPhases
        PROVE  \A s \in Kids(p) : status[s] = "COMPLETE" \/ "COMPLETE" \in sn[s]
    <3>1. CASE \A q \in AllPhases : StepsRead(sn, q)
      <4>1. PlanStatus = "COMPLETE"
        BY <1>2, <3>1 DEF Readings, PlanReadings
      <4>2. "ERROR" \notin {PhaseStatus(q) : q \in AllPhases} /\ IsInterrupted("deploy") \in BOOLEAN
        BY PhaseShowsNoError DEF IsInterrupted
      <4>3. PhaseStatus(p) = "COMPLETE"
        BY <4>1, <4>2, ParentStatusType DEF PlanStatus
      <4> QED
        BY <4>3, PhaseShowsNoError DEF Complete
    <3>2. CASE ~\A q \in AllPhases : StepsRead(sn, q)
      <4> DEFINE kids == [q \in AllPhases |-> PhaseReadings(sn, q)]
      <4>1. PICK cands \in SUBSET {q \in AllPhases : kids[q] # {"COMPLETE"}} : \E bit \in BOOLEAN :
                "COMPLETE" \in StatusesRead(kids, cands, bit)
        BY <1>2, <3>2 DEF Readings, PlanReadings
      <4>2. \A q \in DOMAIN kids : "COMPLETE" \in kids[q]
        BY <4>1, CompleteWasMet
      <4>3. "COMPLETE" \in PhaseReadings(sn, p)
        BY <4>2
      <4> QED
        BY <4>3, PhaseReadComplete
    <3> QED
      BY <3>1, <3>2
  <2> QED
    BY <2>1, <2>2 DEF Steps
<1> QED
  BY <1>1, <1>2

(* A thread that reads the status of a phase or of the plan case by case,   *)
(* without a lock, while the driver's thread and the offer thread move its  *)
(* steps, shows COMPLETE only if every step is COMPLETE then, unless a      *)
(* command restarted one of them during the read.                           *)
THEOREM CompleteReadsAreTrue == Spec => []CompleteReadIsComplete
<1>1. PlansInv /\ SeenInv => CompleteReadIsComplete
  <2> SUFFICES ASSUME TypeOK, SeenInv, NEW e \in Parents
               PROVE  /\ cycle.at = "candidates" /\ "COMPLETE" \in Readings(seen.offers, e)
                            /\ Below(e) \cap seen.reopened = {} =>
                                \A s \in Below(e) : status[s] = "COMPLETE"
                      /\ Looking(http) /\ "COMPLETE" \in Readings(seen.http, e) =>
                            \A s \in Below(e) : status[s] = "COMPLETE"
    BY DEF PlansInv, CompleteReadIsComplete
  <2>1. Below(e) \subseteq Steps
    BY Names DEF Below, Parents
  <2> QED
    BY <2>1, ReadComplete DEF SeenInv
<1> QED
  BY <1>1, Invariant, SeenInvariant, PTL
=============================================================================
