------------------------ MODULE ConfigUpdateProofs --------------------------
(***************************************************************************)
(* Proofs about module ConfigUpdate, for any tasks, pods, deploy plan,      *)
(* configurations and number of updates.                                    *)
(***************************************************************************)
EXTENDS ConfigUpdate, TLAPS

-----------------------------------------------------------------------------
(* 1. The inductive invariant                                               *)

(* What the updater's steps leave for the ones that follow them.            *)
UpdateInv ==
    /\ phase \in {"relabel", "clear", "up"} => target # None
    /\ phase = "target" => configs[fresh] = candidate
    /\ phase \in {"store", "target"} /\ target # None => Valid(configs[target], candidate)
    /\ phase = "clear" => target \in needed /\ \A t \in Launched : info[t].config \in needed

IndInv == TypeOK /\ ReferencesExist /\ UpdateInv

(* A stored configuration has a template for every pod.                     *)
LEMMA TemplateType ==
    ASSUME StoredTypeOK, NEW c \in Stored, NEW p \in Pods
    PROVE  configs[c] \in ServiceSpecs /\ TemplateIn(c, p) \in Templates
<1>1. configs[c] \in ServiceSpecs
  BY DEF Stored, StoredTypeOK
<1> QED
  BY <1>1 DEF TemplateIn, ServiceSpecs, PodSpecs

(* A change of labels leaves the records well-typed, and the ids alone.     *)
LEMMA LabelsType ==
    ASSUME StoredTypeOK, NEW ts \in SUBSET Launched,
           info' = [t \in Tasks |-> IF t \in ts THEN info'[t] ELSE info[t]],
           \A t \in ts : info'[t] \in TaskInfos /\ info'[t].empty = info[t].empty,
           UNCHANGED <<configs, status>>, target' \in ConfigIds \cup {None}
    PROVE  StoredTypeOK' /\ Launched' = Launched
<1>1. \A t \in ts : t \in Tasks /\ info'[t] # None /\ info[t] # None
  BY ConfigUpdateAssumption DEF Launched
<1>2. \A t \in Tasks \ ts : info'[t] = info[t]
  OBVIOUS
<1>3. info' \in [Tasks -> TaskInfos \cup {None}]
  BY <1>1, <1>2 DEF StoredTypeOK
<1>4. \A t \in Tasks : info'[t] = None <=> info[t] = None
  BY <1>1, <1>2
<1> QED
  BY <1>1, <1>2, <1>3, <1>4 DEF StoredTypeOK, Launched

(* A launch leaves well-typed records of the tasks.                         *)
LEMMA LaunchType ==
    ASSUME StoredTypeOK, NEW recorded \in SUBSET Tasks, NEW ts \in SUBSET recorded, NEW c \in Stored,
           NEW template \in Templates, LaunchTasks(recorded, ts, c, template),
           \A t \in recorded \ ts : info[t] = None => status[t] = None,
           UNCHANGED <<configs, target>>
    PROVE  /\ StoredTypeOK'
           /\ Launched' = Launched \cup recorded
           /\ \A t \in recorded : info'[t].config = c
           /\ \A t \in Tasks \ recorded : info'[t] = info[t]
<1>1. ASSUME NEW t \in recorded
      PROVE  /\ NewTaskInfo(c, template, t \in ts) \in TaskInfos
             /\ NewTaskInfo(c, template, t \in ts).config = c
             /\ t \notin ts => NewTaskInfo(c, template, t \in ts).empty
  BY DEF NewTaskInfo, TaskInfos, Stored
<1>2. "staging" \in TaskStates
  BY DEF TaskStates
<1>3. /\ info' \in [Tasks -> TaskInfos \cup {None}]
      /\ status' \in [Tasks -> TaskStates \cup {None}]
  BY <1>1, <1>2 DEF LaunchTasks, StoredTypeOK
<1>4. ASSUME NEW t \in recorded
      PROVE  /\ info'[t].config = c /\ info'[t] # None
             /\ IF t \in ts THEN status'[t] # None ELSE status'[t] = status[t] /\ info'[t].empty
  BY <1>1, <1>2, ConfigUpdateAssumption DEF LaunchTasks
<1>5. ASSUME NEW t \in Tasks \ recorded
      PROVE  info'[t] = info[t] /\ status'[t] = status[t]
  BY DEF LaunchTasks
<1> QED
  BY <1>3, <1>4, <1>5 DEF StoredTypeOK, Launched

(* Filling in ids that are missing changes nothing that matters here.       *)
LEMMA RepairType ==
    ASSUME StoredTypeOK, ReferencesExist, RepairTaskIDs, UNCHANGED <<configs, target>>
    PROVE  /\ StoredTypeOK' /\ ReferencesExist' /\ Launched' = Launched
           /\ \A t \in Launched : info'[t].config = info[t].config
<1> DEFINE torn == {t \in Launched : info[t].empty /\ status[t] # None}
<1>1. /\ info' = [t \in Tasks |-> IF t \in torn THEN [info[t] EXCEPT !.empty = FALSE] ELSE info[t]]
      /\ status' = [t \in Tasks |-> IF t \in torn THEN "failed" ELSE status[t]]
  BY DEF RepairTaskIDs
<1>2. ASSUME NEW t \in torn
      PROVE  /\ info'[t] \in TaskInfos /\ info'[t].config = info[t].config
             /\ status'[t] \in TaskStates /\ status'[t] # None /\ info[t] # None
  <2>1. info[t] \in TaskInfos /\ info[t] # None /\ t \in Tasks
    BY DEF Launched, StoredTypeOK
  <2>2. info'[t] = [info[t] EXCEPT !.empty = FALSE] /\ status'[t] = "failed"
    BY <1>1, <2>1
  <2>3. info'[t] \in TaskInfos /\ info'[t].config = info[t].config
    BY <2>1, <2>2 DEF TaskInfos
  <2>4. "failed" \in TaskStates /\ None \notin TaskStates
    BY ConfigUpdateAssumption DEF TaskStates
  <2> QED
    BY <2>1, <2>2, <2>3, <2>4
<1>3. \A t \in Tasks \ torn : info'[t] = info[t] /\ status'[t] = status[t]
  BY <1>1
<1>4. Launched' = Launched
  BY <1>2, <1>3, ConfigUpdateAssumption DEF Launched
<1>5. info' \in [Tasks -> TaskInfos \cup {None}] /\ status' \in [Tasks -> TaskStates \cup {None}]
  BY <1>1, <1>2, <1>3 DEF StoredTypeOK
<1> HIDE DEF torn
<1>6. \A t \in Launched : info'[t].config = info[t].config
  BY <1>2, <1>3 DEF Launched
<1>7. StoredTypeOK'
  BY <1>2, <1>3, <1>5, ConfigUpdateAssumption DEF StoredTypeOK
<1>8. ReferencesExist'
  BY <1>4, <1>6 DEF ReferencesExist, Stored
<1> QED
  BY <1>4, <1>6, <1>7, <1>8

LEMMA InitIndInv == Init => IndInv
<1> SUFFICES ASSUME Init PROVE IndInv
  OBVIOUS
<1>1. StoredTypeOK
  BY DEF Init, StoredTypeOK
<1>2. UpdateTypeOK
  BY DEF Init, UpdateTypeOK
<1>3. PlansTypeOK
  BY DEF Init, PlansTypeOK, Statuses
<1>4. ReferencesExist
  BY DEF Init, ReferencesExist, Launched
<1>5. UpdateInv
  BY DEF Init, UpdateInv
<1> QED
  BY <1>1, <1>2, <1>3, <1>4, <1>5 DEF IndInv, TypeOK

-----------------------------------------------------------------------------
(* 2. The update                                                            *)

LEMMA StartStep == IndInv /\ Start => IndInv'
<1> SUFFICES ASSUME IndInv, Start PROVE IndInv'
  OBVIOUS
<1>1. UNCHANGED <<configs, target, fresh, needed, step, recovery>>
  BY DEF Start, planVars
<1>2. phase = "down" /\ candidate = None /\ fresh = None
  BY DEF Start, IndInv, TypeOK, UpdateTypeOK
<1>3. unreadable' \subseteq ConfigIds
  BY DEF Start, Stored
<1>4. StoredTypeOK' /\ PlansTypeOK' /\ ReferencesExist'
  <2>1. StoredTypeOK' /\ ReferencesExist' /\ Launched' = Launched
    BY <1>1, RepairType DEF Start, IndInv, TypeOK
  <2> QED
    BY <1>1, <2>1 DEF IndInv, TypeOK, PlansTypeOK, PodTasks
<1>5. PICK spec \in ServiceSpecs :
         IF Accepts(spec) THEN candidate' = spec /\ phase' = "store"
         ELSE UNCHANGED candidate /\ phase' = "relabel"
  BY DEF Start
<1>6. CASE Accepts(spec)
  <2>1. candidate' = spec /\ phase' = "store"
    BY <1>5, <1>6
  <2>2. UpdateTypeOK'
    BY <1>1, <1>2, <1>3, <2>1, ConfigUpdateAssumption DEF IndInv, TypeOK, UpdateTypeOK
  <2>3. UpdateInv'
    BY <1>1, <1>6, <2>1 DEF UpdateInv, Accepts, Valid
  <2> QED
    BY <1>4, <2>2, <2>3 DEF IndInv, TypeOK
<1>7. CASE ~Accepts(spec)
  <2>1. candidate' = None /\ phase' = "relabel"
    BY <1>2, <1>5, <1>7
  <2>2. UpdateTypeOK'
    BY <1>1, <1>2, <1>3, <2>1 DEF IndInv, TypeOK, UpdateTypeOK
  <2>3. UpdateInv'
    BY <1>1, <1>7, <2>1 DEF UpdateInv, Accepts
  <2> QED
    BY <1>4, <2>2, <2>3 DEF IndInv, TypeOK
<1> QED
  BY <1>6, <1>7

LEMMA StoreStep == IndInv /\ Store => IndInv'
<1> SUFFICES ASSUME IndInv, Store PROVE IndInv'
  OBVIOUS
<1>1. PICK c \in ConfigIds \ (Stored \cup {info[t].config : t \in Launched}) :
         configs' = [configs EXCEPT ![c] = candidate] /\ fresh' = c
  BY DEF Store
<1>2. UNCHANGED <<target, info, status, candidate, unreadable, needed, step, recovery>>
  BY DEF Store, planVars
<1>3. phase = "store" /\ phase' = "target" /\ candidate \in ServiceSpecs /\ candidate # None
  BY ConfigUpdateAssumption DEF Store, IndInv, TypeOK, UpdateTypeOK
<1>4. StoredTypeOK' /\ PlansTypeOK'
  BY <1>1, <1>2, <1>3 DEF IndInv, TypeOK, StoredTypeOK, PlansTypeOK, Launched
<1>5. UpdateTypeOK'
  BY <1>1, <1>2, <1>3, ConfigUpdateAssumption DEF IndInv, TypeOK, UpdateTypeOK
<1>6. Stored' = Stored \cup {c} /\ \A d \in Stored : configs'[d] = configs[d]
  BY <1>1, <1>3 DEF Stored, IndInv, TypeOK, StoredTypeOK
<1>7. ReferencesExist'
  BY <1>2, <1>6 DEF IndInv, ReferencesExist, Launched
<1>8. UpdateInv'
  <2>1. configs'[fresh'] = candidate'
    BY <1>1, <1>2 DEF IndInv, TypeOK, StoredTypeOK
  <2>2. target' # None => Valid(configs'[target'], candidate')
    BY <1>2, <1>3, <1>6 DEF IndInv, ReferencesExist, UpdateInv
  <2> QED
    BY <1>3, <2>1, <2>2 DEF UpdateInv
<1> QED
  BY <1>4, <1>5, <1>7, <1>8 DEF IndInv, TypeOK

LEMMA SetTargetStep == IndInv /\ SetTarget => IndInv'
<1> SUFFICES ASSUME IndInv, SetTarget PROVE IndInv'
  OBVIOUS
<1>1. UNCHANGED <<configs, info, status, unreadable, needed, step, recovery>>
  BY DEF SetTarget, planVars
<1>2. phase' = "relabel" /\ fresh' = None /\ candidate' = None
  BY DEF SetTarget
<1>3. target' \in Stored /\ target' # None
  BY ConfigUpdateAssumption
     DEF SetTarget, IndInv, TypeOK, StoredTypeOK, UpdateTypeOK, UpdateInv, Stored
<1>4. StoredTypeOK' /\ PlansTypeOK'
  BY <1>1, <1>3 DEF IndInv, TypeOK, StoredTypeOK, PlansTypeOK, Launched, Stored
<1>5. UpdateTypeOK'
  BY <1>1, <1>2 DEF IndInv, TypeOK, UpdateTypeOK
<1>6. ReferencesExist'
  BY <1>1, <1>3 DEF IndInv, ReferencesExist, Launched, Stored
<1>7. UpdateInv'
  BY <1>2, <1>3 DEF UpdateInv
<1> QED
  BY <1>4, <1>5, <1>6, <1>7 DEF IndInv, TypeOK

LEMMA RelabelStep == IndInv /\ Relabel => IndInv'
<1> SUFFICES ASSUME IndInv, Relabel PROVE IndInv'
  OBVIOUS
<1> DEFINE current == {t \in Launched : Readable(info[t].config) /\ ~NeedsConfigUpdate(t)}
<1>1. UNCHANGED <<configs, target, status, candidate, fresh, unreadable, step, recovery>>
  BY DEF Relabel, planVars
<1>2. phase = "relabel" /\ phase' = "clear"
  BY DEF Relabel
<1>3. target \in Stored /\ target # None
  BY <1>2 DEF IndInv, UpdateInv, ReferencesExist
<1>4. /\ info' = [t \in Tasks |-> IF t \in current THEN [info[t] EXCEPT !.config = target] ELSE info[t]]
      /\ needed' = InUse(Launched \ current)
  BY DEF Relabel
<1>5. ASSUME NEW t \in current
      PROVE  info'[t] \in TaskInfos /\ info'[t].config = target /\ info'[t].empty = info[t].empty
  <2>1. info[t] \in TaskInfos /\ t \in Tasks
    BY DEF Launched, IndInv, TypeOK, StoredTypeOK
  <2>2. info'[t] = [info[t] EXCEPT !.config = target]
    BY <1>4, <2>1
  <2> QED
    BY <1>3, <2>1, <2>2 DEF TaskInfos, Stored
<1>6. \A t \in Tasks \ current : info'[t] = info[t]
  BY <1>4
<1>7. current \subseteq Launched /\ target' \in ConfigIds
  BY <1>1, <1>3 DEF Stored
<1>8. info' = [t \in Tasks |-> IF t \in current THEN info'[t] ELSE info[t]]
  BY <1>4
<1> HIDE DEF current
<1>9. StoredTypeOK' /\ Launched' = Launched
  BY <1>1, <1>5, <1>7, <1>8, LabelsType DEF IndInv, TypeOK
<1>10. PlansTypeOK'
  BY <1>1, <1>9 DEF IndInv, TypeOK, PlansTypeOK, PodTasks
<1>11. ASSUME NEW t \in Launched \ current PROVE info[t].config \in ConfigIds
  BY DEF Launched, IndInv, TypeOK, StoredTypeOK, TaskInfos
<1>12. UpdateTypeOK'
  <2>1. needed' \subseteq ConfigIds
    BY <1>3, <1>4, <1>11 DEF InUse, Stored, IndInv, TypeOK, UpdateTypeOK
  <2> QED
    BY <1>1, <1>2, <2>1 DEF IndInv, TypeOK, UpdateTypeOK
<1>13. ReferencesExist'
  <2>1. Stored' = Stored
    BY <1>1 DEF Stored
  <2>2. \A t \in Launched : info'[t].config \in Stored
    BY <1>3, <1>5, <1>6 DEF IndInv, ReferencesExist, Launched
  <2> QED
    BY <1>1, <1>3, <1>9, <2>1, <2>2 DEF ReferencesExist
<1>14. UpdateInv'
  BY <1>1, <1>2, <1>3, <1>4, <1>5, <1>6, <1>7, <1>9 DEF UpdateInv, InUse, Launched
<1> QED
  BY <1>9, <1>10, <1>12, <1>13, <1>14 DEF IndInv, TypeOK

LEMMA ClearStep == ASSUME NEW c \in ConfigIds, IndInv, Clear(c) PROVE IndInv'
<1>1. UNCHANGED <<target, info, status, phase, candidate, fresh, unreadable, needed, step, recovery>>
  BY DEF Clear, updateVars, planVars
<1>2. phase = "clear" /\ c \notin needed /\ configs' = [configs EXCEPT ![c] = None]
  BY DEF Clear
<1>3. Stored' = Stored \ {c}
  BY <1>2 DEF Stored, IndInv, TypeOK, StoredTypeOK
<1>4. TypeOK'
  BY <1>1, <1>2 DEF IndInv, TypeOK, StoredTypeOK, UpdateTypeOK, PlansTypeOK, Launched
<1>5. ReferencesExist'
  BY <1>1, <1>2, <1>3 DEF IndInv, UpdateInv, ReferencesExist, Launched
<1>6. UpdateInv'
  BY <1>1, <1>2 DEF IndInv, UpdateInv, Launched
<1> QED
  BY <1>4, <1>5, <1>6 DEF IndInv

LEMMA BuildPlansStep == IndInv /\ BuildPlans => IndInv'
<1> SUFFICES ASSUME IndInv, BuildPlans PROVE IndInv'
  OBVIOUS
<1>1. UNCHANGED <<configs, target, info, status, candidate, fresh, unreadable, recovery>>
  BY DEF BuildPlans, storedVars
<1>2. phase = "clear" /\ phase' = "up" /\ needed' = {}
  BY DEF BuildPlans
<1>3. step' \in [Steps -> Statuses]
  BY DEF BuildPlans, InitialStatus, Statuses
<1>4. TypeOK'
  BY <1>1, <1>2, <1>3 DEF IndInv, TypeOK, StoredTypeOK, UpdateTypeOK, PlansTypeOK, Launched
<1>5. ReferencesExist' /\ UpdateInv'
  BY <1>1, <1>2 DEF IndInv, UpdateInv, ReferencesExist, Launched, Stored
<1> QED
  BY <1>4, <1>5 DEF IndInv

LEMMA CrashStep == IndInv /\ Crash => IndInv'
<1> SUFFICES ASSUME IndInv, Crash PROVE IndInv'
  OBVIOUS
<1>1. UNCHANGED <<configs, target, info, status>>
  BY DEF Crash, storedVars
<1>2. /\ phase' = "down" /\ candidate' = None /\ fresh' = None
      /\ unreadable' = {} /\ needed' = {} /\ recovery' = {}
  BY DEF Crash, Exit
<1>3. step' \in [Steps -> Statuses]
  BY DEF Crash, Exit, Statuses
<1>4. TypeOK'
  BY <1>1, <1>2, <1>3 DEF IndInv, TypeOK, StoredTypeOK, UpdateTypeOK, PlansTypeOK
<1>5. ReferencesExist' /\ UpdateInv'
  BY <1>1, <1>2 DEF IndInv, UpdateInv, ReferencesExist, Launched, Stored
<1> QED
  BY <1>4, <1>5 DEF IndInv

-----------------------------------------------------------------------------
(* 3. The plans at work                                                     *)

(* While the process is up, the updater's variables do not change.          *)
LEMMA UpUpdateType ==
    ASSUME UpdateTypeOK, UNCHANGED <<phase, updateVars>>
    PROVE  UpdateTypeOK'
<1> QED
  BY DEF UpdateTypeOK, updateVars

LEMMA UpUpdateInv ==
    ASSUME UpdateInv, phase = "up", UNCHANGED <<phase, target>>
    PROVE  UpdateInv'
<1> QED
  BY DEF UpdateInv

LEMMA PrepareDeployStep == ASSUME NEW s \in Steps, IndInv, PrepareDeploy(s) PROVE IndInv'
<1>1. UNCHANGED <<configs, target, info, status, phase, updateVars, recovery>> /\ phase = "up"
  BY DEF PrepareDeploy, storedVars
<1>2. step' \in [Steps -> Statuses]
  BY DEF PrepareDeploy, Statuses, IndInv, TypeOK, PlansTypeOK
<1>3. UpdateTypeOK' /\ UpdateInv'
  BY <1>1, UpUpdateType, UpUpdateInv DEF IndInv, TypeOK
<1>4. StoredTypeOK' /\ PlansTypeOK' /\ ReferencesExist'
  BY <1>1, <1>2 DEF IndInv, TypeOK, StoredTypeOK, PlansTypeOK, ReferencesExist, Launched, Stored
<1> QED
  BY <1>3, <1>4 DEF IndInv, TypeOK

LEMMA DeployStep == ASSUME NEW s \in Steps, IndInv, Deploy(s) PROVE IndInv'
<1>1. UNCHANGED <<configs, target, phase, updateVars, recovery>> /\ phase = "up"
  BY DEF Deploy
<1>2. target \in Stored
  BY <1>1 DEF IndInv, UpdateInv, ReferencesExist
<1>3. PICK p \in Pods :
         /\ s \subseteq PodTasks(p)
         /\ LaunchTasks(Recorded(p, s, FALSE), s, target, TemplateIn(target, p))
  BY DEF Deploy
<1> DEFINE recorded == Recorded(p, s, FALSE)
<1>4. s \subseteq recorded /\ recorded \subseteq PodTasks(p) /\ PodTasks(p) \subseteq Tasks
  BY <1>3 DEF Recorded, PodTasks
<1>5. TemplateIn(target, p) \in Templates
  BY <1>2, TemplateType DEF IndInv, TypeOK
<1> HIDE DEF recorded
<1>6. /\ StoredTypeOK'
      /\ Launched' = Launched \cup recorded
      /\ \A t \in recorded : info'[t].config = target
      /\ \A t \in Tasks \ recorded : info'[t] = info[t]
  <2>1. \A t \in recorded \ s : info[t] = None => status[t] = None
    BY <1>4 DEF IndInv, TypeOK, StoredTypeOK
  <2>2. LaunchTasks(recorded, s, target, TemplateIn(target, p))
    BY <1>3 DEF recorded
  <2> QED
    BY <1>1, <1>2, <1>4, <1>5, <2>1, <2>2, LaunchType DEF IndInv, TypeOK
<1>7. PlansTypeOK'
  <2>1. step' \in [Steps -> Statuses]
    BY DEF Deploy, Statuses, IndInv, TypeOK, PlansTypeOK
  <2> QED
    BY <1>1, <1>6, <2>1 DEF IndInv, TypeOK, PlansTypeOK, PodTasks
<1>8. ReferencesExist'
  BY <1>1, <1>2, <1>4, <1>6 DEF IndInv, ReferencesExist, Launched, Stored
<1>9. UpdateTypeOK' /\ UpdateInv'
  BY <1>1, UpUpdateType, UpUpdateInv DEF IndInv, TypeOK
<1> QED
  BY <1>6, <1>7, <1>8, <1>9 DEF IndInv, TypeOK

(* Labelling a task as permanently failed changes nothing that matters      *)
(* here.                                                                    *)
LEMMA LabelFailed ==
    ASSUME StoredTypeOK, ReferencesExist, NEW ts \in SUBSET Launched,
           info' = [t \in Tasks |-> IF t \in ts THEN [info[t] EXCEPT !.failed = TRUE] ELSE info[t]],
           UNCHANGED <<configs, target, status>>
    PROVE  StoredTypeOK' /\ ReferencesExist' /\ Launched' = Launched
<1>1. ASSUME NEW t \in ts
      PROVE  /\ info'[t] \in TaskInfos
             /\ info'[t].config = info[t].config
             /\ info'[t].empty = info[t].empty
  <2>1. info[t] \in TaskInfos /\ t \in Tasks
    BY DEF Launched, StoredTypeOK
  <2>2. info'[t] = [info[t] EXCEPT !.failed = TRUE]
    BY <2>1
  <2> QED
    BY <2>1, <2>2 DEF TaskInfos
<1>2. \A t \in Tasks \ ts : info'[t] = info[t]
  OBVIOUS
<1>3. info' = [t \in Tasks |-> IF t \in ts THEN info'[t] ELSE info[t]]
  OBVIOUS
<1>4. target' \in ConfigIds \cup {None}
  BY DEF StoredTypeOK
<1>5. StoredTypeOK' /\ Launched' = Launched
  BY <1>1, <1>3, <1>4, LabelsType
<1>6. ReferencesExist'
  BY <1>1, <1>2, <1>5 DEF ReferencesExist, Launched, Stored
<1> QED
  BY <1>5, <1>6

LEMMA SetPermanentlyFailedType ==
    ASSUME StoredTypeOK, ReferencesExist, NEW p, SetPermanentlyFailed(p), UNCHANGED <<configs, target, status>>
    PROVE  StoredTypeOK' /\ ReferencesExist' /\ Launched' = Launched
<1> DEFINE ts == Launched \cap PodTasks(p)
<1>1. info' = [t \in Tasks |-> IF t \in ts THEN [info[t] EXCEPT !.failed = TRUE] ELSE info[t]]
  BY DEF SetPermanentlyFailed
<1>2. ts \subseteq Launched
  OBVIOUS
<1> HIDE DEF ts
<1> QED
  BY <1>1, <1>2, LabelFailed

LEMMA ReplaceStep == ASSUME NEW p \in Pods, IndInv, Replace(p) PROVE IndInv'
<1>1. UNCHANGED <<configs, target, status, phase, updateVars, step, recovery>> /\ phase = "up"
  BY DEF Replace, planVars
<1>2. StoredTypeOK' /\ ReferencesExist' /\ Launched' = Launched
  BY <1>1, SetPermanentlyFailedType DEF Replace, IndInv, TypeOK
<1>3. PlansTypeOK'
  BY <1>1, <1>2 DEF IndInv, TypeOK, PlansTypeOK, PodTasks
<1>4. UpdateTypeOK' /\ UpdateInv'
  BY <1>1, UpUpdateType, UpUpdateInv DEF IndInv, TypeOK
<1> QED
  BY <1>2, <1>3, <1>4 DEF IndInv, TypeOK

LEMMA PlanRecoveryStep == ASSUME NEW p \in Pods, IndInv, PlanRecovery(p) PROVE IndInv'
<1>1. UNCHANGED <<configs, target, info, status, phase, updateVars, step>> /\ phase = "up"
  BY DEF PlanRecovery, storedVars
<1> DEFINE tasks == ToRelaunch(p)
           new(first) == [pod |-> p,
                          tasks |-> tasks,
                          template |-> TemplateIn(info[first].config, p),
                          type |-> RecoveryType(tasks),
                          state |-> "pending"]
<1>2. PICK first \in FailedTasks(p) :
         /\ new(first).type # "none"
         /\ recovery' = (recovery \ {r \in recovery : r.tasks \cap tasks # {}}) \cup {new(first)}
  BY DEF PlanRecovery
<1>3. tasks \subseteq (Launched \cap PodTasks(p)) \ Once /\ first \in Launched
  BY DEF ToRelaunch, FailedTasks, PodTasks, Launched, IndInv, TypeOK, StoredTypeOK
<1>4. StoredTypeOK' /\ ReferencesExist' /\ Launched' = Launched
  BY <1>1 DEF IndInv, TypeOK, StoredTypeOK, ReferencesExist, Launched, Stored
<1>5. new(first) \in RecoverySteps
  <2>1. info[first].config \in Stored
    BY <1>3 DEF IndInv, ReferencesExist
  <2>2. TemplateIn(info[first].config, p) \in Templates
    BY <2>1, TemplateType DEF IndInv, TypeOK
  <2>3. tasks \subseteq Tasks
    BY <1>3 DEF Launched
  <2>4. RecoveryType(tasks) \in {"permanent", "transient"}
    BY <1>2 DEF RecoveryType
  <2> HIDE DEF tasks
  <2> QED
    BY <2>2, <2>3, <2>4 DEF RecoverySteps, Statuses
<1>6. PlansTypeOK'
  <2>1. new(first).tasks = tasks /\ new(first).pod = p
    OBVIOUS
  <2> HIDE DEF new, tasks
  <2> QED
    BY <1>1, <1>2, <1>3, <1>4, <1>5, <2>1 DEF IndInv, TypeOK, PlansTypeOK, PodTasks
<1>7. UpdateTypeOK' /\ UpdateInv'
  BY <1>1, UpUpdateType, UpUpdateInv DEF IndInv, TypeOK
<1> QED
  BY <1>4, <1>6, <1>7 DEF IndInv, TypeOK

(* A recovery step that moves on stays well-typed.                          *)
LEMMA RecoveryMoves ==
    ASSUME PlansTypeOK, NEW r \in recovery, NEW st \in {"prepared", "starting"},
           recovery' = (recovery \ {r}) \cup {[r EXCEPT !.state = st]},
           Launched \subseteq Launched', UNCHANGED step
    PROVE  PlansTypeOK'
<1>1. r \in RecoverySteps /\ r.tasks \subseteq (Launched \cap PodTasks(r.pod)) \ Once
  BY DEF PlansTypeOK
<1>2. /\ [r EXCEPT !.state = st] \in RecoverySteps
      /\ [r EXCEPT !.state = st].tasks = r.tasks
      /\ [r EXCEPT !.state = st].pod = r.pod
  BY <1>1 DEF RecoverySteps, Statuses
<1> QED
  BY <1>1, <1>2 DEF PlansTypeOK, PodTasks

LEMMA PrepareRecoveryStep == ASSUME NEW r \in recovery, IndInv, PrepareRecovery(r) PROVE IndInv'
<1>1. UNCHANGED <<configs, target, status, phase, updateVars, step>> /\ phase = "up"
  BY DEF PrepareRecovery
<1>2. StoredTypeOK' /\ ReferencesExist' /\ Launched' = Launched
  <2>1. CASE SetPermanentlyFailed(r.pod)
    BY <1>1, <2>1, SetPermanentlyFailedType DEF IndInv, TypeOK
  <2>2. CASE UNCHANGED info
    BY <1>1, <2>2 DEF IndInv, TypeOK, StoredTypeOK, ReferencesExist, Launched, Stored
  <2> QED
    BY <2>1, <2>2 DEF PrepareRecovery
<1>3. PlansTypeOK'
  BY <1>1, <1>2, RecoveryMoves DEF PrepareRecovery, IndInv, TypeOK
<1>4. UpdateTypeOK' /\ UpdateInv'
  BY <1>1, UpUpdateType, UpUpdateInv DEF IndInv, TypeOK
<1> QED
  BY <1>2, <1>3, <1>4 DEF IndInv, TypeOK

LEMMA RecoverStep == ASSUME NEW r \in recovery, IndInv, Recover(r) PROVE IndInv'
<1>1. UNCHANGED <<configs, target, phase, updateVars, step>> /\ phase = "up"
  BY DEF Recover
<1> DEFINE recorded == Recorded(r.pod, r.tasks, r.type = "permanent")
<1>2. PICK t \in Launched : LaunchTasks(recorded, r.tasks, info[t].config, r.template)
  BY DEF Recover
<1>3. r \in RecoverySteps /\ r.tasks \subseteq (Launched \cap PodTasks(r.pod)) \ Once
  BY DEF IndInv, TypeOK, PlansTypeOK
<1>4. r.tasks \subseteq recorded /\ recorded \subseteq Tasks /\ r.template \in Templates
  BY <1>3 DEF Recorded, PodTasks, RecoverySteps
<1>5. info[t].config \in Stored
  BY DEF IndInv, ReferencesExist
<1> HIDE DEF recorded
<1>6. /\ StoredTypeOK'
      /\ Launched' = Launched \cup recorded
      /\ \A u \in recorded : info'[u].config = info[t].config
      /\ \A u \in Tasks \ recorded : info'[u] = info[u]
  <2>1. \A u \in recorded \ r.tasks : info[u] = None => status[u] = None
    BY <1>4 DEF IndInv, TypeOK, StoredTypeOK
  <2> QED
    BY <1>1, <1>2, <1>4, <1>5, <2>1, LaunchType DEF IndInv, TypeOK
<1>7. PlansTypeOK'
  BY <1>1, <1>6, RecoveryMoves DEF Recover, IndInv, TypeOK
<1>8. ReferencesExist'
  BY <1>1, <1>4, <1>5, <1>6 DEF IndInv, ReferencesExist, Launched, Stored
<1>9. UpdateTypeOK' /\ UpdateInv'
  BY <1>1, UpUpdateType, UpUpdateInv DEF IndInv, TypeOK
<1> QED
  BY <1>6, <1>7, <1>8, <1>9 DEF IndInv, TypeOK

LEMMA StatusUpdateStep ==
    ASSUME NEW t \in Tasks, NEW st \in TaskStates, IndInv, StatusUpdate(t, st)
    PROVE  IndInv'
<1>1. UNCHANGED <<configs, target, info, phase, updateVars>> /\ phase = "up"
  BY DEF StatusUpdate
<1>2. status' = [status EXCEPT ![t] = st] /\ status[t] # None
  BY ConfigUpdateAssumption DEF StatusUpdate, TaskStates
<1>3. StoredTypeOK' /\ ReferencesExist'
  BY <1>1, <1>2, ConfigUpdateAssumption DEF IndInv, TypeOK, StoredTypeOK, ReferencesExist, Launched, Stored
<1>4. ASSUME NEW ts, NEW old \in Statuses PROVE StepStatus(ts, old, t, st) \in Statuses
  BY <1>4 DEF StepStatus, Statuses
<1>5. PlansTypeOK'
  <2>1. step' \in [Steps -> Statuses]
    BY <1>4 DEF StatusUpdate, IndInv, TypeOK, PlansTypeOK
  <2>2. ASSUME NEW r \in recovery'
        PROVE  r \in RecoverySteps /\ r.tasks \subseteq (Launched \cap PodTasks(r.pod)) \ Once
    <3>1. PICK q \in recovery : r = [q EXCEPT !.state = StepStatus(q.tasks, q.state, t, st)]
      BY DEF StatusUpdate
    <3>2. r.state # "complete"
      BY DEF StatusUpdate
    <3>3. q \in RecoverySteps /\ q.tasks \subseteq (Launched \cap PodTasks(q.pod)) \ Once
      BY DEF IndInv, TypeOK, PlansTypeOK
    <3>4. StepStatus(q.tasks, q.state, t, st) \in Statuses
      BY <1>4, <3>3 DEF RecoverySteps
    <3>5. r.state = StepStatus(q.tasks, q.state, t, st) /\ r.tasks = q.tasks /\ r.pod = q.pod
      BY <3>1, <3>3 DEF RecoverySteps
    <3> QED
      BY <3>1, <3>2, <3>3, <3>4, <3>5 DEF RecoverySteps
  <2> QED
    BY <1>1, <2>1, <2>2 DEF PlansTypeOK, Launched, PodTasks
<1>6. UpdateTypeOK' /\ UpdateInv'
  BY <1>1, UpUpdateType, UpUpdateInv DEF IndInv, TypeOK
<1> QED
  BY <1>3, <1>5, <1>6 DEF IndInv, TypeOK

-----------------------------------------------------------------------------
(* 4. The theorems                                                          *)

LEMMA NextIndInv == IndInv /\ [Next]_vars => IndInv'
<1> SUFFICES ASSUME IndInv, [Next]_vars PROVE IndInv'
  OBVIOUS
<1>1. CASE StartUp
  BY <1>1, StartStep, StoreStep, SetTargetStep, RelabelStep, ClearStep, BuildPlansStep DEF StartUp
<1>2. CASE Plans
  BY <1>2, PrepareDeployStep, DeployStep, PlanRecoveryStep, PrepareRecoveryStep, RecoverStep DEF Plans
<1>3. CASE Crash
  BY <1>3, CrashStep
<1>4. CASE \E t \in Tasks, st \in TaskStates \ {"staging"} : StatusUpdate(t, st)
  BY <1>4, StatusUpdateStep
<1>5. CASE \E p \in Pods : Replace(p)
  BY <1>5, ReplaceStep
<1>6. CASE UNCHANGED vars
  BY <1>6 DEF vars, storedVars, updateVars, planVars, IndInv, TypeOK, StoredTypeOK, UpdateTypeOK,
              PlansTypeOK, ReferencesExist, UpdateInv, Launched, Stored, PodTasks
<1> QED
  BY <1>1, <1>2, <1>3, <1>4, <1>5, <1>6 DEF Next

LEMMA Invariant == Spec => []IndInv
<1> QED
  BY InitIndInv, NextIndInv, PTL DEF Spec

(* Every value stays in its type, and the updater's variables are set       *)
(* exactly while updateConfiguration is at the steps that use them.         *)
THEOREM TypeCorrect == Spec => []TypeOK
<1>1. IndInv => TypeOK
  BY DEF IndInv
<1> QED
  BY <1>1, Invariant, PTL

(* Cut off anywhere, any number of times, and with configurations that it   *)
(* cannot parse, the clean-up never drops the target or a configuration     *)
(* that a task refers to.                                                   *)
THEOREM ReferencesKept == Spec => []ReferencesExist
<1>1. IndInv => ReferencesExist
  BY DEF IndInv
<1> QED
  BY <1>1, Invariant, PTL

(* The target is only ever replaced by a configuration that the validators  *)
(* allow to follow it: it is not changed between the validation and the     *)
(* write, although these are three steps.                                   *)
THEOREM TargetsOnlyValid == Spec => TargetsValid
<1>1. ASSUME IndInv, IndInv', [Next]_vars, target # None, target' # target
      PROVE  Valid(configs[target], configs'[target'])
  <2>1. SetTarget
    BY <1>1 DEF Next, StartUp, Plans, Start, Store, SetTarget, Relabel, Clear, BuildPlans, PrepareDeploy,
                Deploy, PlanRecovery, PrepareRecovery, Recover, Crash, StatusUpdate, Replace, vars, storedVars
  <2>2. configs' = configs /\ target' = fresh /\ phase = "target"
    BY <2>1 DEF SetTarget
  <2>3. configs[fresh] = candidate /\ Valid(configs[target], candidate)
    BY <1>1, <2>2 DEF IndInv, UpdateInv
  <2> QED
    BY <2>2, <2>3
<1>2. IndInv /\ IndInv' /\ [Next]_vars
      => [target # None /\ target' # target => Valid(configs[target], configs'[target'])]_vars
  BY <1>1
<1> QED
  BY <1>2, Invariant, PTL DEF Spec, TargetsValid

(* The update never gives a task the label of a configuration that it is    *)
(* not made from: only a task whose template is the target's is relabelled, *)
(* and no configuration that a label names is written or dropped.           *)
THEOREM LabelsKept == Spec => UpdateKeepsMatches
<1>1. ASSUME IndInv, [Next]_vars, phase # "up", NEW t \in Launched, Matches(t)
      PROVE  Matches(t)'
  <2>1. info[t] \in TaskInfos /\ info[t].config \in Stored /\ t \in Tasks
    BY <1>1 DEF IndInv, TypeOK, StoredTypeOK, ReferencesExist, Launched
  <2>2. CASE info' = info /\ configs'[info[t].config] = configs[info[t].config]
    BY <1>1, <2>2 DEF Matches, TemplateIn
  <2>3. CASE Relabel
    <3>1. target # None /\ target \in Stored /\ configs' = configs
      BY <1>1, <2>3 DEF Relabel, IndInv, UpdateInv, ReferencesExist
    <3>2. CASE info'[t] = info[t]
      BY <1>1, <3>1, <3>2 DEF Matches, TemplateIn
    <3>3. CASE info'[t] = [info[t] EXCEPT !.config = target] /\ ~NeedsConfigUpdate(t)
      <4>1. /\ info'[t].config = target
            /\ info'[t].template = info[t].template
            /\ info'[t].failed = info[t].failed
        BY <2>1, <3>3 DEF TaskInfos
      <4> QED
        BY <1>1, <3>1, <3>3, <4>1 DEF Matches, TemplateIn, NeedsConfigUpdate
    <3> QED
      BY <2>1, <2>3, <3>2, <3>3 DEF Relabel
  <2>4. CASE Store
    <3>1. PICK c \in ConfigIds \ Stored : configs' = [configs EXCEPT ![c] = candidate]
      BY <2>4 DEF Store
    <3> QED
      BY <2>1, <2>2, <2>4, <3>1 DEF Store, Stored
  <2>5. ASSUME NEW c \in ConfigIds, Clear(c) PROVE Matches(t)'
    <3>1. info[t].config # c
      BY <1>1, <2>5 DEF Clear, IndInv, UpdateInv
    <3> QED
      BY <2>1, <2>2, <2>5, <3>1 DEF Clear, Stored
  <2>6. CASE Start
    <3>1. StoredTypeOK /\ ReferencesExist /\ UNCHANGED <<configs, target>>
      BY <1>1, <2>6 DEF Start, IndInv, TypeOK
    <3>2. info'[t] = info[t] \/ info'[t] = [info[t] EXCEPT !.empty = FALSE]
      BY <2>1, <2>6 DEF Start, RepairTaskIDs
    <3>3. /\ info'[t].config = info[t].config
          /\ info'[t].template = info[t].template
          /\ info'[t].failed = info[t].failed
      BY <2>1, <3>2 DEF TaskInfos
    <3> QED
      BY <1>1, <3>1, <3>3 DEF Matches, TemplateIn
  <2> QED
    BY <1>1, <2>2, <2>3, <2>4, <2>5, <2>6
       DEF Next, StartUp, Plans, SetTarget, BuildPlans, PrepareDeploy, Deploy, PlanRecovery,
           PrepareRecovery, Recover, Crash, StatusUpdate, Replace, vars, storedVars
<1>2. IndInv /\ [Next]_vars
      => [phase # "up" => \A t \in Launched : Matches(t) => Matches(t)']_vars
  BY <1>1
<1> QED
  BY <1>2, Invariant, PTL DEF Spec, UpdateKeepsMatches
-----------------------------------------------------------------------------
(* 5. What the update leaves behind                                         *)

(* During the clean-up: nothing is kept without a reason, and a task that   *)
(* has another label than the target's is to be updated, or is unreadable.  *)
CleanUpInv ==
    phase = "clear" =>
        /\ needed \subseteq {target} \cup unreadable \cup {info[t].config : t \in Launched}
        /\ \A t \in Launched :
              Readable(info[t].config) => info[t].config = target \/ NeedsConfigUpdate(t)

LEMMA RelabelCleanUp == IndInv /\ Relabel => CleanUpInv'
<1> SUFFICES ASSUME IndInv, Relabel PROVE CleanUpInv'
  OBVIOUS
<1> DEFINE current == {t \in Launched : Readable(info[t].config) /\ ~NeedsConfigUpdate(t)}
<1>1. UNCHANGED <<configs, target, unreadable>>
  BY DEF Relabel
<1>2. /\ info' = [t \in Tasks |-> IF t \in current THEN [info[t] EXCEPT !.config = target] ELSE info[t]]
      /\ needed' = InUse(Launched \ current)
  BY DEF Relabel
<1>3. \A t \in current : info[t] \in TaskInfos /\ info'[t] = [info[t] EXCEPT !.config = target]
  BY <1>2 DEF Launched, IndInv, TypeOK, StoredTypeOK
<1>4. \A t \in current : info'[t].config = target
  BY <1>3 DEF TaskInfos
<1>5. \A t \in Tasks \ current : info'[t] = info[t]
  BY <1>2
<1>6. Launched \ current \subseteq Launched' /\ Launched' \subseteq Launched
  BY <1>5, ConfigUpdateAssumption DEF Launched
<1>7. \A t \in Launched \ current : ~Readable(info[t].config) \/ NeedsConfigUpdate(t)
  OBVIOUS
<1> HIDE DEF current
<1>8. \A t \in Launched \ current :
         /\ t \in Tasks
         /\ Readable(info[t].config)' <=> Readable(info[t].config)
         /\ NeedsConfigUpdate(t)' <=> NeedsConfigUpdate(t)
  BY <1>1, <1>5 DEF Launched, Readable, Stored, NeedsConfigUpdate, TemplateIn
<1>9. needed' \subseteq {target'} \cup unreadable' \cup {info'[t].config : t \in Launched'}
  BY <1>1, <1>2, <1>5, <1>6 DEF InUse, Launched
<1>10. ASSUME NEW t \in Launched', Readable(info[t].config)'
       PROVE  info'[t].config = target' \/ NeedsConfigUpdate(t)'
  BY <1>1, <1>4, <1>6, <1>7, <1>8, <1>10
<1> QED
  BY <1>9, <1>10 DEF CleanUpInv

LEMMA ClearCleanUp == ASSUME NEW c \in ConfigIds, IndInv, CleanUpInv, Clear(c) PROVE CleanUpInv'
<1>1. UNCHANGED <<target, info, unreadable, needed>> /\ phase = "clear"
  BY DEF Clear, updateVars
<1>2. c \notin needed /\ configs' = [configs EXCEPT ![c] = None]
  BY DEF Clear
<1>3. target \in needed /\ \A t \in Launched : info[t].config \in needed
  BY <1>1 DEF IndInv, UpdateInv
<1>4. configs'[target] = configs[target]
      /\ \A t \in Launched : configs'[info[t].config] = configs[info[t].config]
  BY <1>2, <1>3 DEF IndInv, TypeOK, StoredTypeOK
<1>5. Launched' = Launched
  BY <1>1 DEF Launched
<1>6. ASSUME NEW t \in Launched
      PROVE  /\ Readable(info[t].config)' => Readable(info[t].config)
             /\ NeedsConfigUpdate(t)' <=> NeedsConfigUpdate(t)
  BY <1>1, <1>4 DEF Readable, Stored, NeedsConfigUpdate, TemplateIn
<1> QED
  BY <1>1, <1>5, <1>6 DEF CleanUpInv

LEMMA NextCleanUp == IndInv /\ CleanUpInv /\ [Next]_vars => CleanUpInv'
<1> SUFFICES ASSUME IndInv, CleanUpInv, [Next]_vars PROVE CleanUpInv'
  OBVIOUS
<1>1. CASE Relabel
  BY <1>1, RelabelCleanUp
<1>2. CASE \E c \in ConfigIds : Clear(c)
  BY <1>2, ClearCleanUp
<1>3. CASE Start \/ Store \/ SetTarget \/ BuildPlans \/ Crash
  <2>1. phase' # "clear"
    BY <1>3 DEF Start, Store, SetTarget, BuildPlans, Crash, Exit
  <2> QED
    BY <2>1 DEF CleanUpInv
<1>4. CASE \/ Plans \/ \E t \in Tasks, st \in TaskStates \ {"staging"} : StatusUpdate(t, st)
           \/ \E p \in Pods : Replace(p)
  <2>1. phase' # "clear"
    BY <1>4 DEF Plans, PrepareDeploy, Deploy, PlanRecovery, PrepareRecovery, Recover, StatusUpdate, Replace
  <2> QED
    BY <2>1 DEF CleanUpInv
<1>5. CASE UNCHANGED vars
  BY <1>5 DEF vars, storedVars, updateVars, CleanUpInv, Launched, Readable, Stored, NeedsConfigUpdate,
              TemplateIn
<1> QED
  BY <1>1, <1>2, <1>3, <1>4, <1>5 DEF Next, StartUp

LEMMA CleanUpInvariant == Spec => []CleanUpInv
<1>1. Init => CleanUpInv
  BY DEF Init, CleanUpInv
<1> QED
  BY <1>1, NextCleanUp, Invariant, PTL DEF Spec

(* The plans are made at the end of the clean-up, and at no other point.    *)
LEMMA UpByBuildPlans == [Next]_vars /\ phase # "up" /\ phase' = "up" => BuildPlans
BY DEF Next, StartUp, Plans, Start, Store, SetTarget, Relabel, Clear, PrepareDeploy, Deploy, PlanRecovery,
       PrepareRecovery, Recover, Crash, Exit, StatusUpdate, Replace, vars, storedVars, updateVars

(* When the plans are made, nothing is left of updates that were cut off,   *)
(* however often and wherever that was: what is stored is the target, what  *)
(* the label of some task names, or unreadable.                             *)
THEOREM NothingUnusedStays == Spec => UnusedDropped
<1>1. ASSUME IndInv, CleanUpInv, [Next]_vars, phase # "up", phase' = "up"
      PROVE  Stored \subseteq {target} \cup {info[t].config : t \in Launched} \cup unreadable
  <2>1. BuildPlans
    BY <1>1, UpByBuildPlans
  <2> QED
    BY <1>1, <2>1 DEF BuildPlans, CleanUpDone, CleanUpInv
<1>2. IndInv /\ CleanUpInv /\ [Next]_vars
      => [phase # "up" /\ phase' = "up" =>
             Stored \subseteq {target} \cup {info[t].config : t \in Launched} \cup unreadable]_vars
  BY <1>1
<1> QED
  BY <1>2, Invariant, CleanUpInvariant, PTL DEF Spec, UnusedDropped

(* A running pod that the new target changes in nothing but its count is    *)
(* not deployed again: the step for it is complete from the start, whatever *)
(* label its tasks had and wherever earlier updates were cut off.           *)
THEOREM UnaffectedStays == Spec => UnaffectedLeftAlone
<1> DEFINE Unaffected(s) ==
              /\ s # {}
              /\ \A t \in s :
                    /\ t \in Launched
                    /\ Readable(info[t].config)
                    /\ AtGoal(t, status[t])
                    /\ Matches(t)
                    /\ info[t].template = TemplateIn(target, PodOf[t])
<1>1. ASSUME IndInv, CleanUpInv, [Next]_vars, phase # "up", phase' = "up", NEW s \in Steps, Unaffected(s)
      PROVE  step'[s] = "complete"
  <2>1. BuildPlans
    BY <1>1, UpByBuildPlans
  <2>2. step'[s] = InitialStatus(s) /\ phase = "clear"
    BY <2>1 DEF BuildPlans
  <2>3. ASSUME NEW t \in s
        PROVE  (OnTarget(t) /\ AtGoal(t, status[t])) \/ info[t].failed
    <3>1. info[t].config = target \/ NeedsConfigUpdate(t)
      BY <1>1, <2>2 DEF CleanUpInv
    <3>2. NeedsConfigUpdate(t) => FALSE
      BY <1>1 DEF NeedsConfigUpdate, Matches
    <3> QED
      BY <1>1, <3>1, <3>2 DEF OnTarget
  <2>4. s \cap Launched # {}
    BY <1>1
  <2> QED
    BY <2>2, <2>3, <2>4 DEF InitialStatus
<1>2. IndInv /\ CleanUpInv /\ [Next]_vars
      => [phase # "up" /\ phase' = "up" => \A s \in Steps : Unaffected(s) => step'[s] = "complete"]_vars
  BY <1>1
<1> QED
  BY <1>2, Invariant, CleanUpInvariant, PTL DEF Spec, UnaffectedLeftAlone
=============================================================================
