----------------------------- MODULE OfferCycle -----------------------------
(***************************************************************************)
(* The scheduler's two main threads around the offer queue.                 *)
(*                                                                         *)
(* "driver" is the Mesos driver's callback thread: it runs registered,      *)
(* reregistered, resourceOffers, offerRescinded and statusUpdate, one at a  *)
(* time.  "offers" runs processQueuedOffers in an endless loop: it takes    *)
(* what is queued, reconciles, and only then lets the plans launch tasks.   *)
(* They share the queue, the set of offers in progress, the reconciler      *)
(* (module Reconciler) and the state store (module StateStore).             *)
(*                                                                         *)
(* The plans are abstracted to "some step wants to (re)launch some task":   *)
(* which one, and whether an offer fits it, is arbitrary.  Mesos (section   *)
(* 3) is external and modelled by what the scheduler relies on.  There is   *)
(* no crash here: module TaskRecords has those.                             *)
(***************************************************************************)
EXTENDS Reconciler, Sequences

CONSTANTS MaxOffers,     \* bound: the offers Mesos makes are 1..MaxOffers
          Capacity,      \* capacity of the OfferQueue
          MaxReregister  \* bound: re-registrations (master elections)

ASSUME OfferCycleAssumption ==
    /\ Threads = {"driver", "offers"}
    /\ MaxOffers \in Nat
    /\ Capacity \in Nat \ {0}
    /\ MaxReregister \in Nat

Offers == 1 .. MaxOffers

VARIABLES
    (* flags of AbstractScheduler and its MesosScheduler *)
    apiServerStarted, isInitialized,
    (* offers *)
    queue,            \* OfferQueue
    offersInProgress,
    incoming,         \* driver thread: offers of the callback still to enqueue
    batch,            \* offer thread: what takeAll() returned
    available,        \* offer thread: the part of batch not accepted yet
    received,         \* offers 1..received have been given to the scheduler
    answered,         \* answered[o]: how often o was accepted or declined
    rescinded,        \* offers that Mesos has taken back
    (* launching, and statuses *)
    launch,           \* offer thread: what it is launching, or None
    used,             \* ids that have been used for a launch
    current,          \* driver thread: the status it is handling, or None
    heard,            \* history: ids whose status the reconciler was told of
    believed,         \* history: ids stored as live when the process started
    (* Mesos *)
    alive,            \* tasks that run on some agent
    statuses,         \* tasks of which a status is on its way to the scheduler
    reregistered      \* how often, against the bound

flagVars == <<apiServerStarted, isInitialized>>
offerVars == <<queue, offersInProgress, incoming, batch, available,
              received, answered, rescinded>>
launchVars == <<launch, used>>
statusVars == <<current, heard, believed>>
mesosVars == <<alive, statuses, reregistered>>
vars == <<storeVars, pc, reconcilerVars, flagVars, offerVars, launchVars, statusVars, mesosVars>>

-----------------------------------------------------------------------------
(* 1. The driver's callback thread.  Mesos never calls back while a         *)
(* callback runs: "idle" is between two.                                    *)

(* Mutant of Registered: initialized before the reconciliation is started.  *)
RegisteredEarly ==
    /\ pc["driver"] = "unregistered"
    /\ isInitialized' = TRUE
    /\ Goto("driver", "start")
    /\ UNCHANGED <<storeVars, reconcilerVars, apiServerStarted, offerVars, launchVars, statusVars, mesosVars>>

(* registered(), first call: everything up to storing the framework id.     *)
(* initialize() builds the plans; the API server starts in the background.  *)
Registered ==
    /\ pc["driver"] = "unregistered"
    /\ Goto("driver", "start")
    /\ UNCHANGED <<storeVars, reconcilerVars, flagVars, offerVars, launchVars, statusVars, mesosVars>>

(* lifeCycleStarted, on a thread of the API server.                         *)
ApiServerStarted ==
    /\ pc["driver"] # "unregistered"
    /\ ~apiServerStarted
    /\ apiServerStarted' = TRUE
    /\ UNCHANGED <<storeVars, pc, reconcilerVars, isInitialized, offerVars, launchVars, statusVars, mesosVars>>

(* postRegister: restartReconciliation is start() and then reconcile().     *)
DriverReconciles ==
    /\ ReconcilerStep("driver")
    /\ UNCHANGED <<storeVars, flagVars, offerVars, launchVars, statusVars, mesosVars>>

(* The end of registered(), after postRegister has returned.                *)
RegisteredEnd ==
    /\ pc["driver"] = "returned"
    /\ isInitialized' = TRUE
    /\ Goto("driver", "idle")
    /\ UNCHANGED <<storeVars, reconcilerVars, apiServerStarted, offerVars, launchVars, statusVars, mesosVars>>

(* reregistered(), also through a later registered(): a new master, who may *)
(* know nothing of the messages that were on their way to or from the old   *)
(* one, and for whom the offers of the old one are void.                    *)
Reregistered ==
    /\ pc["driver"] = "idle"
    /\ reregistered < MaxReregister
    /\ reregistered' = reregistered + 1
    /\ Goto("driver", "start")
    /\ \/ UNCHANGED <<requests, statuses, rescinded>>
       \/ /\ requests' = {}
          /\ statuses' = {}
          /\ rescinded' = rescinded \cup {o \in 1 .. received : answered[o] = 0}
    /\ UNCHANGED <<storeVars, unreconciled, implicitTriggered, timerExpired, backOffMs,
                   fetched, toReconcile, flagVars, queue, offersInProgress, incoming,
                   batch, available, received, answered, launchVars, statusVars, alive>>

(* declineShort, declineLong and acceptOffers all use the offer up.         *)
Answer(os) == answered' = [o \in Offers |-> IF o \in os THEN answered[o] + 1 ELSE answered[o]]

(* resourceOffers(): the next few offers, declined on the spot before the   *)
(* API server is up, and otherwise all marked as in progress first.         *)
ResourceOffers ==
    /\ pc["driver"] = "idle"
    /\ \E last \in received + 1 .. MaxOffers :
          /\ received' = last
          /\ \/ /\ ~apiServerStarted
                /\ Answer(received + 1 .. last)
                /\ UNCHANGED <<pc, offersInProgress, incoming>>
             \/ /\ apiServerStarted
                /\ offersInProgress' = offersInProgress \cup (received + 1 .. last)
                /\ incoming' = received + 1 .. last
                /\ Goto("driver", "enqueue")
                /\ UNCHANGED answered
    /\ UNCHANGED <<storeVars, reconcilerVars, flagVars, queue, batch, available, rescinded,
                   launchVars, statusVars, mesosVars>>

(* The loop over the offers: the next one is queued, or declined if the     *)
(* queue is full, after which it is removed from the ones in progress.      *)
NextIncoming == {o \in incoming : \A p \in incoming : o <= p}

(* Mutant of Enqueue: the result of the bounded offer() is not looked at.   *)
EnqueueUnbounded ==
    /\ pc["driver"] = "enqueue"
    /\ \E o \in NextIncoming :
          /\ queue' = Append(queue, o)
          /\ incoming' = incoming \ {o}
    /\ UNCHANGED <<storeVars, pc, reconcilerVars, flagVars, offersInProgress, batch, available,
                   received, answered, rescinded, launchVars, statusVars, mesosVars>>

Enqueue ==
    /\ pc["driver"] = "enqueue"
    /\ \E o \in NextIncoming :
          \/ /\ Len(queue) < Capacity
             /\ queue' = Append(queue, o)
             /\ incoming' = incoming \ {o}
             /\ UNCHANGED <<pc, answered>>
          \/ /\ Len(queue) = Capacity
             /\ Answer({o})
             /\ Goto("driver", "full")
             /\ UNCHANGED <<queue, incoming>>
    /\ UNCHANGED <<storeVars, reconcilerVars, flagVars, offersInProgress, batch, available,
                   received, rescinded, launchVars, statusVars, mesosVars>>

(* Mutant of RemoveDeclined: removes all offers of the callback, also the   *)
(* ones that have been queued.                                              *)
RemoveDeclinedAll ==
    /\ pc["driver"] = "full"
    /\ offersInProgress' = offersInProgress \ (1 .. received)
    /\ incoming' = incoming \ NextIncoming
    /\ Goto("driver", "enqueue")
    /\ UNCHANGED <<storeVars, reconcilerVars, flagVars, queue, batch, available, received,
                   answered, rescinded, launchVars, statusVars, mesosVars>>

RemoveDeclined ==
    /\ pc["driver"] = "full"
    /\ offersInProgress' = offersInProgress \ NextIncoming
    /\ incoming' = incoming \ NextIncoming
    /\ Goto("driver", "enqueue")
    /\ UNCHANGED <<storeVars, reconcilerVars, flagVars, queue, batch, available, received,
                   answered, rescinded, launchVars, statusVars, mesosVars>>

EnqueueEnd ==
    /\ pc["driver"] = "enqueue"
    /\ incoming = {}
    /\ Goto("driver", "idle")
    /\ UNCHANGED <<storeVars, reconcilerVars, flagVars, offerVars, launchVars, statusVars, mesosVars>>

(* offerRescinded(): out of the queue, if it is still there.  The set of    *)
(* offers in progress is not touched.                                       *)
OfferRescinded ==
    /\ pc["driver"] = "idle"
    /\ \E o \in (1 .. received) \ rescinded :
          /\ answered[o] = 0
          /\ rescinded' = rescinded \cup {o}
          /\ \/ /\ \A i \in DOMAIN queue : queue[i] # o
                /\ UNCHANGED queue
             \/ \E i \in DOMAIN queue :
                   /\ queue[i] = o
                   /\ queue' = SubSeq(queue, 1, i - 1) \o SubSeq(queue, i + 1, Len(queue))
    /\ UNCHANGED <<storeVars, pc, reconcilerVars, flagVars, offersInProgress, incoming, batch,
                   available, received, answered, launchVars, statusVars, mesosVars>>

(* statusUpdate(): processStatusUpdate first looks for the task that has    *)
(* this id, and gives up with an exception if there is none.                *)
StatusUpdate(id, state) ==
    /\ pc["driver"] = "idle"
    /\ \/ \E t \in Tasks :
             /\ NamesOf(id) = {t}
             /\ current' = [task |-> t, status |-> StatusOf(id, state)]
             /\ Goto("driver", "store")
       \/ /\ \A t \in Tasks : NamesOf(id) # {t}
          /\ current' = [task |-> None, status |-> StatusOf(id, state)]
          /\ Goto("driver", "clean")
    /\ UNCHANGED <<storeVars, reconcilerVars, flagVars, offerVars, launchVars, heard, believed>>

(* ... then stores the status: storeStatus reads the stored status and may  *)
(* refuse the new one, and writes it in a second step of the persister ...  *)
StatusStore ==
    /\ pc["driver"] = "store"
    /\ Goto("driver", IF StatusRejected(current.task, current.status) THEN "clean" ELSE "set")
    /\ UNCHANGED <<storeVars, reconcilerVars, flagVars, offerVars, launchVars, statusVars, mesosVars>>

StatusSet ==
    /\ pc["driver"] = "set"
    /\ StoreStatus(current.task, current.status)
    /\ Goto("driver", "update")
    /\ UNCHANGED <<taskInfo, reconcilerVars, flagVars, offerVars, launchVars, statusVars, mesosVars>>

(* ... and only if nothing was thrown does the reconciler hear of it.       *)
StatusReconcile ==
    /\ pc["driver"] = "update"
    /\ Update(current.status.id)
    /\ heard' = heard \cup {current.status.id}
    /\ Goto("driver", "clean")
    /\ UNCHANGED <<storeVars, implicitTriggered, timerExpired, backOffMs, fetched, toReconcile,
                   requests, flagVars, offerVars, launchVars, current, believed, mesosVars>>

(* In every case the TaskCleaner gets the status.  It only ever kills tasks *)
(* (see KillOld), on a thread of its own: module TaskRecords has it.        *)
StatusClean ==
    /\ pc["driver"] = "clean"
    /\ current' = None
    /\ Goto("driver", "idle")
    /\ UNCHANGED <<storeVars, reconcilerVars, flagVars, offerVars, launchVars, heard, believed, mesosVars>>

-----------------------------------------------------------------------------
(* 2. The offer thread: processQueuedOffers, forever                        *)

(* takeAll(): wait for one offer or for the timeout ...                     *)
Poll ==
    /\ pc["offers"] = "poll"
    /\ batch' = IF queue = <<>> THEN {} ELSE {Head(queue)}
    /\ queue' = IF queue = <<>> THEN <<>> ELSE Tail(queue)
    /\ Goto("offers", "drain")
    /\ UNCHANGED <<storeVars, reconcilerVars, flagVars, offersInProgress, incoming, available,
                   received, answered, rescinded, launchVars, statusVars, mesosVars>>

(* ... and take whatever else is queued by then.                            *)
Drain ==
    /\ pc["offers"] = "drain"
    /\ batch' = batch \cup {queue[i] : i \in DOMAIN queue}
    /\ queue' = <<>>
    /\ Goto("offers", "gate")
    /\ UNCHANGED <<storeVars, reconcilerVars, flagVars, offersInProgress, incoming, available,
                   received, answered, rescinded, launchVars, statusVars, mesosVars>>

(* Nothing to do before the first registration has completed.               *)
Gate ==
    /\ pc["offers"] = "gate"
    /\ Goto("offers", IF batch = {} /\ ~isInitialized THEN "finish" ELSE "reconcile")
    /\ UNCHANGED <<storeVars, reconcilerVars, flagVars, offerVars, launchVars, statusVars, mesosVars>>

OffersReconcile ==
    /\ ReconcilerStep("offers")
    /\ UNCHANGED <<storeVars, flagVars, offerVars, launchVars, statusVars, mesosVars>>

(* Mutant of ReconcileGate: returns without declining what it took.         *)
ReconcileGateHoards ==
    /\ pc["offers"] = "returned"
    /\ available' = (IF IsReconciled THEN batch ELSE available)
    /\ Goto("offers", IF IsReconciled THEN "work" ELSE "finish")
    /\ UNCHANGED <<storeVars, reconcilerVars, flagVars, queue, offersInProgress, incoming, batch,
                   received, answered, rescinded, launchVars, statusVars, mesosVars>>

(* isReconciled(): decline everything while tasks are unreconciled.         *)
ReconcileGate ==
    /\ pc["offers"] = "returned"
    /\ \/ /\ IsReconciled
          /\ available' = batch
          /\ Goto("offers", "work")
          /\ UNCHANGED answered
       \/ /\ ~IsReconciled
          /\ Answer(batch)
          /\ Goto("offers", "finish")
          /\ UNCHANGED available
    /\ UNCHANGED <<storeVars, reconcilerVars, flagVars, queue, offersInProgress, incoming, batch,
                   received, rescinded, launchVars, statusVars, mesosVars>>

(* DefaultPlanScheduler, for one candidate step: it starts with killTask    *)
(* for the task that is about to be replaced.  A killTask call is a message *)
(* to Mesos of which the scheduler sees nothing but a task that dies, and   *)
(* TaskDies below lets any task die at any time.                            *)
KillOld(t) ==
    /\ pc["offers"] = "work"
    /\ launch' = [task |-> t, id |-> None, offer |-> None]
    /\ Goto("offers", "evaluate")
    /\ UNCHANGED <<storeVars, reconcilerVars, flagVars, offerVars, used, statusVars, mesosVars>>

(* ... then evaluate the offers: none fits, or one does, and the launch     *)
(* gets a new id.                                                           *)
EvaluateNothing ==
    /\ pc["offers"] = "evaluate"
    /\ launch' = None
    /\ Goto("offers", "work")
    /\ UNCHANGED <<storeVars, reconcilerVars, flagVars, offerVars, used, statusVars, mesosVars>>

Evaluate(o, id) ==
    /\ pc["offers"] = "evaluate"
    /\ o \in available
    /\ id \in TaskIds \ used
    /\ used' = used \cup {id}
    /\ launch' = [launch EXCEPT !.id = id, !.offer = o]
    /\ Goto("offers", "recordInfo")
    /\ UNCHANGED <<storeVars, reconcilerVars, flagVars, offerVars, statusVars, mesosVars>>

(* OfferAccepter.accept: PersistentLaunchRecorder.record writes the         *)
(* TaskInfo, then a STAGING status ...                                      *)
RecordInfo ==
    /\ pc["offers"] = "recordInfo"
    /\ StoreTasks([t \in {launch.task} |-> launch.id])
    /\ Goto("offers", "recordStatus")
    /\ UNCHANGED <<taskStatus, reconcilerVars, flagVars, offerVars, launchVars, statusVars, mesosVars>>

RecordStatus ==
    /\ pc["offers"] = "recordStatus"
    /\ StoreStatus(launch.task, StatusOf(launch.id, "STAGING"))
    /\ Goto("offers", "accept")
    /\ UNCHANGED <<taskInfo, reconcilerVars, flagVars, offerVars, launchVars, statusVars, mesosVars>>

(* ... and if a write throws, nothing is launched: accept returns no offer. *)
RecordFails ==
    /\ pc["offers"] \in {"recordInfo", "recordStatus"}
    /\ launch' = None
    /\ Goto("offers", "work")
    /\ UNCHANGED <<storeVars, reconcilerVars, flagVars, offerVars, used, statusVars, mesosVars>>

(* driver.acceptOffers: Mesos launches the task, unless the offer is void.  *)
AcceptOffers ==
    /\ pc["offers"] = "accept"
    /\ Answer({launch.offer})
    /\ available' = available \ {launch.offer}
    /\ alive' = IF launch.offer \in rescinded THEN alive ELSE alive \cup {launch.id}
    /\ statuses' = statuses \cup {launch.id}
    /\ launch' = None
    /\ Goto("offers", "work")
    /\ UNCHANGED <<storeVars, reconcilerVars, flagVars, queue, offersInProgress, incoming, batch,
                   received, rescinded, used, statusVars, reregistered>>

(* Mutant of DeclineUnused: declines every offer of the batch, the accepted *)
(* ones too.                                                                *)
DeclineAll ==
    /\ pc["offers"] = "work"
    /\ Answer(batch)
    /\ available' = {}
    /\ Goto("offers", "finish")
    /\ UNCHANGED <<storeVars, reconcilerVars, flagVars, queue, offersInProgress, incoming, batch,
                   received, rescinded, launchVars, statusVars, mesosVars>>

(* processOffers, after the steps: the resource cleaner accepts, or         *)
(* declineLong declines, all the offers that no plan has accepted.          *)
DeclineUnused ==
    /\ pc["offers"] = "work"
    /\ Answer(available)
    /\ available' = {}
    /\ Goto("offers", "finish")
    /\ UNCHANGED <<storeVars, reconcilerVars, flagVars, queue, offersInProgress, incoming, batch,
                   received, rescinded, launchVars, statusVars, mesosVars>>

(* Mutant of Finish: clear() instead of removeAll(offers).                  *)
FinishClears ==
    /\ pc["offers"] = "finish"
    /\ offersInProgress' = {}
    /\ batch' = {}
    /\ Goto("offers", "poll")
    /\ UNCHANGED <<storeVars, reconcilerVars, flagVars, queue, incoming, available, received,
                   answered, rescinded, launchVars, statusVars, mesosVars>>

(* Mutant of Finish: only the offers that nobody answered are removed.      *)
FinishUnused ==
    /\ pc["offers"] = "finish"
    /\ offersInProgress' = offersInProgress \ {o \in batch : answered[o] = 0}
    /\ batch' = {}
    /\ Goto("offers", "poll")
    /\ UNCHANGED <<storeVars, reconcilerVars, flagVars, queue, incoming, available, received,
                   answered, rescinded, launchVars, statusVars, mesosVars>>

(* finally: what was taken is no longer in progress.                        *)
Finish ==
    /\ pc["offers"] = "finish"
    /\ offersInProgress' = offersInProgress \ batch
    /\ batch' = {}
    /\ Goto("offers", "poll")
    /\ UNCHANGED <<storeVars, reconcilerVars, flagVars, queue, incoming, available, received,
                   answered, rescinded, launchVars, statusVars, mesosVars>>

-----------------------------------------------------------------------------
(* 3. Mesos and time (external)                                             *)

(* What Mesos can say of a task: it runs, or it ended, or it is not known.  *)
Truth(id) == IF id \in alive THEN {"RUNNING"} ELSE {"FAILED", "LOST"}

(* A status reaches the scheduler: an agent's update or an answer to a      *)
(* reconciliation request.                                                  *)
DeliverStatus(id) ==
    /\ id \in statuses
    /\ statuses' = statuses \ {id}
    /\ \E state \in Truth(id) : StatusUpdate(id, state)
    /\ UNCHANGED <<alive, reregistered>>

(* The master answers an explicit request for every task in it, and an      *)
(* implicit request for the tasks that it knows to be alive.                *)
MasterAnswer(r) ==
    /\ r \in requests
    /\ requests' = requests \ {r}
    /\ statuses' = statuses \cup (IF r = {} THEN alive ELSE r)
    /\ UNCHANGED <<storeVars, pc, unreconciled, implicitTriggered, timerExpired, backOffMs, fetched,
                   toReconcile, flagVars, offerVars, launchVars, statusVars, alive, reregistered>>

(* A task fails or is killed, and its agent says so; and an agent may send  *)
(* again the status of a task that still runs.                              *)
TaskDies(id) ==
    /\ id \in alive
    /\ alive' = alive \ {id}
    /\ statuses' = statuses \cup {id}
    /\ UNCHANGED <<storeVars, pc, reconcilerVars, flagVars, offerVars, launchVars, statusVars,
                   reregistered>>

AgentResends(id) ==
    /\ id \in alive \ statuses
    /\ statuses' = statuses \cup {id}
    /\ UNCHANGED <<storeVars, pc, reconcilerVars, flagVars, offerVars, launchVars, statusVars,
                   alive, reregistered>>

TimerExpires ==
    /\ ~timerExpired
    /\ timerExpired' = TRUE
    /\ UNCHANGED <<storeVars, pc, unreconciled, implicitTriggered, backOffMs, fetched, toReconcile,
                   requests, flagVars, offerVars, launchVars, statusVars, mesosVars>>

-----------------------------------------------------------------------------
(* 4. The specification                                                     *)

(* A scheduler process that has just been started over what an earlier one  *)
(* stored: nothing, or for each task a TaskInfo and a status of the same    *)
(* id (StateStore's constructor sees to that).  What Mesos knows need not   *)
(* agree with what is stored.                                               *)
Init ==
    /\ ReconcilerInit
    /\ taskInfo \in [Tasks -> TaskIds \cup {None}]
    /\ \A t, u \in Tasks : taskInfo[t] = taskInfo[u] /\ t # u => taskInfo[t] = None
    /\ taskStatus \in [Tasks -> TaskStatuses \cup {None}]
    /\ \A t \in Tasks : IF taskInfo[t] = None
                        THEN taskStatus[t] = None
                        ELSE taskStatus[t] # None /\ taskStatus[t].id = taskInfo[t]
    /\ pc = [t \in Threads |-> IF t = "driver" THEN "unregistered" ELSE "poll"]
    /\ apiServerStarted = FALSE
    /\ isInitialized = FALSE
    /\ queue = <<>>
    /\ offersInProgress = {}
    /\ incoming = {}
    /\ batch = {}
    /\ available = {}
    /\ received = 0
    /\ answered = [o \in Offers |-> 0]
    /\ rescinded = {}
    /\ launch = None
    /\ used = StoredIds
    /\ current = None
    /\ heard = {}
    /\ believed = LiveStatusIds
    /\ alive \in SUBSET StoredIds
    /\ statuses = {}
    /\ reregistered = 0

DriverCallback ==
    \/ Registered
    \/ DriverReconciles
    \/ RegisteredEnd
    \/ Enqueue
    \/ RemoveDeclined
    \/ EnqueueEnd
    \/ StatusStore
    \/ StatusSet
    \/ StatusReconcile
    \/ StatusClean

OfferThread ==
    \/ Poll
    \/ Drain
    \/ Gate
    \/ OffersReconcile
    \/ ReconcileGate
    \/ \E t \in Tasks : KillOld(t)
    \/ EvaluateNothing
    \/ \E o \in Offers, id \in TaskIds : Evaluate(o, id)
    \/ RecordInfo
    \/ RecordStatus
    \/ RecordFails
    \/ AcceptOffers
    \/ DeclineUnused
    \/ Finish

Mesos ==
    \/ Reregistered
    \/ ResourceOffers
    \/ OfferRescinded
    \/ \E id \in TaskIds : DeliverStatus(id)
    \/ \E r \in SUBSET TaskIds : MasterAnswer(r)
    \/ \E id \in TaskIds : TaskDies(id)
    \/ \E id \in TaskIds : AgentResends(id)

Next ==
    \/ DriverCallback
    \/ OfferThread
    \/ Mesos
    \/ ApiServerStarted
    \/ TimerExpires

(* Callbacks return; the offer thread loops for ever, and a cycle looks at  *)
(* finitely many steps before it declines the rest; the API server starts;  *)
(* time passes.  The master answers, and the connection to it delivers in   *)
(* order, so that no message is overtaken for ever (strong fairness: a      *)
(* delivery waits while another callback runs).                             *)
Fairness ==
    /\ WF_vars(DriverCallback)
    /\ WF_vars(OfferThread)
    /\ SF_vars(DeclineUnused)
    /\ WF_vars(ApiServerStarted)
    /\ WF_vars(TimerExpires)
    /\ \A r \in SUBSET TaskIds : WF_vars(MasterAnswer(r))
    /\ \A id \in TaskIds : SF_vars(DeliverStatus(id))

Spec == Init /\ [][Next]_vars

FairSpec == Spec /\ Fairness

-----------------------------------------------------------------------------
(* 5. Properties                                                            *)

DriverLabels == ReconcilerLabels \cup
                {"unregistered", "idle", "enqueue", "full", "store", "set", "update", "clean"}

(* processOffers: the plans look at the offers and launch.                  *)
PlanLabels == {"work", "evaluate", "recordInfo", "recordStatus", "accept"}

OfferLabels == (ReconcilerLabels \ {"start", "startAdd"}) \cup PlanLabels \cup
               {"poll", "drain", "gate", "finish"}

Launches == [task : Tasks, id : TaskIds \cup {None}, offer : Offers \cup {None}]

PcTypeOK ==
    /\ pc \in [Threads -> DriverLabels \cup OfferLabels]
    /\ pc["driver"] \in DriverLabels
    /\ pc["offers"] \in OfferLabels

OffersTypeOK ==
    /\ queue \in Seq(Offers)
    /\ Len(queue) <= Capacity
    /\ offersInProgress \subseteq Offers
    /\ incoming \subseteq Offers
    /\ batch \subseteq Offers
    /\ available \subseteq batch
    /\ pc["offers"] \notin PlanLabels => available = {}
    /\ received \in 0 .. MaxOffers
    /\ answered \in [Offers -> Nat]
    /\ rescinded \subseteq Offers

(* From evaluate on there is a launch, and from recordInfo on it has an id. *)
LaunchTypeOK ==
    /\ launch \in Launches \cup {None}
    /\ pc["offers"] = "evaluate" => launch \in Launches
    /\ pc["offers"] \in {"recordInfo", "recordStatus", "accept"} =>
          launch \in [task : Tasks, id : TaskIds, offer : Offers]
    /\ used \subseteq TaskIds

StatusTypeOK ==
    /\ current \in [task : Tasks \cup {None}, status : TaskStatuses] \cup {None}
    /\ pc["driver"] \in {"store", "set", "update"} => current \in [task : Tasks, status : TaskStatuses]
    /\ heard \subseteq TaskIds
    /\ believed \subseteq TaskIds

MesosTypeOK ==
    /\ alive \subseteq TaskIds
    /\ statuses \subseteq TaskIds
    /\ reregistered \in 0 .. MaxReregister

(* The types, the bound on the queue, and what is known of a thread's local *)
(* variables at each of its labels.                                         *)
TypeOK ==
    /\ StoreTypeOK
    /\ ReconcilerTypeOK
    /\ PcTypeOK
    /\ apiServerStarted \in BOOLEAN
    /\ isInitialized \in BOOLEAN
    /\ OffersTypeOK
    /\ LaunchTypeOK
    /\ StatusTypeOK
    /\ MesosTypeOK

(* No plan sees an offer, and so nothing is launched, before the process    *)
(* has heard from Mesos of every task it believed to be alive when it       *)
(* started: the offer thread may run long before registered() has, and      *)
(* only isInitialized and the reconciler hold it back.                      *)
ReconciledBeforePlans == pc["offers"] \in PlanLabels => believed \subseteq heard

(* offersInProgress is what awaitOffersProcessed() trusts: an offer that    *)
(* is still open (neither answered nor rescinded) is never missing there,   *)
(* whichever thread has it, and however the two threads interleave.         *)
OpenOffersInProgress ==
    \A o \in 1 .. received :
        answered[o] = 0 /\ o \notin rescinded => o \in offersInProgress

(* No offer is answered twice.  The queue-full path, the reconciliation     *)
(* gate, accept and the final decline all answer offers, on two threads.    *)
AnsweredOnce == \A o \in Offers : answered[o] <= 1

(* OfferLedger: what the two threads do to offers is what the ledger allows.*)
Ledger == INSTANCE OfferLedger WITH given <- received, answers <- answered,
                                    withdrawn <- rescinded, inProgress <- offersInProgress

(* The offer cycle implements the ledger: with two threads, a bounded queue *)
(* and a batch, an offer leaves the ones in progress only when it is        *)
(* answered or void, and is answered only while it is in progress.          *)
ImplementsLedger == Ledger!Spec

(* Every offer is eventually accepted or declined, or Mesos takes it back:  *)
(* neither a full queue nor a reconciliation that never ends keeps offers   *)
(* hoarded.                                                                 *)
OffersAnswered ==
    \A o \in Offers : received >= o ~> answered[o] > 0 \/ o \in rescinded

(* While the explicit phase is on and no thread is about to leave it, a     *)
(* task that is waited for is eventually heard of, through lost requests    *)
(* and answers, unless its TaskInfo is replaced meanwhile.                  *)
KnownTaskReconciled ==
    \A id \in TaskIds :
        /\ id \in unreconciled
        /\ ~implicitTriggered
        /\ \A t \in Threads : pc[t] # "trigger"
        ~> id \notin unreconciled \/ id \notin StoredIds

(* What the reconciler is for: every task it waits for is reconciled.       *)
ReconciliationCompletes ==
    \A id \in TaskIds : id \in unreconciled ~> id \notin unreconciled

(* awaitOffersProcessed() does not wait for ever: an offer that is in       *)
(* progress is eventually processed and removed, unless it was rescinded    *)
(* (an offer rescinded while it is queued is never removed).                *)
OffersProcessed ==
    \A o \in Offers : o \in offersInProgress ~> o \notin offersInProgress \/ o \in rescinded
=============================================================================
