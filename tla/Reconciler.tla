----------------------------- MODULE Reconciler -----------------------------
(***************************************************************************)
(* DefaultReconciler: which tasks the scheduler still has to hear about     *)
(* from Mesos before it may launch anything.                                *)
(*                                                                         *)
(* The object is shared by the driver's callback thread (start, reconcile,  *)
(* update) and by the offer thread (reconcile, isReconciled).  Only some of *)
(* it is under the lock on `unreconciled`, so each call is split where the  *)
(* code takes or leaves the lock.  pc is the program counter of the whole   *)
(* thread: the labels used here are                                         *)
(*   "start" -> "startAdd" -> "reconcile"            start()                *)
(*   "reconcile" -> "locked" -> "trigger" -> "send" -> "returned"           *)
(*                                                   reconcile(driver)      *)
(* and a thread that calls the reconciler goes to its first label and takes *)
(* over again at "returned".                                                *)
(***************************************************************************)
EXTENDS StateStore

CONSTANTS Threads,       \* the threads that call the reconciler
          BaseBackoff,   \* BASE_BACKOFF_MS
          MaxBackoff     \* MAX_BACKOFF_MS

ASSUME BackoffAssumption ==
    /\ BaseBackoff \in Nat \ {0}
    /\ MaxBackoff \in Nat
    /\ BaseBackoff <= MaxBackoff

VARIABLES pc,                 \* program counter of each thread
          unreconciled,       \* ids still waiting for a status
          implicitTriggered,  \* isImplicitReconciliationTriggered
          timerExpired,       \* nowMs >= lastRequestTimeMs + backOffMs
          backOffMs,
          fetched,            \* start(): statuses read before taking the lock
          toReconcile,        \* reconcile(): each thread's copy of the list
          requests            \* driver.reconcileTasks calls on their way to Mesos

reconcilerVars == <<unreconciled, implicitTriggered, timerExpired, backOffMs,
                    fetched, toReconcile, requests>>

Goto(t, label) == pc' = [pc EXCEPT ![t] = label]

ReconcilerLabels == {"start", "startAdd", "reconcile", "locked", "trigger", "send", "returned"}

ReconcilerTypeOK ==
    /\ unreconciled \subseteq TaskIds
    /\ implicitTriggered \in BOOLEAN
    /\ timerExpired \in BOOLEAN
    /\ backOffMs \in BaseBackoff .. MaxBackoff
    /\ fetched \subseteq TaskIds
    /\ toReconcile \in [Threads -> SUBSET TaskIds]
    /\ requests \subseteq SUBSET TaskIds

(* A new reconciler: resetTimerValues() puts the last request at time 0, so *)
(* the first explicit request never waits.                                  *)
ReconcilerInit ==
    /\ unreconciled = {}
    /\ implicitTriggered = FALSE
    /\ timerExpired = TRUE
    /\ backOffMs = BaseBackoff
    /\ fetched = {}
    /\ toReconcile = [t \in Threads |-> {}]
    /\ requests = {}

-----------------------------------------------------------------------------
(* start(), before the lock: read the statuses from the state store, of     *)
(* which the ones that are not terminal are going to be reconciled.         *)
LiveStatusIds == {s.id : s \in {r \in StoredStatuses : ~IsTerminal(r.state)}}

StartFetch(t) ==
    /\ pc[t] = "start"
    /\ fetched' = LiveStatusIds
    /\ Goto(t, "startAdd")
    /\ UNCHANGED <<unreconciled, implicitTriggered, timerExpired, backOffMs,
                   toReconcile, requests>>

(* start(), under the lock: add the tasks and ask for a new implicit phase. *)
(* What was already waiting stays, and the timer is left alone.             *)
StartAdd(t) ==
    /\ pc[t] = "startAdd"
    /\ unreconciled' = unreconciled \cup fetched
    /\ implicitTriggered' = FALSE
    /\ fetched' = {}
    /\ Goto(t, "reconcile")
    /\ UNCHANGED <<timerExpired, backOffMs, toReconcile, requests>>

(* reconcile(), before the lock: phase 3 has nothing to do.                 *)
ReconcileCheck(t) ==
    /\ pc[t] = "reconcile"
    /\ Goto(t, IF implicitTriggered THEN "returned" ELSE "locked")
    /\ UNCHANGED reconcilerVars

(* Mutant of ReconcileLocked: the early return for "too soon" is dropped.   *)
ReconcileLockedNoReturn(t) ==
    /\ pc[t] = "locked"
    /\ toReconcile' = [toReconcile EXCEPT ![t] = IF timerExpired THEN unreconciled ELSE {}]
    /\ timerExpired' = (timerExpired /\ unreconciled = {})
    /\ Goto(t, IF timerExpired /\ unreconciled # {} THEN "send" ELSE "trigger")
    /\ UNCHANGED <<unreconciled, implicitTriggered, backOffMs, fetched, requests>>

(* reconcile(), the synchronized block: copy the waiting tasks if there are *)
(* any and the backoff has passed; return if it has not.                    *)
ReconcileLocked(t) ==
    /\ pc[t] = "locked"
    /\ toReconcile' = [toReconcile EXCEPT ![t] = IF timerExpired THEN unreconciled ELSE {}]
    /\ \/ /\ unreconciled = {}
          /\ Goto(t, "trigger")
          /\ UNCHANGED <<timerExpired, backOffMs>>
       \/ /\ unreconciled # {}
          /\ timerExpired
          /\ timerExpired' = FALSE
          /\ backOffMs' = IF 2 * backOffMs < MaxBackoff THEN 2 * backOffMs ELSE MaxBackoff
          /\ Goto(t, "send")
       \/ /\ unreconciled # {}
          /\ ~timerExpired
          /\ Goto(t, "returned")
          /\ UNCHANGED <<timerExpired, backOffMs>>
    /\ UNCHANGED <<unreconciled, implicitTriggered, fetched, requests>>

(* reconcile(), after the lock, with an empty list: enter phase 3.  The     *)
(* list was seen empty under the lock, which has been released since.       *)
ReconcileTrigger(t) ==
    /\ pc[t] = "trigger"
    /\ timerExpired' = TRUE
    /\ backOffMs' = BaseBackoff
    /\ implicitTriggered' = TRUE
    /\ Goto(t, "send")
    /\ UNCHANGED <<unreconciled, fetched, toReconcile, requests>>

(* driver.reconcileTasks(tasksToReconcile): an empty list is the implicit   *)
(* request for every task Mesos knows.                                      *)
ReconcileSend(t) ==
    /\ pc[t] = "send"
    /\ requests' = requests \cup {toReconcile[t]}
    /\ toReconcile' = [toReconcile EXCEPT ![t] = {}]
    /\ Goto(t, "returned")
    /\ UNCHANGED <<unreconciled, implicitTriggered, timerExpired, backOffMs, fetched>>

(* What the thread t does inside start() and reconcile(), on behalf of the  *)
(* caller that brought it to their first label.                             *)
ReconcilerStep(t) ==
    \/ StartFetch(t)
    \/ StartAdd(t)
    \/ ReconcileCheck(t)
    \/ ReconcileLocked(t)
    \/ ReconcileTrigger(t)
    \/ ReconcileSend(t)

(* update(status): whatever the state of the task is, it has been heard of. *)
Update(id) == unreconciled' = unreconciled \ {id}

(* isReconciled(), which reads the map without the lock.                    *)
IsReconciled == unreconciled = {}
=============================================================================
