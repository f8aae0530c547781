----------------------------- MODULE Persistence -----------------------------
(***************************************************************************)
(* The scheduler's storage: PersisterCache, a write-through cache, over     *)
(* CuratorPersister, which turns each call into requests to ZooKeeper.      *)
(*                                                                         *)
(* The cache's write lock is held for the whole of a call that writes, so   *)
(* there is one such call at a time, and readers see the cache between      *)
(* calls.  The lock node in ZooKeeper (CuratorLocker) keeps other           *)
(* schedulers out.  What is left are the ways in which a call can go wrong: *)
(* a request may be applied although its answer is lost, Curator may have   *)
(* repeated it or not, an exception may come out of a call that was         *)
(* applied, and the process may die between any two requests.               *)
(***************************************************************************)
EXTENDS StorageTree

CONSTANT MaxAttempts  \* ATOMIC_WRITE_ATTEMPTS

ASSUME AttemptsAssumption == MaxAttempts \in Nat \ {0}

NoCall == [kind |-> "none", values |-> [p \in {} |-> None], removes |-> {}]

NoTransaction == [create |-> {}, update |-> {}, delete |-> {}]

VARIABLES
    zk,           \* what ZooKeeper holds
    cache,        \* what PersisterCache holds; once it is gone, what it held
    loaded,       \* there is a cache
    call,         \* the call that holds the write lock, or NoCall
    pc,           \* where it is
    attempt,      \* which attempt of a transaction it is at
    transaction,  \* what the transaction creates, updates and deletes
    before,       \* history: what ZooKeeper held when the call began
    erred,        \* history: a request of the call went wrong
    doubt         \* history: the paths of calls without an outcome since the load

callVars == <<call, pc, attempt, transaction, before>>
vars == <<zk, cache, loaded, callVars, erred, doubt>>

-----------------------------------------------------------------------------
(* 1. The cache                                                             *)

(* getCache: the first call of a process loads all there is.                *)
Load ==
    /\ ~loaded
    /\ loaded' = TRUE
    /\ cache' = zk
    /\ doubt' = {}
    /\ UNCHANGED <<zk, callVars, erred>>

(* refresh() drops the cache, and may then fail to load it again.           *)
Refresh ==
    /\ loaded
    /\ call = NoCall
    /\ loaded' = FALSE
    /\ UNCHANGED <<zk, cache, callVars, erred, doubt>>

Begin(c) ==
    /\ loaded
    /\ call = NoCall
    /\ call' = c
    /\ pc' = CASE c.kind = "set" -> "create"
               [] c.kind = "delete" -> "delete"
               [] OTHER -> "build"
    /\ attempt' = 1
    /\ before' = zk
    /\ erred' = FALSE
    /\ UNCHANGED <<zk, cache, loaded, transaction, doubt>>

EndCall ==
    /\ call' = NoCall
    /\ pc' = "idle"
    /\ attempt' = 1
    /\ transaction' = NoTransaction
    /\ before' = EmptyTree
    /\ erred' = FALSE

(* The persister returned: the cache does the same.                         *)
Return ==
    /\ EndCall
    /\ cache' = Apply(call, cache)
    /\ UNCHANGED <<loaded, doubt>>

(* Mutant of Throw: the cache is written before the persister is called.    *)
ThrowAfterCache(error) ==
    /\ EndCall
    /\ cache' = Apply(call, cache)
    /\ doubt' = IF error THEN doubt \cup Touched(call) ELSE doubt
    /\ UNCHANGED loaded

(* The persister threw: the cache stays as it is.                           *)
Throw(error) ==
    /\ EndCall
    /\ doubt' = IF error THEN doubt \cup Touched(call) ELSE doubt
    /\ UNCHANGED <<cache, loaded>>

-----------------------------------------------------------------------------
(* 2. set: create, with the parents, or else setData                        *)

Exists(p) == zk[p] # None

Target == CHOOSE p \in Paths : p \in DOMAIN call.values \cup call.removes

CreateParent(p) ==
    /\ pc = "create"
    /\ p \in Above[Target]
    /\ ~Exists(p)
    /\ \A q \in Above[p] : Exists(q)
    /\ zk' = [zk EXCEPT ![p] = Stub]
    /\ UNCHANGED <<cache, loaded, callVars, erred, doubt>>

(* The answer may be lost: Curator then asks again, and the node exists.    *)
Create ==
    /\ pc = "create"
    /\ ~Exists(Target)
    /\ \A q \in Above[Target] : Exists(q)
    /\ zk' = [zk EXCEPT ![Target] = call.values[Target]]
    /\ \/ Return
       \/ /\ erred' = TRUE
          /\ UNCHANGED <<cache, loaded, callVars, doubt>>

NodeExists ==
    /\ pc = "create"
    /\ Exists(Target)
    /\ pc' = "setData"
    /\ UNCHANGED <<zk, cache, loaded, call, attempt, transaction, before, erred, doubt>>

SetData ==
    /\ pc = "setData"
    /\ zk' = [zk EXCEPT ![Target] = call.values[Target]]
    /\ Return \/ Throw(TRUE)

-----------------------------------------------------------------------------
(* 3. recursiveDelete: children first, one request each                     *)

DeleteNode(p) ==
    /\ pc = "delete"
    /\ p \in Under(Target)
    /\ Exists(p)
    /\ \A q \in Under(p) \ {p} : ~Exists(q)
    /\ zk' = [zk EXCEPT ![p] = None]
    /\ \/ p = Target /\ Return
       \/ p # Target /\ UNCHANGED <<cache, loaded, callVars, erred, doubt>>
       \/ /\ p = Target
          /\ erred' = TRUE
          /\ UNCHANGED <<cache, loaded, callVars, doubt>>

(* NOT_FOUND: there is no such node, or not any more, as Curator has asked  *)
(* again after the answer was lost.                                         *)
DeleteMissing ==
    /\ pc = "delete"
    /\ ~Exists(Target)
    /\ Throw(erred)
    /\ UNCHANGED zk

-----------------------------------------------------------------------------
(* 4. Transactions: setMany, recursiveDeleteMany, and the root's children   *)

Missing == {p \in Touched(call) : ~Exists(p)}

(* What exists decides what the transaction is made of.                     *)
Requests ==
    IF call.removes # {}
    THEN [NoTransaction EXCEPT !.delete = {p \in Removed(call) : Exists(p)}]
    ELSE [NoTransaction EXCEPT !.create = Missing, !.update = DOMAIN call.values \ Missing]

(* Mutant of Build: nodes that exist are taken as written.                  *)
BuildCreatesOnly ==
    /\ pc = "build"
    /\ transaction' = IF call.removes # {}
                      THEN [NoTransaction EXCEPT !.delete = {p \in Removed(call) : Exists(p)}]
                      ELSE [NoTransaction EXCEPT !.create = Missing]
    /\ pc' = "commit"
    /\ UNCHANGED <<zk, cache, loaded, call, attempt, before, erred, doubt>>

Build ==
    /\ pc = "build"
    /\ transaction' = Requests
    /\ pc' = "commit"
    /\ UNCHANGED <<zk, cache, loaded, call, attempt, before, erred, doubt>>

(* ZooKeeper applies all of it or, if it does not fit, nothing.             *)
Committed ==
    /\ pc = "commit"
    /\ \A p \in transaction.create : ~Exists(p)
    /\ \A p \in transaction.update \cup transaction.delete : Exists(p)
    /\ zk' = [p \in Paths |->
                 CASE p \in transaction.delete -> None
                   [] p \in transaction.create \ DOMAIN call.values -> Stub
                   [] p \in DOMAIN call.values \cap (transaction.create \cup transaction.update)
                         -> call.values[p]
                   [] OTHER -> zk[p]]

(* The root keeps its node, whose data is written afterwards.               *)
Commit ==
    /\ Committed
    /\ IF call.kind = "clear"
       THEN /\ pc' = "root"
            /\ UNCHANGED <<cache, loaded, call, attempt, transaction, before, erred, doubt>>
       ELSE Return

ClearRoot ==
    /\ pc = "root"
    /\ Return \/ Throw(TRUE)
    /\ UNCHANGED zk

(* Mutant of Retry: one attempt too many.                                   *)
RetryOnceMore ==
    IF call.kind # "clear" /\ attempt < MaxAttempts + 1
    THEN /\ attempt' = attempt + 1
         /\ pc' = "build"
         /\ erred' = TRUE
         /\ UNCHANGED <<cache, loaded, call, transaction, before, doubt>>
    ELSE Throw(TRUE)

(* Mutant of Retry: the attempts are not counted.                           *)
RetryAlways ==
    IF call.kind # "clear"
    THEN /\ attempt' = attempt
         /\ pc' = "build"
         /\ erred' = TRUE
         /\ UNCHANGED <<cache, loaded, call, transaction, before, doubt>>
    ELSE Throw(TRUE)

(* runTransactionWithRetries builds the transaction again; the exception of *)
(* the last attempt goes to the caller.  The root is not retried.           *)
Retry ==
    IF call.kind # "clear" /\ attempt < MaxAttempts
    THEN /\ attempt' = attempt + 1
         /\ pc' = "build"
         /\ erred' = TRUE
         /\ UNCHANGED <<cache, loaded, call, transaction, before, doubt>>
    ELSE Throw(TRUE)

(* commit() throws: nothing was applied, or the answer was lost.            *)
CommitFails ==
    /\ pc = "commit"
    /\ Committed \/ UNCHANGED zk
    /\ Retry

-----------------------------------------------------------------------------
(* 5. Failures and the specification                                        *)

(* The connection stays lost until Curator's retry policy gives up.  While  *)
(* a transaction is being built this is not retried.                        *)
GiveUp ==
    /\ pc \in {"create", "setData", "delete", "build"}
    /\ Throw(TRUE)
    /\ UNCHANGED zk

(* The process dies, and a new one will load what ZooKeeper holds.          *)
Crash ==
    /\ loaded
    /\ EndCall
    /\ loaded' = FALSE
    /\ doubt' = doubt \cup Touched(call)
    /\ UNCHANGED <<zk, cache>>

Init ==
    /\ zk = EmptyTree
    /\ cache = EmptyTree
    /\ loaded = FALSE
    /\ call = NoCall
    /\ pc = "idle"
    /\ attempt = 1
    /\ transaction = NoTransaction
    /\ before = EmptyTree
    /\ erred = FALSE
    /\ doubt = {}

Proceed ==
    \/ \E p \in Paths : CreateParent(p) \/ DeleteNode(p)
    \/ Create
    \/ NodeExists
    \/ SetData
    \/ DeleteMissing
    \/ Build
    \/ Commit
    \/ ClearRoot
    \/ CommitFails
    \/ GiveUp

Next ==
    \/ Load
    \/ Refresh
    \/ \E c \in Calls : Begin(c)
    \/ Proceed
    \/ Crash

Spec == Init /\ [][Next]_vars

(* A thread that holds the lock runs, and each request of Curator's returns *)
(* or throws in the end.                                                    *)
FairSpec == Spec /\ WF_vars(Proceed)

-----------------------------------------------------------------------------
(* 6. Properties                                                            *)

Labels == {"idle", "create", "setData", "delete", "build", "commit", "root"}

(* The types; ZooKeeper and the cache hold trees, no transaction is tried   *)
(* more than MaxAttempts times, and only a loaded cache is written through. *)
TypeOK ==
    /\ zk \in Trees
    /\ cache \in Trees
    /\ loaded \in BOOLEAN
    /\ call \in Calls \cup {NoCall}
    /\ pc \in Labels
    /\ call = NoCall <=> pc = "idle"
    /\ call # NoCall => loaded
    /\ attempt \in 1 .. MaxAttempts
    /\ transaction \in [create : SUBSET Paths, update : SUBSET Paths, delete : SUBSET Paths]
    /\ before \in Trees
    /\ erred \in BOOLEAN
    /\ doubt \subseteq Paths

(* A call on many paths is seen by nobody in part, whatever was lost and    *)
(* however often it was tried: a crash at any point finds all or nothing.   *)
ManyAtOnce == IsAtomic(call) => zk \in {before, Apply(call, before)}

(* The cache and its retries keep the promise of Storage: calls that        *)
(* returned survive a restart, and only the paths of calls that threw or    *)
(* were cut off may then be found changed.                                  *)
Abstract == INSTANCE Storage WITH view <- cache

ImplementsStorage == Abstract!Spec

(* The lock is given back: no sequence of failures keeps a call trying for  *)
(* ever, which would stop every reader and writer of the scheduler.         *)
CallsReturn == call # NoCall ~> call = NoCall
=============================================================================
