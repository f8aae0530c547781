-------------------------- MODULE PersistenceProofs --------------------------
(***************************************************************************)
(* Proofs about module Persistence, for any tree of paths, any values and   *)
(* any number of attempts: a call on many paths is all or nothing, and the  *)
(* cache with its retries implements Storage.                               *)
(***************************************************************************)
EXTENDS Persistence, TLAPS

-----------------------------------------------------------------------------
(* 1. What calls are, and what they do to a tree                            *)

Shape(c) ==
    /\ DOMAIN c.values \subseteq Leaves
    /\ \A p \in DOMAIN c.values : c.values[p] \in Values
    /\ c.removes \subseteq Paths
    /\ c.removes # {} => DOMAIN c.values = {}
    /\ c.kind \in {"set", "setMany", "delete", "deleteMany", "clear"}
    /\ c.kind = "set" => \E q \in Leaves : DOMAIN c.values = {q} /\ c.removes = {}
    /\ c.kind = "delete" => \E q \in Paths : DOMAIN c.values = {} /\ c.removes = {q}

LEMMA CallShape ==
    ASSUME NEW c \in Calls
    PROVE  Shape(c)
<1>1. CASE c \in {SetCall("set", f) : f \in Writes({{p} : p \in Leaves})}
  <2>1. PICK q \in Leaves : \E f \in [{q} -> Values] : c = SetCall("set", f)
    BY <1>1 DEF Writes
  <2> QED
    BY <2>1 DEF SetCall, Shape
<1>2. CASE c \in {SetCall("setMany", f) : f \in Writes((SUBSET Leaves) \ {{}})}
  BY <1>2 DEF Writes, SetCall, Shape
<1>3. CASE c \in DeleteCalls
  <2>1. PICK ps \in SUBSET Paths, kind \in {"delete", "deleteMany", "clear"} :
            /\ c = DeleteCall(kind, ps)
            /\ kind = "delete" => \E q \in Paths : ps = {q}
    BY <1>3 DEF DeleteCalls
  <2> QED
    BY <2>1 DEF DeleteCall, Shape
<1> QED
  BY <1>1, <1>2, <1>3 DEF Calls, SetCalls

LEMMA NotACall == NoCall \notin Calls
BY CallShape DEF Shape, NoCall

LEMMA LeavesArePaths == Leaves \subseteq Paths
BY DEF Leaves

(* The paths of a call, and what it removes, are paths; a leaf that it      *)
(* writes is above nothing.                                                 *)
LEMMA TouchedPaths ==
    ASSUME NEW c \in Calls
    PROVE  /\ Touched(c) \subseteq Paths
           /\ Removed(c) \subseteq Touched(c)
           /\ DOMAIN c.values \subseteq Touched(c)
           /\ \A p \in DOMAIN c.values : Above[p] \subseteq Touched(c)
BY CallShape, LeavesArePaths, TreeAssumption DEF Shape, Touched, Removed, Under

LEMMA EmptyTreeIsTree == EmptyTree \in Trees
BY DEF EmptyTree, Trees

(* A call maps trees to trees.                                              *)
LEMMA ApplyTree ==
    ASSUME NEW c \in Calls, NEW d \in Trees
    PROVE  Apply(c, d) \in Trees
<1> DEFINE e == Apply(c, d)
<1>1. ASSUME NEW p \in Paths PROVE e[p] \in Values \cup {Stub, None}
  BY CallShape DEF Shape, Apply, Trees
<1>2. ASSUME NEW p \in Paths, e[p] # None, NEW q \in Above[p] PROVE e[q] # None
  <2>0. q \in Paths /\ Above[q] \subseteq Above[p]
    BY TreeAssumption
  <2>1. p \notin Removed(c)
    <3>1. p \in Removed(c) => p \notin DOMAIN c.values
      BY CallShape DEF Shape, Removed
    <3> QED
      BY <1>2, <3>1 DEF Apply
  <2>2. q \notin Removed(c)
    <3>1. SUFFICES ASSUME NEW r \in c.removes, q \in Under(r) PROVE FALSE
      BY DEF Removed
    <3>2. r \in Paths
      BY CallShape DEF Shape
    <3>3. p \in Under(r)
      BY <2>0, <3>1, <3>2 DEF Under
    <3> QED
      BY <2>1, <3>3 DEF Removed
  <2>3. q \notin DOMAIN c.values
    BY CallShape, <1>2 DEF Shape, Leaves
  <2>4. CASE d[q] # None
    BY <2>0, <2>2, <2>3, <2>4, TreeAssumption DEF Apply
  <2>5. CASE d[q] = None
    <3>1. d[p] = None
      BY <2>0, <2>5, <1>2 DEF Trees
    <3>2. p \in Touched(c)
      BY <1>2, <3>1, TouchedPaths DEF Apply
    <3>3. \E r \in DOMAIN c.values : p \in Above[r] \cup {r}
      BY <2>1, <3>2 DEF Touched
    <3>4. PICK r \in DOMAIN c.values : p \in Above[r] \cup {r}
      BY <3>3
    <3>5. q \in Above[r]
      BY <3>4, <1>2, <2>0, TreeAssumption, CallShape, LeavesArePaths DEF Shape
    <3>6. q \in Touched(c)
      BY <3>4, <3>5, TouchedPaths
    <3> QED
      BY <2>0, <2>2, <2>3, <2>5, <3>6, TreeAssumption DEF Apply
  <2> QED
    BY <2>4, <2>5
<1> QED
  BY <1>1, <1>2 DEF Apply, Trees

(* Applying a call again changes nothing.                                   *)
LEMMA ApplyAgain ==
    ASSUME NEW c \in Calls, NEW d \in Trees
    PROVE  Apply(c, Apply(c, d)) = Apply(c, d)
BY TreeAssumption DEF Apply

-----------------------------------------------------------------------------
(* 2. The invariant                                                         *)

(* Between calls, the cache holds what ZooKeeper holds, but for the paths   *)
(* in doubt; during a call, this is so of what ZooKeeper held before.       *)
Coherent ==
    /\ call = NoCall => \A p \in Paths \ doubt : zk[p] = cache[p]
    /\ call # NoCall => \A p \in Paths \ doubt : before[p] = cache[p]

(* Each node is as it was before the call or as it will be after it; a call *)
(* on many paths has done nothing or all.                                   *)
PartWay ==
    /\ call # NoCall => \A p \in Paths : zk[p] \in {before[p], Apply(call, before)[p]}
    /\ IsAtomic(call) => zk \in {before, Apply(call, before)}
    /\ pc = "root" => zk = Apply(call, before)

(* Which calls are at which label; what is known there.                     *)
AtLabel ==
    /\ pc \in {"create", "setData"} => call.kind = "set"
    /\ pc = "setData" => zk[Target] # None
    /\ pc = "delete" => call.kind = "delete"
    /\ pc \in {"build", "commit", "root"} => IsAtomic(call)
    /\ pc = "commit" => transaction = Requests

(* A path found missing by its delete was missing all the time, unless a    *)
(* request went wrong.                                                      *)
DeletedUnheard == pc = "delete" /\ ~erred /\ zk[Target] = None => zk = before

StorageInv ==
    /\ TypeOK
    /\ Coherent
    /\ PartWay
    /\ AtLabel
    /\ DeletedUnheard

Step == [Abstract!Next]_(Abstract!storageVars)

(* Storage speaks of the same trees and calls.                              *)
LEMMA SameTree ==
    /\ Abstract!Trees = Trees
    /\ Abstract!EmptyTree = EmptyTree
    /\ Abstract!Calls = Calls
    /\ \A c : Abstract!Touched(c) = Touched(c)
    /\ \A c, d : Abstract!Apply(c, d) = Apply(c, d)
<1>1. Abstract!Trees = Trees /\ Abstract!EmptyTree = EmptyTree
  BY DEF Abstract!Trees, Trees, Abstract!EmptyTree, EmptyTree
<1>2. Abstract!Calls = Calls
  BY DEF Abstract!Calls, Calls, Abstract!SetCalls, SetCalls, Abstract!DeleteCalls, DeleteCalls,
         Abstract!SetCall, SetCall, Abstract!DeleteCall, DeleteCall, Abstract!Writes, Writes,
         Abstract!Leaves, Leaves
<1>3. \A c : Abstract!Removed(c) = Removed(c)
  BY DEF Abstract!Removed, Removed, Abstract!Under, Under
<1>4. \A c : Abstract!Touched(c) = Touched(c)
  BY <1>3 DEF Abstract!Touched, Touched
<1>5. \A c, d : Abstract!Apply(c, d) = Apply(c, d)
  BY <1>3, <1>4 DEF Abstract!Apply, Apply
<1> QED
  BY <1>1, <1>2, <1>4, <1>5

LEMMA IdleType ==
    /\ NoTransaction \in [create : SUBSET Paths, update : SUBSET Paths, delete : SUBSET Paths]
    /\ 1 \in 1 .. MaxAttempts
BY AttemptsAssumption DEF NoTransaction

LEMMA TargetOfSet ==
    ASSUME call \in Calls, call.kind = "set"
    PROVE  /\ Target \in Leaves /\ Target \in Paths
           /\ DOMAIN call.values = {Target} /\ call.removes = {}
           /\ call.values[Target] \in Values
           /\ Touched(call) = Above[Target] \cup {Target}
           /\ Removed(call) = {}
<1>1. PICK q \in Leaves : DOMAIN call.values = {q} /\ call.removes = {}
  BY CallShape DEF Shape
<1>2. Target = q
  BY <1>1, LeavesArePaths DEF Target
<1> QED
  BY <1>1, <1>2, CallShape, LeavesArePaths DEF Shape, Touched, Removed

LEMMA TargetOfDelete ==
    ASSUME call \in Calls, call.kind = "delete"
    PROVE  /\ Target \in Paths
           /\ DOMAIN call.values = {} /\ call.removes = {Target}
           /\ Removed(call) = Under(Target) /\ Touched(call) = Under(Target)
<1>1. PICK q \in Paths : DOMAIN call.values = {} /\ call.removes = {q}
  BY CallShape DEF Shape
<1>2. Target = q
  BY <1>1 DEF Target
<1> QED
  BY <1>1, <1>2 DEF Touched, Removed

(* Writing a node whose parents are there, or removing one without          *)
(* children, leaves a tree.                                                 *)
LEMMA WriteTree ==
    ASSUME NEW d \in Trees, NEW p \in Paths, NEW v \in Values \cup {Stub},
           \A q \in Above[p] : d[q] # None
    PROVE  [d EXCEPT ![p] = v] \in Trees
BY TreeAssumption DEF Trees

LEMMA RemoveTree ==
    ASSUME NEW d \in Trees, NEW p \in Paths, \A q \in Under(p) \ {p} : d[q] = None
    PROVE  [d EXCEPT ![p] = None] \in Trees
BY TreeAssumption DEF Trees, Under

(* A transaction that is applied does what the call does.                   *)
LEMMA CommitApplies ==
    ASSUME call \in Calls, zk \in Trees, transaction = Requests, Committed
    PROVE  zk' = Apply(call, zk)
<1>1. CASE call.removes # {}
  <2>1. DOMAIN call.values = {} /\ Touched(call) = Removed(call)
    BY <1>1, CallShape DEF Shape, Touched
  <2>2. transaction.create = {} /\ transaction.update = {} /\ transaction.delete = {p \in Removed(call) : Exists(p)}
    BY <1>1 DEF Requests, NoTransaction
  <2> QED
    BY <2>1, <2>2 DEF Committed, Apply, Exists
<1>2. CASE call.removes = {}
  <2>1. Removed(call) = {}
    BY <1>2 DEF Removed
  <2>2. /\ transaction.create = Missing /\ transaction.update = DOMAIN call.values \ Missing
        /\ transaction.delete = {}
    BY <1>2 DEF Requests, NoTransaction
  <2>3. DOMAIN call.values \subseteq Touched(call)
    BY TouchedPaths
  <2>4. ASSUME NEW p \in Paths PROVE zk'[p] = Apply(call, zk)[p]
    <3>1. p \in Missing <=> p \in Touched(call) /\ zk[p] = None
      BY DEF Missing, Exists
    <3>2. zk'[p] = CASE p \in Missing \ DOMAIN call.values -> Stub
                     [] p \in DOMAIN call.values -> call.values[p]
                     [] OTHER -> zk[p]
      BY <2>2, <2>3 DEF Committed
    <3>3. Apply(call, zk)[p] = IF p \in DOMAIN call.values THEN call.values[p]
                               ELSE IF p \in Touched(call) /\ zk[p] = None THEN Stub ELSE zk[p]
      BY <2>1 DEF Apply
    <3> QED
      BY <3>1, <3>2, <3>3
  <2> QED
    BY <2>4 DEF Committed, Apply
<1> QED
  BY <1>1, <1>2

-----------------------------------------------------------------------------
(* 3. How a call ends and how it goes on                                    *)

(* What is known during a call.                                             *)
LEMMA DuringCall ==
    ASSUME StorageInv, pc # "idle"
    PROVE  /\ call \in Calls /\ call # NoCall /\ loaded
           /\ zk \in Trees /\ before \in Trees /\ cache \in Trees
           /\ \A p \in Paths \ doubt : before[p] = cache[p]
           /\ \A p \in Paths : zk[p] \in {before[p], Apply(call, before)[p]}
BY DEF StorageInv, TypeOK, Coherent, PartWay

LEMMA ReturnOutcome ==
    ASSUME StorageInv, pc # "idle", Return,
           zk' \in Trees, \A p \in Paths : zk'[p] = Apply(call, before)[p]
    PROVE  StorageInv' /\ Step
<1>1. call \in Calls /\ \A p \in Paths \ doubt : before[p] = cache[p]
  BY DuringCall
<1>2. \A p \in Paths \ doubt : zk'[p] = cache'[p]
  BY <1>1 DEF Return, Apply
<1>3. cache' \in Trees
  BY <1>1, DuringCall, ApplyTree DEF Return
<1>4. TypeOK'
  BY <1>3, EmptyTreeIsTree, IdleType DEF Return, EndCall, StorageInv, TypeOK, Labels
<1>5. Coherent' /\ PartWay' /\ AtLabel' /\ DeletedUnheard'
  BY <1>2 DEF Return, EndCall, Coherent, PartWay, AtLabel, DeletedUnheard, IsAtomic, NoCall
<1>6. Abstract!Return(call)
  BY SameTree DEF Return, Abstract!Return
<1> QED
  BY <1>1, <1>4, <1>5, <1>6, SameTree DEF StorageInv, Step, Abstract!Next

LEMMA ThrowOutcome ==
    ASSUME StorageInv, pc # "idle", NEW error \in BOOLEAN, Throw(error),
           zk' \in Trees, \A p \in Paths \ Touched(call) : zk'[p] = before[p],
           ~error => zk' = before
    PROVE  StorageInv' /\ Step
<1>1. call \in Calls /\ \A p \in Paths \ doubt : before[p] = cache[p]
  BY DuringCall
<1>2. \A p \in Paths \ doubt' : zk'[p] = cache'[p]
  BY <1>1 DEF Throw
<1>3. doubt' \subseteq Paths
  BY <1>1, TouchedPaths DEF Throw, StorageInv, TypeOK
<1>4. TypeOK'
  BY <1>3, EmptyTreeIsTree, IdleType DEF Throw, EndCall, StorageInv, TypeOK, Labels
<1>5. Coherent' /\ PartWay' /\ AtLabel' /\ DeletedUnheard'
  BY <1>2 DEF Throw, EndCall, Coherent, PartWay, AtLabel, DeletedUnheard, IsAtomic, NoCall
<1>6. Abstract!Throw(call) \/ UNCHANGED (Abstract!storageVars)
  BY SameTree DEF Throw, Abstract!Throw, Abstract!storageVars
<1> QED
  BY <1>1, <1>4, <1>5, <1>6, SameTree DEF StorageInv, Step, Abstract!Next

(* Outside what it touches, a call has changed nothing.                     *)
LEMMA OnlyTouched ==
    ASSUME NEW c \in Calls, NEW d \in Trees, NEW p \in Paths \ Touched(c)
    PROVE  Apply(c, d)[p] = d[p]
BY TouchedPaths DEF Apply

LEMMA ThrowUnchanged ==
    ASSUME StorageInv, pc # "idle", Throw(TRUE), zk' \in Trees,
           \A p \in Paths : zk'[p] \in {before[p], Apply(call, before)[p]}
    PROVE  StorageInv' /\ Step
<1>1. \A p \in Paths \ Touched(call) : zk'[p] = before[p]
  BY DuringCall, OnlyTouched
<1> QED
  BY <1>1, ThrowOutcome

LEMMA CallGoesOn ==
    ASSUME StorageInv, pc # "idle", UNCHANGED <<cache, loaded, call, before, doubt>>,
           zk' \in Trees, pc' \in Labels \ {"idle"}, attempt' \in 1 .. MaxAttempts,
           transaction' \in [create : SUBSET Paths, update : SUBSET Paths, delete : SUBSET Paths],
           erred' \in BOOLEAN,
           \A p \in Paths : zk'[p] \in {before[p], Apply(call, before)[p]},
           IsAtomic(call) => zk' \in {before, Apply(call, before)},
           pc' = "root" => zk' = Apply(call, before),
           AtLabel', DeletedUnheard'
    PROVE  StorageInv' /\ Step
<1>1. TypeOK'
  BY DuringCall DEF StorageInv, TypeOK
<1>2. Coherent' /\ PartWay'
  BY DuringCall DEF Coherent, PartWay
<1>3. UNCHANGED (Abstract!storageVars)
  BY DEF Abstract!storageVars
<1> QED
  BY <1>1, <1>2, <1>3 DEF StorageInv, Step

-----------------------------------------------------------------------------
(* 4. set and recursiveDelete                                               *)

LEMMA CreateParentStep ==
    ASSUME StorageInv, NEW p \in Paths, CreateParent(p)
    PROVE  StorageInv' /\ Step
<1>1. pc = "create" /\ call.kind = "set" /\ call \in Calls /\ p \in Above[Target]
  BY DuringCall DEF StorageInv, AtLabel, CreateParent
<1>2. /\ Target \in Paths /\ Touched(call) = Above[Target] \cup {Target}
      /\ DOMAIN call.values = {Target} /\ Removed(call) = {}
  BY <1>1, TargetOfSet
<1>3. p # Target
  BY <1>1, <1>2, TreeAssumption
<1>4. zk[p] = None /\ zk' = [zk EXCEPT ![p] = Stub]
  BY DEF CreateParent, Exists
<1>5. zk \in Trees /\ \A q \in Paths : zk[q] \in {before[q], Apply(call, before)[q]}
  BY <1>1, DuringCall
<1>6. before[p] = None
  BY <1>2, <1>3, <1>4, <1>5, <1>1, TreeAssumption DEF Apply
<1>7. Apply(call, before)[p] = Stub
  BY <1>1, <1>2, <1>3, <1>6 DEF Apply
<1>8. zk' \in Trees
  <2>1. Stub \in Values \cup {Stub} /\ \A q \in Above[p] : zk[q] # None
    BY DEF CreateParent, Exists
  <2>2. [zk EXCEPT ![p] = Stub] \in Trees
    BY <1>5, <2>1, WriteTree
  <2> QED
    BY <1>4, <2>2
<1>9. \A q \in Paths : zk'[q] \in {before[q], Apply(call, before)[q]}
  BY <1>4, <1>5, <1>7 DEF Trees
<1>10. AtLabel' /\ DeletedUnheard'
  BY <1>1 DEF CreateParent, callVars, StorageInv, AtLabel, DeletedUnheard
<1> QED
  BY <1>1, <1>8, <1>9, <1>10, CallGoesOn
     DEF CreateParent, callVars, StorageInv, TypeOK, IsAtomic, Labels

(* The value is written below parents that are there.                       *)
LEMMA ValueWritten ==
    ASSUME StorageInv, pc \in {"create", "setData"}, \A q \in Above[Target] : Exists(q),
           zk' = [zk EXCEPT ![Target] = call.values[Target]]
    PROVE  zk' \in Trees /\ \A p \in Paths : zk'[p] = Apply(call, before)[p]
<1>1. call.kind = "set" /\ call \in Calls
  BY DuringCall DEF StorageInv, AtLabel
<1>2. /\ Target \in Paths /\ Touched(call) = Above[Target] \cup {Target}
      /\ DOMAIN call.values = {Target} /\ Removed(call) = {} /\ call.values[Target] \in Values
  BY <1>1, TargetOfSet
<1>3. zk \in Trees /\ \A q \in Paths : zk[q] \in {before[q], Apply(call, before)[q]}
  BY DuringCall
<1>4. zk' \in Trees
  BY <1>2, <1>3, WriteTree DEF Exists
<1>5. ASSUME NEW p \in Paths, p # Target PROVE zk'[p] = Apply(call, before)[p]
  <2>1. zk'[p] = zk[p]
    BY <1>3, <1>5 DEF Trees
  <2>2. Apply(call, before)[p] = IF p \in Above[Target] /\ before[p] = None THEN Stub ELSE before[p]
    BY <1>2, <1>5 DEF Apply
  <2>3. p \in Above[Target] => zk[p] # None
    BY DEF Exists
  <2> QED
    BY <1>3, <2>1, <2>2, <2>3
<1>6. zk'[Target] = Apply(call, before)[Target]
  BY <1>2, <1>3 DEF Apply, Trees
<1> QED
  BY <1>4, <1>5, <1>6

LEMMA CreateStep ==
    ASSUME StorageInv, Create
    PROVE  StorageInv' /\ Step
<1>1. pc = "create" /\ call.kind = "set" /\ call \in Calls
  BY DuringCall DEF StorageInv, AtLabel, Create
<1>2. zk' \in Trees /\ \A p \in Paths : zk'[p] = Apply(call, before)[p]
  BY <1>1, ValueWritten DEF Create
<1>3. CASE Return
  BY <1>1, <1>2, <1>3, ReturnOutcome
<1>4. CASE erred' = TRUE /\ UNCHANGED <<cache, loaded, callVars, doubt>>
  <2>1. AtLabel' /\ DeletedUnheard'
    BY <1>1, <1>4 DEF callVars, AtLabel, DeletedUnheard
  <2> QED
    BY <1>1, <1>2, <1>4, <2>1, CallGoesOn DEF callVars, StorageInv, TypeOK, IsAtomic, Labels
<1> QED
  BY <1>3, <1>4 DEF Create

LEMMA NodeExistsStep ==
    ASSUME StorageInv, NodeExists
    PROVE  StorageInv' /\ Step
<1>1. pc = "create" /\ call.kind = "set" /\ pc' = "setData"
  BY DuringCall DEF StorageInv, AtLabel, NodeExists
<1>2. AtLabel' /\ DeletedUnheard'
  BY <1>1 DEF NodeExists, Exists, Target, AtLabel, DeletedUnheard
<1> QED
  BY <1>1, <1>2, DuringCall, CallGoesOn DEF NodeExists, StorageInv, TypeOK, IsAtomic, Labels

LEMMA SetDataStep ==
    ASSUME StorageInv, SetData
    PROVE  StorageInv' /\ Step
<1>1. pc = "setData" /\ call.kind = "set" /\ call \in Calls /\ zk \in Trees /\ Exists(Target)
  BY DuringCall DEF StorageInv, AtLabel, SetData, Exists
<1>2. \A q \in Above[Target] : Exists(q)
  BY <1>1, TargetOfSet DEF Trees, Exists
<1>3. zk' \in Trees /\ \A p \in Paths : zk'[p] = Apply(call, before)[p]
  BY <1>1, <1>2, ValueWritten DEF SetData
<1> QED
  BY <1>1, <1>3, ReturnOutcome, ThrowUnchanged DEF SetData

LEMMA DeleteNodeStep ==
    ASSUME StorageInv, NEW p \in Paths, DeleteNode(p)
    PROVE  StorageInv' /\ Step
<1>1. pc = "delete" /\ call.kind = "delete" /\ call \in Calls /\ p \in Under(Target)
  BY DuringCall DEF StorageInv, AtLabel, DeleteNode
<1>2. /\ Target \in Paths /\ DOMAIN call.values = {}
      /\ Removed(call) = Under(Target) /\ Touched(call) = Under(Target)
  BY <1>1, TargetOfDelete
<1>3. zk \in Trees /\ zk' = [zk EXCEPT ![p] = None] /\ \A q \in Under(p) \ {p} : zk[q] = None
  BY DuringCall, <1>1 DEF DeleteNode, Exists
<1>4. zk' \in Trees
  BY <1>3, RemoveTree
<1>5. \A q \in Paths : zk[q] \in {before[q], Apply(call, before)[q]}
  BY DuringCall, <1>1
<1>6. \A q \in Paths : zk'[q] \in {before[q], Apply(call, before)[q]}
  BY <1>1, <1>2, <1>3, <1>5 DEF Apply, Trees
<1>7. CASE p = Target /\ Return
  <2>1. ASSUME NEW q \in Paths PROVE zk'[q] = Apply(call, before)[q]
    <3>1. CASE q \in Under(Target)
      BY <1>2, <1>3, <1>7, <3>1 DEF Apply, Trees
    <3>2. CASE q \notin Under(Target)
      BY <1>2, <1>6, <3>2 DEF Apply
    <3> QED
      BY <3>1, <3>2
  <2> QED
    BY <1>1, <1>4, <1>7, <2>1, ReturnOutcome
<1>8. CASE p # Target /\ UNCHANGED <<cache, loaded, callVars, erred, doubt>>
  <2>1. zk'[Target] # None
    <3>1. Target \in Above[p]
      BY <1>1, <1>8 DEF Under
    <3>2. zk[Target] # None
      BY <1>3, <3>1 DEF DeleteNode, Exists, Trees
    <3> QED
      BY <1>2, <1>3, <1>8, <3>2 DEF Trees
  <2>2. AtLabel' /\ DeletedUnheard'
    BY <1>1, <1>8, <2>1 DEF callVars, AtLabel, DeletedUnheard, Target
  <2> QED
    BY <1>1, <1>4, <1>6, <1>8, <2>2, CallGoesOn DEF callVars, StorageInv, TypeOK, IsAtomic, Labels
<1>9. CASE erred' = TRUE /\ UNCHANGED <<cache, loaded, callVars, doubt>>
  <2>1. AtLabel' /\ DeletedUnheard'
    BY <1>1, <1>9 DEF callVars, AtLabel, DeletedUnheard
  <2> QED
    BY <1>1, <1>4, <1>6, <1>9, <2>1, CallGoesOn DEF callVars, StorageInv, TypeOK, IsAtomic, Labels
<1> QED
  BY <1>7, <1>8, <1>9 DEF DeleteNode

LEMMA DeleteMissingStep ==
    ASSUME StorageInv, DeleteMissing
    PROVE  StorageInv' /\ Step
<1>1. pc = "delete" /\ zk' = zk /\ zk[Target] = None
  BY DEF DeleteMissing, Exists
<1>2. call \in Calls /\ before \in Trees /\ zk' \in Trees
  BY <1>1, DuringCall
<1>3. \A p \in Paths \ Touched(call) : zk'[p] = before[p]
  BY <1>1, <1>2, DuringCall, OnlyTouched
<1>4. erred \in BOOLEAN /\ (~erred => zk' = before)
  BY <1>1 DEF StorageInv, TypeOK, DeletedUnheard
<1> QED
  BY <1>1, <1>2, <1>3, <1>4, ThrowOutcome DEF DeleteMissing

-----------------------------------------------------------------------------
(* 5. Transactions                                                          *)

LEMMA RequestsType ==
    ASSUME call \in Calls
    PROVE  Requests \in [create : SUBSET Paths, update : SUBSET Paths, delete : SUBSET Paths]
<1>1. /\ Removed(call) \subseteq Paths /\ DOMAIN call.values \subseteq Paths /\ Touched(call) \subseteq Paths
  BY TouchedPaths
<1> QED
  BY <1>1 DEF Requests, NoTransaction, Missing

LEMMA BuildStep ==
    ASSUME StorageInv, Build
    PROVE  StorageInv' /\ Step
<1>1. pc = "build" /\ pc' = "commit" /\ call \in Calls /\ IsAtomic(call) /\ zk' = zk
  BY DuringCall DEF StorageInv, AtLabel, Build
<1>2. Requests' = Requests
  BY <1>1 DEF Build, Requests, Missing, Exists
<1>3. AtLabel' /\ DeletedUnheard'
  BY <1>1, <1>2 DEF Build, AtLabel, DeletedUnheard
<1> QED
  BY <1>1, <1>3, RequestsType, DuringCall, CallGoesOn DEF Build, StorageInv, TypeOK, PartWay, Labels

(* After any attempt that was applied, the whole call has been.             *)
LEMMA CommittedOutcome ==
    ASSUME StorageInv, Committed
    PROVE  zk' = Apply(call, before) /\ zk' \in Trees
<1>1. call \in Calls /\ zk \in Trees /\ before \in Trees
  BY DuringCall DEF Committed
<1>2. zk' = Apply(call, zk)
  BY <1>1, CommitApplies DEF StorageInv, AtLabel, Committed
<1>3. zk \in {before, Apply(call, before)}
  BY DEF Committed, StorageInv, AtLabel, PartWay
<1> QED
  BY <1>1, <1>2, <1>3, ApplyAgain, ApplyTree

LEMMA CommitStep ==
    ASSUME StorageInv, Commit
    PROVE  StorageInv' /\ Step
<1>1. pc = "commit" /\ call \in Calls /\ IsAtomic(call)
  BY DuringCall DEF Commit, Committed, StorageInv, AtLabel
<1>2. zk' = Apply(call, before) /\ zk' \in Trees
  BY CommittedOutcome DEF Commit
<1>3. CASE pc' = "root" /\ UNCHANGED <<cache, loaded, call, attempt, transaction, before, erred, doubt>>
  <2>1. AtLabel' /\ DeletedUnheard'
    BY <1>1, <1>3 DEF AtLabel, DeletedUnheard
  <2> QED
    BY <1>1, <1>2, <1>3, <2>1, CallGoesOn DEF StorageInv, TypeOK, Labels
<1>4. CASE Return
  BY <1>1, <1>2, <1>4, ReturnOutcome
<1> QED
  BY <1>3, <1>4 DEF Commit

LEMMA ClearRootStep ==
    ASSUME StorageInv, ClearRoot
    PROVE  StorageInv' /\ Step
<1>1. pc = "root" /\ zk' = zk /\ zk = Apply(call, before) /\ zk' \in Trees
  BY DuringCall DEF ClearRoot, StorageInv, PartWay
<1> QED
  BY <1>1, ReturnOutcome, ThrowUnchanged DEF ClearRoot

LEMMA CommitFailsStep ==
    ASSUME StorageInv, CommitFails
    PROVE  StorageInv' /\ Step
<1>1. pc = "commit" /\ call \in Calls /\ IsAtomic(call)
  BY DuringCall DEF CommitFails, StorageInv, AtLabel
<1>2. zk \in {before, Apply(call, before)} /\ zk \in Trees
  BY <1>1, DuringCall DEF StorageInv, PartWay
<1>3. zk' \in {before, Apply(call, before)} /\ zk' \in Trees
  BY <1>2, CommittedOutcome DEF CommitFails
<1>4. CASE Throw(TRUE)
  BY <1>1, <1>3, <1>4, ThrowUnchanged
<1>5. CASE /\ attempt < MaxAttempts /\ attempt' = attempt + 1 /\ pc' = "build" /\ erred' = TRUE
           /\ UNCHANGED <<cache, loaded, call, transaction, before, doubt>>
  <2>1. AtLabel' /\ DeletedUnheard'
    BY <1>1, <1>5 DEF AtLabel, DeletedUnheard
  <2>2. attempt' \in 1 .. MaxAttempts
    BY <1>5, AttemptsAssumption DEF StorageInv, TypeOK
  <2> QED
    BY <1>1, <1>3, <1>5, <2>1, <2>2, CallGoesOn DEF StorageInv, TypeOK, Labels
<1> QED
  BY <1>4, <1>5 DEF CommitFails, Retry

LEMMA GiveUpStep ==
    ASSUME StorageInv, GiveUp
    PROVE  StorageInv' /\ Step
<1>1. pc # "idle" /\ zk' = zk /\ Throw(TRUE)
  BY DEF GiveUp
<1> QED
  BY <1>1, DuringCall, ThrowUnchanged

-----------------------------------------------------------------------------
(* 6. The process                                                           *)

LEMMA LoadStep ==
    ASSUME StorageInv, Load
    PROVE  StorageInv' /\ Step
<1>1. call = NoCall /\ call' = NoCall /\ pc = "idle" /\ pc' = "idle"
  BY DEF Load, callVars, StorageInv, TypeOK
<1>2. cache' = zk /\ zk' = zk /\ zk \in Trees /\ doubt' = {}
  BY DEF Load, StorageInv, TypeOK
<1>3. TypeOK'
  BY <1>1, <1>2 DEF Load, callVars, StorageInv, TypeOK
<1>4. Coherent' /\ PartWay' /\ AtLabel' /\ DeletedUnheard'
  BY <1>1, <1>2 DEF Coherent, PartWay, AtLabel, DeletedUnheard, IsAtomic, NoCall
<1>5. \A p \in Paths \ doubt : cache'[p] = cache[p]
  BY <1>1, <1>2 DEF StorageInv, Coherent
<1>6. Abstract!Reload
  BY <1>2, <1>5, SameTree DEF Abstract!Reload
<1> QED
  BY <1>3, <1>4, <1>6 DEF StorageInv, Step, Abstract!Next

LEMMA RefreshStep ==
    ASSUME StorageInv, Refresh
    PROVE  StorageInv' /\ Step
<1>1. TypeOK'
  BY DEF Refresh, callVars, StorageInv, TypeOK
<1>2. Coherent' /\ PartWay' /\ AtLabel' /\ DeletedUnheard'
  BY NotACall DEF Refresh, callVars, StorageInv, TypeOK, Coherent, PartWay, AtLabel, DeletedUnheard,
         IsAtomic, NoCall
<1>3. UNCHANGED (Abstract!storageVars)
  BY DEF Refresh, Abstract!storageVars
<1> QED
  BY <1>1, <1>2, <1>3 DEF StorageInv, Step

LEMMA BeginStep ==
    ASSUME StorageInv, NEW c \in Calls, Begin(c)
    PROVE  StorageInv' /\ Step
<1>1. /\ call = NoCall /\ call' = c /\ c # NoCall /\ before' = zk /\ zk' = zk /\ erred' = FALSE
      /\ UNCHANGED <<cache, loaded, doubt>> /\ loaded
  BY NotACall DEF Begin
<1>2. c.kind \in {"set", "setMany", "delete", "deleteMany", "clear"}
  BY CallShape DEF Shape
<1>3. /\ pc' \in {"create", "delete", "build"}
      /\ pc' = "create" => c.kind = "set"
      /\ pc' = "delete" => c.kind = "delete"
      /\ pc' = "build" => IsAtomic(c)
  BY <1>2 DEF Begin, IsAtomic
<1>4. TypeOK'
  <2>1. /\ pc' \in Labels /\ (call' = NoCall <=> pc' = "idle") /\ call' \in Calls \cup {NoCall}
        /\ attempt' \in 1 .. MaxAttempts /\ UNCHANGED transaction
    BY <1>1, <1>3, IdleType DEF Begin, Labels
  <2> QED
    BY <1>1, <2>1 DEF StorageInv, TypeOK
<1>5. Coherent' /\ AtLabel' /\ DeletedUnheard'
  BY <1>1, <1>3 DEF StorageInv, Coherent, AtLabel, DeletedUnheard
<1>6. PartWay'
  BY <1>1, <1>3 DEF PartWay
<1>7. UNCHANGED (Abstract!storageVars)
  BY <1>1 DEF Abstract!storageVars
<1> QED
  BY <1>4, <1>5, <1>6, <1>7 DEF StorageInv, Step

LEMMA CrashStep ==
    ASSUME StorageInv, Crash
    PROVE  StorageInv' /\ Step
<1>1. zk' = zk /\ cache' = cache /\ doubt' = doubt \cup Touched(call) /\ call' = NoCall /\ pc' = "idle"
  BY DEF Crash, EndCall
<1>2. Touched(call) \subseteq Paths
  BY TouchedPaths DEF StorageInv, TypeOK, NoCall, Touched, Removed
<1>3. \A p \in Paths \ doubt' : zk'[p] = cache'[p]
  <2>1. CASE call = NoCall
    BY <1>1, <2>1 DEF StorageInv, Coherent
  <2>2. CASE call # NoCall
    BY <1>1, <2>2, DuringCall, OnlyTouched DEF StorageInv, TypeOK
  <2> QED
    BY <2>1, <2>2
<1>4. TypeOK'
  BY <1>1, <1>2, EmptyTreeIsTree, IdleType DEF Crash, EndCall, StorageInv, TypeOK, Labels
<1>5. Coherent' /\ PartWay' /\ AtLabel' /\ DeletedUnheard'
  BY <1>1, <1>3 DEF Coherent, PartWay, AtLabel, DeletedUnheard, IsAtomic, NoCall
<1>6. CASE call = NoCall
  <2>1. Touched(call) = {}
    BY <1>6 DEF NoCall, Touched, Removed
  <2> QED
    BY <1>1, <1>4, <1>5, <2>1 DEF StorageInv, Step, Abstract!storageVars
<1>7. CASE call \in Calls
  <2>1. Abstract!Throw(call)
    BY <1>1, SameTree DEF Abstract!Throw
  <2> QED
    BY <1>4, <1>5, <1>7, <2>1, SameTree DEF StorageInv, Step, Abstract!Next
<1> QED
  BY <1>6, <1>7 DEF StorageInv, TypeOK

LEMMA StutterStep ==
    ASSUME StorageInv, UNCHANGED vars
    PROVE  StorageInv' /\ Step
<1>1. TypeOK' /\ Coherent' /\ PartWay'
  BY DEF vars, callVars, StorageInv, TypeOK, Coherent, PartWay
<1>2. AtLabel' /\ DeletedUnheard'
  BY DEF vars, callVars, StorageInv, AtLabel, DeletedUnheard, Target, Requests, Missing, Exists
<1> QED
  BY <1>1, <1>2 DEF StorageInv, Step, Abstract!storageVars, vars

LEMMA InitStorageInv == Init => StorageInv
<1> SUFFICES ASSUME Init PROVE StorageInv
  OBVIOUS
<1>1. TypeOK
  BY EmptyTreeIsTree, IdleType DEF Init, TypeOK, Labels
<1>2. Coherent /\ PartWay /\ AtLabel /\ DeletedUnheard
  BY DEF Init, Coherent, PartWay, AtLabel, DeletedUnheard, IsAtomic, NoCall
<1> QED
  BY <1>1, <1>2 DEF StorageInv

LEMMA NextStorageInv == StorageInv /\ [Next]_vars => StorageInv' /\ Step
<1> SUFFICES ASSUME StorageInv, [Next]_vars PROVE StorageInv' /\ Step
  OBVIOUS
<1>1. CASE Proceed
  BY <1>1, CreateParentStep, DeleteNodeStep, CreateStep, NodeExistsStep, SetDataStep, DeleteMissingStep,
     BuildStep, CommitStep, ClearRootStep, CommitFailsStep, GiveUpStep DEF Proceed
<1>2. CASE Load \/ Refresh \/ Crash \/ \E c \in Calls : Begin(c)
  BY <1>2, LoadStep, RefreshStep, CrashStep, BeginStep
<1> QED
  BY <1>1, <1>2, StutterStep DEF Next

-----------------------------------------------------------------------------
(* 7. The theorems                                                          *)

(* What ZooKeeper holds at every point of a call, for every kind of call.   *)
THEOREM StorageInvariant == Spec => []StorageInv
<1> QED
  BY InitStorageInv, NextStorageInv, PTL DEF Spec

(* The types; among them, that every intermediate state is a tree and that  *)
(* a transaction is tried at most MaxAttempts times.                        *)
THEOREM TypeCorrect == Spec => []TypeOK
<1>1. StorageInv => TypeOK
  BY DEF StorageInv
<1> QED
  BY <1>1, StorageInvariant, PTL

(* A crash or a lost answer in any attempt of setMany, recursiveDeleteMany  *)
(* or clear leaves all of its changes or none.                              *)
THEOREM ManyAtOnceHolds == Spec => []ManyAtOnce
<1>1. StorageInv => ManyAtOnce
  BY DEF StorageInv, PartWay, ManyAtOnce
<1> QED
  BY <1>1, StorageInvariant, PTL

(* PersisterCache over CuratorPersister implements Storage.                 *)
THEOREM StorageImplemented == Spec => ImplementsStorage
<1>1. Init => Abstract!Init
  BY SameTree DEF Init, Abstract!Init
<1> QED
  BY <1>1, InitStorageInv, NextStorageInv, PTL DEF Spec, ImplementsStorage, Abstract!Spec, Step
=============================================================================
