------------------------------- MODULE Storage -------------------------------
(***************************************************************************)
(* What the state store can expect of the scheduler's storage, with no      *)
(* cache, connection or retry: readers see whole calls only; a call that    *)
(* returns has happened; of a call that threw, or that a crash cut off,     *)
(* readers see nothing until the data is read again, and what is found then *)
(* may differ under the paths of that call and nowhere else.                *)
(***************************************************************************)
EXTENDS StorageTree

VARIABLES view,   \* what readers see
          doubt   \* the paths that calls without an outcome were about

storageVars == <<view, doubt>>

Return(call) ==
    /\ view' = Apply(call, view)
    /\ UNCHANGED doubt

Throw(call) ==
    /\ doubt' = doubt \cup Touched(call)
    /\ UNCHANGED view

(* A new process, or an operator's request to refresh the cache.            *)
Reload ==
    /\ view' \in Trees
    /\ \A p \in Paths \ doubt : view'[p] = view[p]
    /\ doubt' = {}

Init ==
    /\ view = EmptyTree
    /\ doubt = {}

Next ==
    \/ \E call \in Calls : Return(call) \/ Throw(call)
    \/ Reload

Spec == Init /\ [][Next]_storageVars
=============================================================================
