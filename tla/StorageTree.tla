----------------------------- MODULE StorageTree -----------------------------
(***************************************************************************)
(* The tree of paths that a Persister stores, and what one call does to it. *)
(*                                                                         *)
(* The root is always there and is left out.  The data of a node that only  *)
(* exists as a parent of others is abstracted to Stub: which bytes such a   *)
(* node carries differs between the implementations, and nothing reads them.*)
(***************************************************************************)
EXTENDS Naturals

CONSTANTS Paths,   \* the paths below the root
          Above,   \* Above[p]: the paths above p, without the root
          Values,  \* data of a node
          Stub,    \* the data of a node that was created as a parent
          None     \* there is no such node

ASSUME TreeAssumption ==
    /\ Above \in [Paths -> SUBSET Paths]
    /\ \A p \in Paths : p \notin Above[p]
    /\ \A p \in Paths : \A q \in Above[p] : Above[q] \subseteq Above[p]
    /\ Stub \notin Values
    /\ None \notin Values \cup {Stub}

Under(p) == {q \in Paths : q = p \/ p \in Above[q]}

(* What a Persister can hold: a node is there only if its parents are.      *)
Trees == {d \in [Paths -> Values \cup {Stub, None}] :
             \A p \in Paths : d[p] # None => \A q \in Above[p] : d[q] # None}

EmptyTree == [p \in Paths |-> None]

(* Data is stored at the leaves only.                                       *)
Leaves == {p \in Paths : \A q \in Paths : p \notin Above[q]}

(* The calls that write: set and setMany with the values to write;          *)
(* recursiveDelete of one path, recursiveDeleteMany of several, and clear,  *)
(* which is recursiveDelete of the root.                                    *)
SetCall(kind, values) == [kind |-> kind, values |-> values, removes |-> {}]

DeleteCall(kind, paths) == [kind |-> kind, values |-> [p \in {} |-> None], removes |-> paths]

Writes(sets) == UNION {[ps -> Values] : ps \in sets}

SetCalls ==
    {SetCall("set", f) : f \in Writes({{p} : p \in Leaves})}
        \cup {SetCall("setMany", f) : f \in Writes((SUBSET Leaves) \ {{}})}

DeleteCalls ==
    {DeleteCall("delete", {p}) : p \in Paths}
        \cup {DeleteCall("deleteMany", ps) : ps \in (SUBSET Paths) \ {{}}}
        \cup {DeleteCall("clear", Paths)}

Calls == SetCalls \cup DeleteCalls

IsAtomic(call) == call.kind \in {"setMany", "deleteMany", "clear"}

Removed(call) == UNION {Under(p) : p \in call.removes}

(* The paths that a call may create, change or delete.                      *)
Touched(call) == (UNION {Above[p] \cup {p} : p \in DOMAIN call.values}) \cup Removed(call)

(* The tree after a call: missing parents are created.                      *)
Apply(call, d) ==
    [p \in Paths |->
        CASE p \in DOMAIN call.values -> call.values[p]
          [] p \in Removed(call) -> None
          [] OTHER -> IF p \in Touched(call) /\ d[p] = None THEN Stub ELSE d[p]]
=============================================================================
