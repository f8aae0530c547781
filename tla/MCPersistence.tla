--------------------------- MODULE MCPersistence ---------------------------
(* Instances of Persistence for TLC: a task's node with its two records, as *)
(* in "Tasks/<name>/TaskInfo".                                              *)
EXTENDS Persistence

CONSTANTS task, info, status

TaskPaths == {task, info, status}

TaskAbove == [p \in TaskPaths |-> IF p \in {info, status} THEN {task} ELSE {}]
=============================================================================
