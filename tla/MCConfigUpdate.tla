--------------------------- MODULE MCConfigUpdate ---------------------------
(* Two tasks, of one pod instance or of one each, for TLC.                  *)
EXTENDS ConfigUpdate, TLC

CONSTANTS a, b, p, q

PodOfAll == [t \in Tasks |-> p]

PodOfEach == [t \in Tasks |-> IF t = a THEN p ELSE q]

(* A step for each task, b's first: the default plan if each is a pod, and  *)
(* otherwise a plan of the service's own, as for a task that prepares a     *)
(* disk for the next one.                                                   *)
StepPerTask == {{t} : t \in Tasks}

SerialOrder == [s \in Steps |-> IF s = {a} THEN {{b}} ELSE {}]

(* Configuration ids are chosen freely and told apart by nothing else.      *)
IdSymmetry == Permutations(ConfigIds)
=============================================================================
