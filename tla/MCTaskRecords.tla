---------------------------- MODULE MCTaskRecords ----------------------------
(* Instances of TaskRecords for TLC.                                        *)
EXTENDS TaskRecords, TLC

(* Ids are only compared: any two that have not been used are alike.        *)
IdSymmetry == Permutations(TaskIds)
=============================================================================
