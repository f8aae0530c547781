---------------------------- MODULE MCUninstall ----------------------------
(* Services to uninstall, for TLC.                                          *)
EXTENDS Uninstall, TLC

(* Two tasks of a pod with a volume, and one that was given up.             *)
PodTasks == {"a", "b", "f"}
PodFailed == {"f"}
PodOwn == [a |-> {"cpu-a"}, b |-> {"cpu-b"}, f |-> {"cpu-f"}]
PodShared == [a |-> {"volume"}, b |-> {"volume"}, f |-> {}]
=============================================================================
