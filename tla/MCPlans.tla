------------------------------ MODULE MCPlans ------------------------------
(* Trees of phases and steps for TLC.                                       *)
EXTENDS Plans, TLC

(* One phase of two steps, of which the first is a canary.                  *)
CanaryPhases == <<"p">>
CanaryStepsOf == [p |-> <<"a", "b">>]
CanaryStrategy == [deploy |-> "serial", p |-> "serial-canary"]
CanaryPodOf == [a |-> "pod-a", b |-> "pod-b"]
=============================================================================
