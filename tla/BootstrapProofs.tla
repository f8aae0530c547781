--------------------------- MODULE BootstrapProofs ---------------------------
(***************************************************************************)
(* Proofs about module Bootstrap, for any hosts, addresses and templates.   *)
(***************************************************************************)
EXTENDS Bootstrap, TLAPS

(* The names that are to be resolved.                                       *)
Required == IF args.defaultHosts THEN {TaskHost} ELSE Hosts

(* What has been waited for by the time that main is at a step.             *)
ProgressInv ==
    /\ pc \in {"resolve", "verify", "lookup", "compare", "stop"} => args.resolve
    /\ pc = "resolve" => Required \subseteq resolved \cup waiting
    /\ pc \in {"verify", "lookup", "compare", "stop"} => Required \subseteq resolved
    /\ pc \in {"compare", "stop"} => TaskHost \in resolved
    /\ pc = "stop" => answer = {PodIP}
    /\ pc \in {"template", "successful"} =>
          /\ args.resolve => Required \subseteq resolved
          /\ args.resolve /\ args.selfResolve => answer = {PodIP} /\ TaskHost \in resolved
    /\ pc = "successful" /\ args.template => rendered = Templates
    /\ \A t \in rendered : ~TooLarge(files[t])

BootstrapInv == TypeOK /\ NeverBlocked /\ ProgressInv /\ (pc = "begin" => timer = "stopped")

LEMMA InitBootstrapInv == Init => BootstrapInv
BY DEF Init, BootstrapInv, TypeOK, NeverBlocked, ProgressInv, Ended

LEMMA NextBootstrapInv == BootstrapInv /\ [Next]_vars => BootstrapInv'
<1> SUFFICES ASSUME BootstrapInv, [Next]_vars PROVE BootstrapInv'
  OBVIOUS
<1> USE DEF BootstrapInv, TypeOK, NeverBlocked, ProgressInv, Ended, Goto, Required, Names
<1>1. CASE Begin
  BY <1>1 DEF Begin, NewTimer, TooLarge
<1>2. ASSUME NEW h \in Names, Resolve(h) PROVE BootstrapInv'
  BY <1>2 DEF Resolve, Expired, TooLarge
<1>3. CASE ResolveEnd
  BY <1>3 DEF ResolveEnd, StopTimer, TooLarge
<1>4. CASE Verify
  BY <1>4 DEF Verify, NewTimer, TooLarge
<1>5. CASE Lookup
  BY <1>5 DEF Lookup, Expired, TooLarge
<1>6. CASE Compare
  BY <1>6 DEF Compare, Expired, TooLarge
<1>7. CASE VerifyEnd
  BY <1>7 DEF VerifyEnd, StopTimer, TooLarge
<1>8. ASSUME NEW t \in Templates, Render(t) PROVE BootstrapInv'
  BY <1>8 DEF Render, TooLarge
<1>9. CASE Finish
  BY <1>9 DEF Finish, TooLarge
<1>10. CASE TimerFires
  BY <1>10 DEF TimerFires, TooLarge
<1>11. ASSUME NEW h \in Names, DnsChanges(h) PROVE BootstrapInv'
  BY <1>11 DEF DnsChanges, TooLarge
<1>12. CASE UNCHANGED vars
  BY <1>12 DEF vars, TooLarge
<1> QED
  BY <1>1, <1>2, <1>3, <1>4, <1>5, <1>6, <1>7, <1>8, <1>9, <1>10, <1>11, <1>12 DEF Next, Main

THEOREM BootstrapInvariant == Spec => []BootstrapInv
<1> QED
  BY InitBootstrapInv, NextBootstrapInv, PTL DEF Spec

(* The types; and that both timers are stopped when templates are rendered. *)
THEOREM TypeCorrect == Spec => []TypeOK
<1>1. BootstrapInv => TypeOK
  BY DEF BootstrapInv
<1> QED
  BY <1>1, BootstrapInvariant, PTL

(* Whatever DNS answers at whatever moment, a command is started only after *)
(* all that the program was to wait for.                                    *)
THEOREM ReadyWhenStarted == Spec => []StartedMeansReady
<1>1. BootstrapInv => StartedMeansReady
  BY DEF BootstrapInv, ProgressInv, StartedMeansReady, Required, TypeOK
<1> QED
  BY <1>1, BootstrapInvariant, PTL

(* The program never reads a timer's channel a second time.                 *)
THEOREM TimerReadOnce == Spec => []NeverBlocked
<1>1. BootstrapInv => NeverBlocked
  BY DEF BootstrapInv
<1> QED
  BY <1>1, BootstrapInvariant, PTL
=============================================================================
