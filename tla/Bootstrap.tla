------------------------------ MODULE Bootstrap ------------------------------
(***************************************************************************)
(* sdk/bootstrap: the program that a task of the service runs before its    *)
(* own command.  It waits until host names resolve, until the task's own    *)
(* name resolves to the task's own address (after a relaunch DNS still has  *)
(* the old one), renders configuration templates and installs certificates. *)
(* If it exits without success, the command is not run and the task fails.  *)
(*                                                                         *)
(* DNS changes under the program, and a timer may fire between any two of   *)
(* its steps.  A timer is "stopped", "active", "fired" (its channel holds   *)
(* the time) or "read" (the channel was read; a second read blocks).        *)
(***************************************************************************)
EXTENDS Naturals, FiniteSets

CONSTANTS Hosts,      \* names to resolve (-resolve-hosts)
          TaskHost,   \* the task's own name, <TASK_NAME>.<FRAMEWORK_HOST>
          Addresses,  \* what names can resolve to
          PodIP,      \* the task's own address
          Templates,  \* the CONFIG_TEMPLATE_* variables
          Sizes,      \* sizes that templates can have
          MaxBytes,   \* values of -template-max-bytes
          Missing     \* the size of a file that is not there

ASSUME BootstrapAssumption ==
    /\ PodIP \in Addresses
    /\ Sizes \subseteq Nat
    /\ MaxBytes \subseteq Nat
    /\ Missing \notin Sizes

VARIABLES
    args,      \* flags and environment of this run
    dns,       \* what each name resolves to now; {} if the lookup fails
    files,     \* files[t]: the size of t's source in the sandbox, or Missing
    pc,        \* the step of main, or how it ended
    waiting,   \* resolve-hosts that are still to be resolved
    timer,     \* the timer of the current step, or "nil"
    answer,    \* the last answer for the task's own name
    resolved,  \* history: names that have resolved
    rendered   \* templates that have been rendered

vars == <<args, dns, files, pc, waiting, timer, answer, resolved, rendered>>

Names == Hosts \cup {TaskHost}

(* The flags; whether TASK_NAME and FRAMEWORK_HOST are set ("named").       *)
Args == [resolve : BOOLEAN, defaultHosts : BOOLEAN, selfResolve : BOOLEAN,
         forever : BOOLEAN, template : BOOLEAN, maxBytes : MaxBytes,
         getTaskIP : BOOLEAN, named : BOOLEAN]

Ended == {"successful", "printed", "fatal", "panic"}

Goto(label) == pc' = label

-----------------------------------------------------------------------------
(* 1. Timers                                                                *)

(* A timeout of zero is no timer at all.                                    *)
NewTimer == timer' = IF args.forever THEN "nil" ELSE "active"

(* Mutant of Expired: the time is noted, and the loop goes on.              *)
ExpiredOnly(again) ==
    /\ timer' = IF timer = "fired" THEN "read" ELSE timer
    /\ Goto(again)

(* isExpired, and what both loops do about it: fatal, or once more.         *)
Expired(again) ==
    IF timer = "fired"
    THEN timer' = "read" /\ Goto("fatal")
    ELSE UNCHANGED timer /\ Goto(again)

(* timer.Stop(), which panics on nil, and the read of the channel if it had *)
(* fired.                                                                   *)
StopTimer(next) ==
    \/ /\ timer = "nil"
       /\ Goto("panic")
       /\ UNCHANGED timer
    \/ /\ timer \in {"active", "fired"}
       /\ Goto(next)
       /\ timer' = "stopped"

TimerFires ==
    /\ timer = "active"
    /\ timer' = "fired"
    /\ UNCHANGED <<args, dns, files, pc, waiting, answer, resolved, rendered>>

-----------------------------------------------------------------------------
(* 2. The steps of main                                                     *)

(* parseArgs and the start of main.  The default of -resolve-hosts is the   *)
(* task's own name, which needs TASK_NAME and FRAMEWORK_HOST.  The task's   *)
(* address may not be found; it may be all that is asked for.               *)
Begin ==
    /\ pc = "begin"
    /\ \/ Goto("fatal") /\ UNCHANGED <<waiting, timer>>
       \/ /\ args.getTaskIP
          /\ Goto("printed")
          /\ UNCHANGED <<waiting, timer>>
       \/ /\ ~args.getTaskIP
          /\ args.resolve
          /\ args.defaultHosts => args.named
          /\ Goto("resolve")
          /\ waiting' = IF args.defaultHosts THEN {TaskHost} ELSE Hosts
          /\ NewTimer
       \/ /\ ~args.getTaskIP
          /\ ~args.resolve
          /\ Goto("template")
          /\ UNCHANGED <<waiting, timer>>
    /\ UNCHANGED <<args, dns, files, answer, resolved, rendered>>

(* resolveHost for the hosts in their order, with one timer for all; here   *)
(* in any order.                                                            *)
Resolve(h) ==
    /\ pc = "resolve"
    /\ h \in waiting
    /\ IF dns[h] # {}
       THEN /\ waiting' = waiting \ {h}
            /\ resolved' = resolved \cup {h}
            /\ UNCHANGED <<pc, timer>>
       ELSE /\ Expired("resolve")
            /\ UNCHANGED <<waiting, resolved>>
    /\ UNCHANGED <<args, dns, files, answer, rendered>>

ResolveEnd ==
    /\ pc = "resolve"
    /\ waiting = {}
    /\ StopTimer(IF args.selfResolve THEN "verify" ELSE "template")
    /\ UNCHANGED <<args, dns, files, waiting, answer, resolved, rendered>>

(* verifySelfResolution starts a timer of its own.                          *)
Verify ==
    /\ pc = "verify"
    /\ IF args.named
       THEN Goto("lookup") /\ NewTimer
       ELSE Goto("fatal") /\ UNCHANGED timer
    /\ UNCHANGED <<args, dns, files, waiting, answer, resolved, rendered>>

(* Its inner loop is resolveHost, with the same timer.                      *)
Lookup ==
    /\ pc = "lookup"
    /\ IF dns[TaskHost] # {}
       THEN /\ answer' = dns[TaskHost]
            /\ resolved' = resolved \cup {TaskHost}
            /\ Goto("compare")
            /\ UNCHANGED timer
       ELSE /\ Expired("lookup")
            /\ UNCHANGED <<answer, resolved>>
    /\ UNCHANGED <<args, dns, files, waiting, rendered>>

(* Mutant of Compare: only resolveHost looks at the timer.                  *)
CompareUntimed ==
    /\ pc = "compare"
    /\ IF answer = {PodIP} THEN Goto("stop") ELSE Goto("lookup")
    /\ UNCHANGED <<args, dns, files, waiting, timer, answer, resolved, rendered>>

(* Mutant of Compare: one of several addresses is enough.                   *)
CompareAny ==
    /\ pc = "compare"
    /\ IF PodIP \in answer THEN Goto("stop") /\ UNCHANGED timer ELSE Expired("lookup")
    /\ UNCHANGED <<args, dns, files, waiting, answer, resolved, rendered>>

(* Exactly the task's own address, or the timer decides.                    *)
Compare ==
    /\ pc = "compare"
    /\ IF answer = {PodIP} THEN Goto("stop") /\ UNCHANGED timer ELSE Expired("lookup")
    /\ UNCHANGED <<args, dns, files, waiting, answer, resolved, rendered>>

(* Mutant of VerifyEnd: the second timer is left to run.                    *)
VerifyEndLeavesTimer ==
    /\ pc = "stop"
    /\ Goto("template")
    /\ UNCHANGED <<args, dns, files, waiting, timer, answer, resolved, rendered>>

VerifyEnd ==
    /\ pc = "stop"
    /\ StopTimer("template")
    /\ UNCHANGED <<args, dns, files, waiting, answer, resolved, rendered>>

(* A limit of zero is no limit.                                             *)
TooLarge(size) == args.maxBytes # 0 /\ size > args.maxBytes

(* openTemplate and renderTemplate.  A template may be invalid: its         *)
(* variable has no comma, it cannot be parsed, or the result not written.   *)
(* A file whose status cannot be read for another reason than its absence   *)
(* has no info to look at, which panics.                                    *)
Render(t) ==
    /\ pc = "template"
    /\ args.template
    /\ t \in Templates \ rendered
    /\ \/ /\ files[t] # Missing
          /\ ~TooLarge(files[t])
          /\ rendered' = rendered \cup {t}
          /\ UNCHANGED pc
       \/ /\ \E end \in {"fatal", "panic"} : Goto(end)
          /\ UNCHANGED rendered
    /\ UNCHANGED <<args, dns, files, waiting, timer, answer, resolved>>

(* installDCOSCertIntoJRE only logs what goes wrong.                        *)
Finish ==
    /\ pc = "template"
    /\ args.template => rendered = Templates
    /\ Goto("successful")
    /\ UNCHANGED <<args, dns, files, waiting, timer, answer, resolved, rendered>>

-----------------------------------------------------------------------------
(* 3. DNS and the specification                                             *)

(* The records of a name change, or lookups of it start to fail.            *)
DnsChanges(h) ==
    /\ pc \notin Ended
    /\ \E found \in SUBSET Addresses : dns' = [dns EXCEPT ![h] = found]
    /\ UNCHANGED <<args, files, pc, waiting, timer, answer, resolved, rendered>>

Init ==
    /\ args \in Args
    /\ dns \in [Names -> SUBSET Addresses]
    /\ files \in [Templates -> Sizes \cup {Missing}]
    /\ pc = "begin"
    /\ waiting = {}
    /\ timer = "stopped"
    /\ answer = {}
    /\ resolved = {}
    /\ rendered = {}

Main ==
    \/ Begin
    \/ \E h \in Names : Resolve(h)
    \/ ResolveEnd
    \/ Verify
    \/ Lookup
    \/ Compare
    \/ VerifyEnd
    \/ \E t \in Templates : Render(t)
    \/ Finish

Next ==
    \/ Main
    \/ TimerFires
    \/ \E h \in Names : DnsChanges(h)

Spec == Init /\ [][Next]_vars

(* The program runs and time passes; nothing is assumed of DNS.             *)
FairSpec == Spec /\ WF_vars(Main) /\ WF_vars(TimerFires)

-----------------------------------------------------------------------------
(* 4. Properties                                                            *)

TypeOK ==
    /\ args \in Args
    /\ dns \in [Names -> SUBSET Addresses]
    /\ files \in [Templates -> Sizes \cup {Missing}]
    /\ pc \in {"begin", "resolve", "verify", "lookup", "compare", "stop", "template"} \cup Ended
    /\ waiting \subseteq Names
    /\ timer \in {"nil", "stopped", "active", "fired", "read"}
    /\ pc = "template" => timer = "stopped"
    /\ answer \subseteq Addresses
    /\ resolved \subseteq Names
    /\ rendered \subseteq Templates

(* A task's command starts only after all that it was to wait for: each     *)
(* host has resolved, its own name has been seen to resolve to its own      *)
(* address and no other (DNS may list the old one beside it), and all its   *)
(* templates are there and were within the limit.                           *)
StartedMeansReady ==
    pc = "successful" =>
        /\ args.resolve => (IF args.defaultHosts THEN {TaskHost} ELSE Hosts) \subseteq resolved
        /\ args.resolve /\ args.selfResolve => answer = {PodIP} /\ TaskHost \in resolved
        /\ args.template => rendered = Templates /\ \A t \in Templates : ~TooLarge(files[t])

(* The program never waits for a timer whose channel was read already, when *)
(* a name resolves late, in the same moment in which the time runs out.     *)
NeverBlocked == pc \in {"resolve", "lookup", "compare", "stop"} => timer # "read"

(* With a timeout the program ends, whatever DNS says: lookups that fail,   *)
(* and lookups that succeed with a wrong answer for ever.                   *)
TimeoutEnds == (~args.forever) ~> pc \in Ended
=============================================================================
