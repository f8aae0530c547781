---------------------------- MODULE OfferLedger ----------------------------
(***************************************************************************)
(* What the scheduler promises about offers, to Mesos and to whoever waits  *)
(* for awaitOffersProcessed(): an offer is answered at most once, never     *)
(* before it was made, and is in progress from the moment it is given until *)
(* it is closed, unless it is declined on the spot.  Closed is an offer     *)
(* that has been answered or that Mesos has withdrawn.                      *)
(*                                                                         *)
(* There is no queue, no batch and no thread here: OfferCycle implements    *)
(* this.                                                                    *)
(***************************************************************************)
EXTENDS Naturals

CONSTANT MaxOffers   \* bound: the offers that are ever made are 1..MaxOffers

VARIABLES
    given,       \* offers 1..given have been made
    answers,     \* answers[o]: how often o was accepted or declined
    withdrawn,   \* offers that Mesos has taken back
    inProgress   \* offers that the scheduler says it is working on

ledgerVars == <<given, answers, withdrawn, inProgress>>

Closed(o) == answers[o] > 0 \/ o \in withdrawn

Init ==
    /\ given = 0
    /\ answers = [o \in 1 .. MaxOffers |-> 0]
    /\ withdrawn = {}
    /\ inProgress = {}

AnswersAdd(os) == answers' = [o \in 1 .. MaxOffers |-> IF o \in os THEN 1 ELSE answers[o]]

(* The next few offers are taken up ...                                     *)
TakeUp(last) ==
    /\ given' = last
    /\ inProgress' = inProgress \cup (given + 1 .. last)
    /\ UNCHANGED <<answers, withdrawn>>

(* ... or turned down.                                                      *)
TurnDown(last) ==
    /\ given' = last
    /\ AnswersAdd(given + 1 .. last)
    /\ UNCHANGED <<withdrawn, inProgress>>

(* Offers in progress are answered, also those that are void by now.        *)
Answer(os) ==
    /\ \A o \in os : o \in inProgress /\ answers[o] = 0
    /\ AnswersAdd(os)
    /\ UNCHANGED <<given, withdrawn, inProgress>>

(* Mesos takes back offers that have not been answered.                     *)
Withdraw(os) ==
    /\ \A o \in os : o \in 1 .. given /\ answers[o] = 0
    /\ withdrawn' = withdrawn \cup os
    /\ UNCHANGED <<given, answers, inProgress>>

Finish(os) ==
    /\ \A o \in os : o \in inProgress /\ Closed(o)
    /\ inProgress' = inProgress \ os
    /\ UNCHANGED <<given, answers, withdrawn>>

Next ==
    \/ \E last \in given + 1 .. MaxOffers : TakeUp(last) \/ TurnDown(last)
    \/ \E os \in SUBSET (1 .. MaxOffers) : Answer(os) \/ Withdraw(os) \/ Finish(os)

Spec == Init /\ [][Next]_ledgerVars
=============================================================================
