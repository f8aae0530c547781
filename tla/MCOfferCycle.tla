---------------------------- MODULE MCOfferCycle ----------------------------
(* Instances of OfferCycle for TLC: ids are numbers, threads are strings.   *)
EXTENDS OfferCycle

MCThreads == {"driver", "offers"}
=============================================================================
