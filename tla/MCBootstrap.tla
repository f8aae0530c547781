---------------------------- MODULE MCBootstrap ----------------------------
(* Instances of Bootstrap for TLC.                                          *)
EXTENDS Bootstrap

CONSTANTS task, peer, own, stale, t

MCHosts == {peer}

MCAddresses == {own, stale}
=============================================================================
