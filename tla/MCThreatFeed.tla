---------------------------- MODULE MCThreatFeed ----------------------------
(* TLC instance of ThreatFeed; no symmetry, for it checks liveness too.     *)
EXTENDS ThreatFeed
=============================================================================
