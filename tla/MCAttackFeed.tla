---------------------------- MODULE MCAttackFeed ----------------------------
(* TLC instance of AttackFeed; the symmetry is for the safety run only.     *)
EXTENDS AttackFeed, TLC

Symmetry == Permutations(Clients)
=============================================================================
