----------------------- MODULE MCHoneypotOrchestrator -----------------------
(* TLC instance of HoneypotOrchestrator; safety only, so that permuting the *)
(* ids and the callers is sound.                                           *)
EXTENDS HoneypotOrchestrator, TLC

Symmetry == Permutations(Ids) \cup Permutations(Callers)
=============================================================================
