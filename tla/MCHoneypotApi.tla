----------------------------- MODULE MCHoneypotApi -----------------------------
(***************************************************************************)
(* TLC instance of HoneypotApi: every property treats requests and ids     *)
(* alike, so permuting either is a sound symmetry.                         *)
(***************************************************************************)
EXTENDS HoneypotApi, TLC

ApiSymmetry == Permutations(Requests) \cup Permutations(Ids)
=============================================================================
