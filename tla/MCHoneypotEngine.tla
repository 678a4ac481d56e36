-------------------------- MODULE MCHoneypotEngine --------------------------
(***************************************************************************)
(* TLC instance of HoneypotEngine.  Only safety is checked, and every      *)
(* property treats the ids alike, so permuting them is a sound symmetry.   *)
(***************************************************************************)
EXTENDS HoneypotEngine, TLC

IdSymmetry == Permutations(Ids)
=============================================================================
