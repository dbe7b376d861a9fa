------------------------------ MODULE MCRunLog ------------------------------
(***************************************************************************)
(* RunLog on small instances.                                              *)
(***************************************************************************)
EXTENDS RunLog, TLC

Symmetry == Permutations(Pods)
=============================================================================
