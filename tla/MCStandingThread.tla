-------------------------- MODULE MCStandingThread --------------------------
(* Symmetry for TLC. *)
EXTENDS StandingThread, TLC

Symmetry == Permutations(Workers)
=============================================================================
