---------------------------- MODULE MCDurableRun ----------------------------
(* Instances of DurableRun for TLC; the .cfg files give the constants.     *)
EXTENDS DurableRun, TLC

\* Workers are interchangeable, and so are lease tokens.
Symmetry == Permutations(Workers) \cup Permutations(Tokens)

\* A bound on the queue, where the nudges that pile up are not the question:
\* a job for a step that is over only ever leaves the queue (NotClaimed).
FewNudges == Cardinality(jobs) <= 1
=============================================================================
