--------------------------- MODULE MCHostedModel ---------------------------
(* The faults of the run: everything but ticks that overlap each other's   *)
(* writes and requests whose save undoes what others wrote.                *)
EXTENDS HostedModel

OrdinaryFaults == AllFaults \ {"overlap", "slow", "stale"}
=============================================================================
