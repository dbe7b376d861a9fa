---------------------------- MODULE MCRunFollow ----------------------------
(***************************************************************************)
(* RunFollow on small instances.                                           *)
(***************************************************************************)
EXTENDS RunFollow
=============================================================================
