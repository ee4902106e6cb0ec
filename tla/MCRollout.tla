----------------------------- MODULE MCRollout -----------------------------
(***************************************************************************)
(* Small instances of a rolling deployment for TLC: the traffic of MC.     *)
(***************************************************************************)
EXTENDS Rollout, MC
=============================================================================
