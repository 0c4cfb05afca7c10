-------------------------- MODULE MCNinquSchedule --------------------------
(***************************************************************************)
(* NinquSchedule for TLC: every dependency graph over a few instances.      *)
(***************************************************************************)
EXTENDS NinquSchedule
=============================================================================
