-------------------------- MODULE MC_SessionSetup --------------------------
(***************************************************************************)
(* Two users who come and go, and two components besides the coordinator.  *)
(***************************************************************************)
EXTENDS SessionSetup
=============================================================================
