------------------------- MODULE MC_VerdictUpdates -------------------------
(***************************************************************************)
(* One Verdict object, updated a few times.                                *)
(***************************************************************************)
EXTENDS VerdictUpdates
=============================================================================
