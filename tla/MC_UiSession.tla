---------------------------- MODULE MC_UiSession ---------------------------
(***************************************************************************)
(* Two test cases whose steps differ in type.                              *)
(***************************************************************************)
EXTENDS UiSession

McScript == <<<<"stimuli", "verify">>, <<"verify">>>>
McLossy  == {}
=============================================================================
