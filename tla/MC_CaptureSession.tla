-------------------------- MODULE MC_CaptureSession ------------------------
(***************************************************************************)
(* Two test cases of one step each.                                        *)
(***************************************************************************)
EXTENDS CaptureSession

McScript == <<<<"stimuli">>, <<"stimuli">>>>
McLossy  == {}
=============================================================================
