--------------------------- MODULE MC_Coordinator --------------------------
(***************************************************************************)
(* Small instances of Coordinator.                                         *)
(***************************************************************************)
EXTENDS Coordinator

\* Two test cases in the shape of the CoAP ones: an IUT stimulates, the
\* capture is checked, a user verifies.
McScript == <<<<"stimuli", "check", "verify">>, <<"stimuli", "verify">>>>
McLossy  == {2}

\* Three short test cases, one of them with a feature to be analysed.
McScript3 == <<<<"stimuli">>, <<"verify">>, <<"feature", "stimuli">>>>
McLossy3  == {}
=============================================================================
