---------------------------- MODULE MC_UiAdaptor ---------------------------
(***************************************************************************)
(* Two messages of the testing tool with short queues, users who reply     *)
(* more than once and in every form: a verdict and a stimulus call for a   *)
(* user, a capture and the start of the second test case are not shown,    *)
(* and a packet names no test case.                                        *)
(***************************************************************************)
EXTENDS UiAdaptor

CONSTANTS server, ann, bob

Message(kind, t, n, c) == [kind |-> kind, tc |-> t, node |-> n, capture |-> c]

McContents ==
  {Message("TestCaseVerdict", 1, NoNode, NoTC),
   Message("StepStimuliExecute", 1, coap_client, NoTC),
   Message("TestCaseStarted", 2, NoNode, NoTC),
   Message("SniffingGetCaptureReply", NoTC, NoNode, 1),
   Message("PacketSniffedRaw", NoTC, NoNode, NoTC)}

McRoleHolder == (coap_client :> ann) @@ (server :> bob)
=============================================================================
