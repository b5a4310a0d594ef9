------------------------ MODULE MC_AutomatedSession ------------------------
(***************************************************************************)
(* Two test cases of a client and a server, both automated or one of them  *)
(* alone, and then perhaps with an agent that announces its interface      *)
(* early: in the first the client stimulates, in the second the server     *)
(* verifies.  Without an automated client nobody stimulates.  The server   *)
(* cannot run the second test case.  The client's address may be empty and *)
(* the server's None, and the client may end by an exception.  The longer  *)
(* script is the one in which an answer too many meets a second step.      *)
(***************************************************************************)
EXTENDS AutomatedSession

CONSTANTS client, server

McScript   == <<<<"stimuli">>, <<"verify">>>>
McStepNode == <<<<client>>, <<server>>>>
LongScript   == <<<<"stimuli">>, <<"stimuli", "verify">>>>
LongStepNode == <<<<client>>, <<client, server>>>>
McLossy    == {}
McAgents   == {client, server}
McSetups   == {[automated |-> {client}, early |-> {client}],
               [automated |-> {client, server}, early |-> {}],
               [automated |-> {server}, early |-> {}]}
McCannot   == [n \in McAgents |-> IF n = server THEN {2} ELSE {}]
\* The client's address may be empty, the server's None.
McAddresses == [n \in McAgents |-> {"given", IF n = client THEN "empty" ELSE "None"}]
McAlways    == [n \in McAgents |-> {"given", "empty"}]
McFallible  == {client}
McNobody    == {}
McNone     == [n \in McAgents |-> {}]
=============================================================================
