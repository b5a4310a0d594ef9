-------------------------- MODULE MC_PacketRouter --------------------------
(***************************************************************************)
(* The link of COAP_CFG_01: a client that sends more than its queue holds, *)
(* a server and the testing tool's agent.                                  *)
(***************************************************************************)
EXTENDS PacketRouter

CONSTANTS client, server, tt

McLinks      == <<{client, server}>>
McMaxPackets == [s \in {client, server, tt} |-> CASE s = client -> 3
                                                 [] s = server -> 1
                                                 [] s = tt     -> 0]
=============================================================================
