---------------------------- MODULE PacketRouter ---------------------------
(***************************************************************************)
(* The packet router (ioppytest/packet_router/__main__.py): packets that   *)
(* an agent sniffs are published under fromAgent.<node>, wait in a bounded *)
(* queue of that name and are published again under toAgent.<node> for     *)
(* each other node of the link and for the testing tool's own agent.       *)
(*                                                                         *)
(* A lossy link is a request in another queue: nothing orders it with the  *)
(* packets.  The three interfaces of a node (two serial ones and the tun)  *)
(* have routes of the same shape; a node stands for one of them.           *)
(***************************************************************************)
EXTENDS Integers, Sequences, FiniteSets

CONSTANTS
  Links,          \* topology of the configuration: nodes of each link, in order
  AgentTT,        \* the testing tool's agent, on every link
  QueueLimit,     \* x-max-length of a data queue
  PacketsToDrop,  \* number_of_packets_to_drop in the coordinator's requests
  MaxPackets,     \* bound: packets of each source
  MaxServices,    \* bound: messages to the services queue
  MaxStarts       \* bound: starts of the router

ASSUME RouterAssumption ==
  /\ Len(Links) \in Nat \ {0}
  /\ QueueLimit \in Nat \ {0}
  /\ PacketsToDrop \in Nat
  /\ \A k \in DOMAIN Links : \A s \in Links[k] \cup {AgentTT} : MaxPackets[s] \in Nat

VARIABLES
  running,   \* the router's thread consumes
  declared,  \* its data queues exist on the broker
  queue,     \* queue[s]: packets of s that wait for the router
  services,  \* services_queue@packet_router
  pending,   \* pending_number_of_packets_to_drop
  received,  \* received[d]: what was published under toAgent.d
  sent,      \* history: number of packets s has sent
  purged,    \* history: sent[s] when the router last started
  asked,     \* history: losses asked for by the requests taken so far
  drops,     \* history: packets dropped on request
  published, \* history: messages published to the services queue
  starts,    \* history: starts of the router
  cut        \* history: a crash came between two publications of a packet

vars == <<running, declared, queue, services, pending, received,
          sent, purged, asked, drops, published, starts, cut>>

-----------------------------------------------------------------------------
(* generate_routing_table_from_test_configuration *)

OnLink(k) == Links[k] \cup {AgentTT}
Sources   == UNION {OnLink(k) : k \in DOMAIN Links}

\* update() lets a later link's routes replace an earlier one's.
LinkOf(s) ==
  CHOOSE k \in DOMAIN Links :
    s \in OnLink(k) /\ \A l \in DOMAIN Links : s \in OnLink(l) => l <= k

\* A mutant: the testing tool's agent is not added to the nodes of the link.
RouteToPeersOnly(s) == Links[LinkOf(s)] \ {s}

\* routing_table[s]
Route(s) == OnLink(LinkOf(s)) \ {s}

-----------------------------------------------------------------------------
(* Messages *)

\* A packet as its sender's n-th; "incomplete" ones lack a field the injected
\* message needs, "garbage" cannot be loaded.
Forms     == {"packet", "incomplete", "garbage"}
Packet    == [n : Nat, form : Forms]
Delivery  == [src : Sources, n : Nat]
Services  == {"RoutingStartLossyLink", "other"}

TypeOK ==
  /\ running \in BOOLEAN /\ declared \in BOOLEAN
  /\ queue \in [Sources -> Seq(Packet)]
  /\ services \in Seq(Services)
  /\ pending \in 0..PacketsToDrop
  /\ received \in [Sources -> Seq(Delivery)]
  /\ sent \in [Sources -> Nat]
  /\ purged \in [Sources -> Nat]
  /\ asked \in Nat /\ drops \in Nat /\ published \in Nat /\ starts \in Nat
  /\ cut \in BOOLEAN

Init ==
  /\ running = FALSE /\ declared = FALSE
  /\ queue = [s \in Sources |-> <<>>]
  /\ services = <<>>
  /\ pending = 0
  /\ received = [d \in Sources |-> <<>>]
  /\ sent = [s \in Sources |-> 0]
  /\ purged = [s \in Sources |-> 0]
  /\ asked = 0 /\ drops = 0 /\ published = 0 /\ starts = 0
  /\ cut = FALSE

-----------------------------------------------------------------------------
(* The agents and the coordinator *)

\* A mutant: a full queue rejects the new packet.
RejectWhenFull(q) ==
  IF Len(q) > QueueLimit THEN SubSeq(q, 1, QueueLimit) ELSE q

\* A full queue drops its oldest packet for the new one.
Overflowing(q) == IF Len(q) > QueueLimit THEN Tail(q) ELSE q

\* An agent publishes a packet; without a queue the broker discards it.
SendPacket(s, form) ==
  /\ sent[s] < MaxPackets[s]
  /\ sent' = [sent EXCEPT ![s] = @ + 1]
  /\ queue' = IF declared
              THEN [queue EXCEPT ![s] =
                      Overflowing(Append(@, [n |-> sent[s] + 1, form |-> form]))]
              ELSE queue
  /\ UNCHANGED <<running, declared, services, pending, received,
                 purged, asked, drops, published, starts, cut>>

\* The coordinator asks for a lossy link (or a message of the same topic that
\* the router ignores is published); nobody waits for the router.
Publish(m) ==
  /\ published < MaxServices
  /\ published' = published + 1
  /\ services' = IF running THEN Append(services, m) ELSE services
  /\ UNCHANGED <<running, declared, queue, pending, received,
                 sent, purged, asked, drops, starts, cut>>

-----------------------------------------------------------------------------
(* The router *)

\* A mutant: a router that starts takes up what its queues still hold.
StartUnpurged ==
  /\ ~running /\ starts < MaxStarts
  /\ running' = TRUE /\ declared' = TRUE
  /\ services' = <<>>
  /\ pending' = 0
  /\ purged' = sent
  /\ starts' = starts + 1
  /\ UNCHANGED <<queue, received, sent, asked, drops, published, cut>>

\* __init__ and run: the queues are declared and purged.
Start ==
  /\ ~running /\ starts < MaxStarts
  /\ running' = TRUE /\ declared' = TRUE
  /\ queue' = [s \in Sources |-> <<>>]
  /\ services' = <<>>
  /\ pending' = 0
  /\ purged' = sent
  /\ starts' = starts + 1
  /\ UNCHANGED <<received, sent, asked, drops, published, cut>>

\* stop(), on SIGINT: the data queues are deleted.
Stop ==
  /\ running
  /\ running' = FALSE /\ declared' = FALSE
  /\ queue' = [s \in Sources |-> <<>>]
  /\ services' = <<>>
  /\ UNCHANGED <<pending, received, sent, purged, asked, drops, published, starts, cut>>

\* The process is killed or loses the broker: the data queues outlive it
\* (auto_delete=False), the services queue goes with its only consumer.
Crash ==
  /\ running
  /\ running' = FALSE
  /\ services' = <<>>
  /\ UNCHANGED <<declared, queue, pending, received,
                 sent, purged, asked, drops, published, starts, cut>>

\* A mutant: acknowledged only once it was routed, an unreadable message stays.
TakeIfReadable(s) ==
  /\ running
  /\ queue[s] # <<>>
  /\ queue' = IF Head(queue[s]).form = "garbage" THEN queue
              ELSE [queue EXCEPT ![s] = Tail(@)]
  /\ UNCHANGED <<declared, sent, purged, asked, published, starts>>

\* _on_request: what is taken from a queue is acknowledged first.
Take(s) == /\ running
           /\ queue[s] # <<>>
           /\ queue' = [queue EXCEPT ![s] = Tail(@)]
           /\ UNCHANGED <<declared, sent, purged, asked, published, starts>>

\* An unreadable message is logged, and does not count as a packet.
Ignore(s) ==
  /\ Take(s)
  /\ Head(queue[s]).form = "garbage"
  /\ UNCHANGED <<running, services, cut, pending, received, drops>>

\* A mutant: a drop is not counted down.
DropAll(s) ==
  /\ Take(s)
  /\ Head(queue[s]).form # "garbage"
  /\ pending > 0
  /\ drops' = drops + 1
  /\ UNCHANGED <<running, services, cut, pending, received>>

\* A mutant: the packet is rejected, and so goes back to its queue.
DropByReject(s) ==
  /\ running
  /\ queue[s] # <<>>
  /\ Head(queue[s]).form # "garbage"
  /\ pending > 0
  /\ pending' = pending - 1
  /\ drops' = drops + 1
  /\ queue' = [queue EXCEPT ![s] = Append(Tail(@), Head(@))]
  /\ UNCHANGED <<running, declared, services, received,
                 sent, purged, asked, published, starts, cut>>

\* The link is lossy: the packet is gone, complete or not.
Drop(s) ==
  /\ Take(s)
  /\ Head(queue[s]).form # "garbage"
  /\ pending > 0
  /\ pending' = pending - 1
  /\ drops' = drops + 1
  /\ UNCHANGED <<running, services, cut, received>>

\* The packet cannot be turned into one to inject.
Refuse(s) ==
  /\ Take(s)
  /\ Head(queue[s]).form = "incomplete"
  /\ pending = 0
  /\ UNCHANGED <<running, services, cut, pending, received, drops>>

\* The packet is published to the destinations D.
PublishTo(s, D) ==
  /\ Take(s)
  /\ Head(queue[s]).form = "packet"
  /\ pending = 0
  /\ received' = [d \in Sources |->
                    IF d \in D
                    THEN Append(received[d], [src |-> s, n |-> Head(queue[s]).n])
                    ELSE received[d]]

\* A packet goes to every destination of its source.
Forward(s) ==
  /\ PublishTo(s, Route(s))
  /\ UNCHANGED <<running, services, cut, pending, drops>>

\* The process dies between the acknowledgement and the last publication, the
\* one to the testing tool's agent.
CrashWhileRouting(s) ==
  /\ \E D \in SUBSET (Route(s) \ {AgentTT}) : PublishTo(s, D)
  /\ running' = FALSE
  /\ services' = <<>>
  /\ cut' = TRUE
  /\ UNCHANGED <<pending, drops>>

HandlePacket(s) == Ignore(s) \/ Drop(s) \/ Refuse(s) \/ Forward(s)

\* MsgRoutingStartLossyLink: whatever was still to be dropped is forgotten.
\* Other messages are ignored.
HandleService ==
  /\ running
  /\ services # <<>>
  /\ services' = Tail(services)
  /\ \/ /\ Head(services) = "RoutingStartLossyLink"
        /\ pending' = PacketsToDrop
        /\ asked' = asked + PacketsToDrop
     \/ /\ Head(services) = "other"
        /\ UNCHANGED <<pending, asked>>
  /\ UNCHANGED <<running, declared, queue, received,
                 sent, purged, drops, published, starts, cut>>

-----------------------------------------------------------------------------
Next ==
  \/ \E s \in Sources, form \in Forms : SendPacket(s, form)
  \/ \E m \in Services : Publish(m)
  \/ Start \/ Stop \/ Crash
  \/ \E s \in Sources : HandlePacket(s) \/ CrashWhileRouting(s)
  \/ HandleService

Spec == Init /\ [][Next]_vars

\* The broker serves the consumers of a channel in turn.
FairSpec == /\ Spec
            /\ \A s \in Sources : WF_vars(HandlePacket(s))
            /\ WF_vars(HandleService)

-----------------------------------------------------------------------------
(* Properties *)

\* Nothing is delivered twice or out of its sender's order, whatever was
\* dropped, refused or pushed out of a full queue in between, and also across
\* crashes of the router (queues outlive it, unread messages are kept).
OrderKept ==
  \A d \in Sources : \A i, j \in DOMAIN received[d] :
    i < j /\ received[d][i].src = received[d][j].src
      => received[d][i].n < received[d][j].n

\* What waits for the router are the latest packets of each source, without a
\* gap: a slow or dead router costs the oldest ones only (x-max-length).
NewestWait ==
  \A s \in Sources : \A k \in DOMAIN queue[s] :
    queue[s][k].n = sent[s] - Len(queue[s]) + k

\* A router that starts again routes nothing that was sent before
\* ("start with clean queues").
CleanStart ==
  running => \A s \in Sources : \A k \in DOMAIN queue[s] : queue[s][k].n > purged[s]

\* Requests that overtake each other or come before the packets of an earlier
\* one were dropped never make the router drop more than was asked in all.
DropsWereAsked == drops + pending <= asked

Delivered(d) == {received[d][i] : i \in DOMAIN received[d]}

Before(q, e, f) == \E i, j \in DOMAIN q : i < j /\ q[i] = e /\ q[j] = f

\* The testing tool's agent sees each packet that a node is sent by another, and
\* no packet that this node should have been sent as well, in the very order in
\* which the node gets them from all the others, unless the router died between
\* the publications of one.
AgentSeesAll ==
  ~cut => \A d \in Sources \ {AgentTT} :
    LET fromNodes == {e \in Delivered(d) : e.src # AgentTT}
        seen      == {e \in Delivered(AgentTT) : d \in Route(e.src)}
    IN /\ fromNodes = seen
       /\ \A e, f \in seen :
            Before(received[d], e, f) <=> Before(received[AgentTT], e, f)

Waits(s, n) == \E k \in DOMAIN queue[s] : queue[s][k].n = n

\* As long as the router lives each packet leaves its queue: none of the paths
\* through _on_request, unreadable messages included, blocks those behind it.
EveryPacketSettles ==
  \A s \in Sources : \A n \in 1..MaxPackets[s] :
    Waits(s, n) /\ running ~> ~Waits(s, n) \/ ~running
=============================================================================
