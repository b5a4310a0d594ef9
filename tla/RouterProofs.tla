---------------------------- MODULE RouterProofs ---------------------------
(***************************************************************************)
(* Proofs about PacketRouter: what is delivered, what waits and what is    *)
(* dropped, for every topology, every size of the queues and any number of *)
(* crashes, restarts and requests for a lossy link.                        *)
(*                                                                         *)
(* The inductive invariant says where each packet can be.  Base[s] packets *)
(* of s have left the queue; what was delivered is among them, what waits  *)
(* is numbered from there on without a gap.                                *)
(***************************************************************************)
EXTENDS PacketRouter, TLAPS

Base == [s \in Sources |-> sent[s] - Len(queue[s])]

Bounded(r, b) ==
  \A d \in Sources : \A i \in DOMAIN r[d] : r[d][i].n <= b[r[d][i].src]

\* Nothing is delivered while it waits.
DeliveredLeft == Bounded(received, Base)

\* The queues of a running router were declared when it started, and emptied.
PurgedAtStart ==
  /\ running => declared
  /\ \A s \in Sources : purged[s] <= sent[s]
  /\ running => \A s \in Sources : purged[s] <= Base[s]
  /\ ~declared => \A s \in Sources : queue[s] = <<>>

Inv == /\ TypeOK
       /\ NewestWait
       /\ DeliveredLeft
       /\ OrderKept
       /\ PurgedAtStart
       /\ DropsWereAsked

-----------------------------------------------------------------------------
(* Queues *)

LEMMA TailFacts ==
  ASSUME NEW S, NEW a \in Seq(S), a # <<>>
  PROVE  /\ Tail(a) \in Seq(S)
         /\ Len(a) \in Nat \ {0} /\ Len(Tail(a)) = Len(a) - 1
         /\ Head(a) \in S /\ Head(a) = a[1] /\ 1 \in DOMAIN a
         /\ \A k \in DOMAIN Tail(a) :
              /\ k \in Nat \ {0} /\ k < Len(a)
              /\ k + 1 \in DOMAIN a /\ Tail(a)[k] = a[k + 1]
  OBVIOUS

\* Taking the head of a queue without gaps leaves one, one packet shorter.
LEMMA TakeFacts ==
  ASSUME TypeOK, NewestWait, NEW s \in Sources, queue[s] # <<>>
  PROVE  /\ Tail(queue[s]) \in Seq(Packet)
         /\ Len(Tail(queue[s])) = Len(queue[s]) - 1
         /\ Head(queue[s]) \in Packet
         /\ Head(queue[s]).n = Base[s] + 1
         /\ \A k \in DOMAIN Tail(queue[s]) :
              Tail(queue[s])[k].n = sent[s] - Len(Tail(queue[s])) + k
<1>1. queue[s] \in Seq(Packet) /\ sent[s] \in Nat
  BY DEF TypeOK
<1>2. /\ Tail(queue[s]) \in Seq(Packet)
      /\ Len(queue[s]) \in Nat /\ Len(Tail(queue[s])) = Len(queue[s]) - 1
      /\ Head(queue[s]) \in Packet /\ Head(queue[s]) = queue[s][1] /\ 1 \in DOMAIN queue[s]
  BY <1>1, TailFacts
<1>3. Head(queue[s]).n = Base[s] + 1
  BY <1>1, <1>2 DEF NewestWait, Base
<1>4. ASSUME NEW k \in DOMAIN Tail(queue[s])
      PROVE  Tail(queue[s])[k].n = sent[s] - Len(Tail(queue[s])) + k
  <2>1. k \in Nat /\ k + 1 \in DOMAIN queue[s] /\ Tail(queue[s])[k] = queue[s][k + 1]
    BY <1>1, TailFacts
  <2>2. queue[s][k + 1].n = sent[s] - Len(queue[s]) + (k + 1)
    BY <2>1 DEF NewestWait
  <2>3. sent[s] - Len(Tail(queue[s])) + k = sent[s] - Len(queue[s]) + (k + 1)
    BY <1>1, <1>2, <2>1
  <2> QED
    BY <2>1, <2>2, <2>3
<1> QED
  BY <1>2, <1>3, <1>4

\* A new packet makes the queue longer by one, or pushes the oldest out.
LEMMA SendFacts ==
  ASSUME TypeOK, NewestWait, NEW s \in Sources, NEW form \in Forms,
         NEW q, q = Overflowing(Append(queue[s], [n |-> sent[s] + 1, form |-> form]))
  PROVE  /\ q \in Seq(Packet)
         /\ Len(q) <= Len(queue[s]) + 1
         /\ \A k \in DOMAIN q : q[k].n = sent[s] + 1 - Len(q) + k
<1> DEFINE p == [n |-> sent[s] + 1, form |-> form]
           a == Append(queue[s], p)
<1>1. queue[s] \in Seq(Packet) /\ sent[s] \in Nat /\ p \in Packet
  <2>1. queue[s] \in Seq(Packet) /\ sent[s] \in Nat
    BY DEF TypeOK
  <2>2. p \in Packet
    BY <2>1 DEF Packet
  <2> QED
    BY <2>1, <2>2
<1>2. a \in Seq(Packet) /\ Len(a) = Len(queue[s]) + 1 /\ Len(queue[s]) \in Nat
  BY <1>1
<1>3. ASSUME NEW k \in 1..Len(a) PROVE a[k].n = sent[s] + 1 - Len(a) + k
  <2>1. CASE k = Len(a)
    BY <1>1, <1>2, <2>1
  <2>2. CASE k # Len(a)
    <3>1. k \in DOMAIN queue[s] /\ a[k] = queue[s][k]
      BY <1>1, <1>2, <2>2
    <3> QED
      BY <1>1, <1>2, <3>1 DEF NewestWait
  <2> QED
    BY <2>1, <2>2
<1>6. q = a \/ q = Tail(a)
  BY DEF Overflowing
<1> HIDE DEF p, a
<1>4. CASE q = a
  <2>1. DOMAIN q = 1..Len(a)
    BY <1>2, <1>4
  <2> QED
    BY <1>2, <1>3, <1>4, <2>1
<1>5. CASE q = Tail(a)
  <2>1. /\ q \in Seq(Packet) /\ Len(a) \in Nat /\ Len(q) = Len(a) - 1
        /\ \A k \in DOMAIN q : k \in Nat /\ k + 1 \in DOMAIN a /\ q[k] = a[k + 1]
    <3>1. a \in Seq(Packet)
      BY <1>2
    <3>2. a # <<>>
      BY <1>2
    <3>3. /\ Tail(a) \in Seq(Packet) /\ Len(a) \in Nat /\ Len(Tail(a)) = Len(a) - 1
          /\ \A k \in DOMAIN Tail(a) :
               k \in Nat /\ k + 1 \in DOMAIN a /\ Tail(a)[k] = a[k + 1]
      BY ONLY <3>1, <3>2, TailFacts
    <3> QED
      BY ONLY <3>3, <1>5
  <2>2. ASSUME NEW k \in DOMAIN q PROVE q[k].n = sent[s] + 1 - Len(q) + k
    <3>1. k \in Nat /\ k + 1 \in 1..Len(a) /\ q[k] = a[k + 1]
      BY <1>2, <2>1
    <3>2. a[k + 1].n = sent[s] + 1 - Len(a) + (k + 1)
      BY <1>3, <3>1
    <3>3. sent[s] + 1 - Len(a) + (k + 1) = sent[s] + 1 - Len(q) + k
      <4>1. sent[s] \in Nat /\ Len(a) \in Nat /\ Len(q) = Len(a) - 1 /\ k \in Nat
        BY <1>1, <2>1, <3>1
      <4> QED
        BY ONLY <4>1
    <3> QED
      BY <3>1, <3>2, <3>3
  <2>3. Len(q) <= Len(queue[s]) + 1
    BY <1>2, <2>1
  <2> QED
    BY <2>1, <2>2, <2>3
<1> QED
  BY <1>4, <1>5, <1>6
-----------------------------------------------------------------------------
(* What is delivered: r is what was delivered, b[s] bounds what s sent of it *)

Ordered(r) ==
  \A d \in Sources : \A i, j \in DOMAIN r[d] :
    i < j /\ r[d][i].src = r[d][j].src => r[d][i].n < r[d][j].n

LEMMA BoundGrows ==
  ASSUME NEW r \in [Sources -> Seq(Delivery)],
         NEW b \in [Sources -> Int], NEW c \in [Sources -> Int],
         \A u \in Sources : b[u] <= c[u], Bounded(r, b)
  PROVE  Bounded(r, c)
<1> SUFFICES ASSUME NEW d \in Sources, NEW i \in DOMAIN r[d]
             PROVE  r[d][i].n <= c[r[d][i].src]
  BY DEF Bounded
<1>1. r[d][i] \in Delivery
  OBVIOUS
<1>2. r[d][i].n \in Int /\ r[d][i].src \in Sources
  BY <1>1 DEF Delivery
<1>3. r[d][i].n <= b[r[d][i].src]
  BY DEF Bounded
<1>4. b[r[d][i].src] <= c[r[d][i].src] /\ b[r[d][i].src] \in Int /\ c[r[d][i].src] \in Int
  BY <1>2
<1> QED
  BY <1>2, <1>3, <1>4

\* A packet that is delivered comes after everything delivered before.
LEMMA DeliveryKeepsOrder ==
  ASSUME NEW r \in [Sources -> Seq(Delivery)], NEW b \in [Sources -> Int],
         Bounded(r, b), Ordered(r),
         NEW s \in Sources, NEW h \in Delivery, h.src = s, h.n = b[s] + 1,
         NEW D
  PROVE  Ordered([d \in Sources |-> IF d \in D THEN Append(r[d], h) ELSE r[d]])
<1> DEFINE q == [d \in Sources |-> IF d \in D THEN Append(r[d], h) ELSE r[d]]
<1> SUFFICES ASSUME NEW d \in Sources, NEW i \in DOMAIN q[d], NEW j \in DOMAIN q[d],
                    i < j, q[d][i].src = q[d][j].src
             PROVE  q[d][i].n < q[d][j].n
  BY DEF Ordered
<1>1. CASE d \notin D
  <2>1. q[d] = r[d]
    BY <1>1
  <2> QED
    BY <2>1 DEF Ordered
<1>2. CASE d \in D
  <2>1. q[d] = Append(r[d], h) /\ r[d] \in Seq(Delivery)
    BY <1>2
  <2> HIDE DEF q
  <2>2. i \in DOMAIN r[d] /\ q[d][i] = r[d][i]
    BY <2>1
  <2>3. CASE j \in DOMAIN r[d]
    <3>1. q[d][j] = r[d][j]
      BY <2>1, <2>3
    <3> QED
      BY <2>2, <2>3, <3>1 DEF Ordered
  <2>4. CASE j \notin DOMAIN r[d]
    <3>1. q[d][j] = h
      BY <2>1, <2>4
    <3>2. r[d][i].n <= b[s] /\ r[d][i].src = s
      BY <2>2, <3>1 DEF Bounded
    <3>3. r[d][i].n \in Int /\ b[s] \in Int
      <4>1. r[d][i] \in Delivery
        BY <2>1, <2>2
      <4> QED
        BY <4>1 DEF Delivery
    <3> QED
      BY <2>2, <3>1, <3>2, <3>3
  <2> QED
    BY <2>3, <2>4
<1> QED
  BY <1>1, <1>2

LEMMA DeliveryKeepsBound ==
  ASSUME NEW r \in [Sources -> Seq(Delivery)],
         NEW c \in [Sources -> Int], Bounded(r, c),
         NEW s \in Sources, NEW h \in Delivery, h.src = s, h.n <= c[s],
         NEW D
  PROVE  Bounded([d \in Sources |-> IF d \in D THEN Append(r[d], h) ELSE r[d]], c)
<1> DEFINE q == [d \in Sources |-> IF d \in D THEN Append(r[d], h) ELSE r[d]]
<1>1. ASSUME NEW d \in Sources, NEW i \in DOMAIN q[d]
      PROVE  q[d][i].n <= c[q[d][i].src]
  <2>1. CASE d \notin D
    <3>1. q[d] = r[d]
      BY <2>1
    <3> QED
      BY <1>1, <3>1 DEF Bounded
  <2>2. CASE d \in D
    <3>1. q[d] = Append(r[d], h) /\ r[d] \in Seq(Delivery)
      BY <2>2
    <3> HIDE DEF q
    <3>2. CASE i \in DOMAIN r[d]
      <4>1. q[d][i] = r[d][i]
        BY <3>1, <3>2
      <4> QED
        BY <3>2, <4>1 DEF Bounded
    <3>3. CASE i \notin DOMAIN r[d]
      <4>1. q[d][i] = h
        BY <1>1, <3>1, <3>3
      <4> QED
        BY <4>1
    <3> QED
      BY <3>2, <3>3
  <2> QED
    BY <2>1, <2>2
<1> QED
  BY <1>1 DEF Bounded

-----------------------------------------------------------------------------
(* The invariant *)

LEMMA BaseTypes ==
  ASSUME TypeOK
  PROVE  Base \in [Sources -> Int]
<1> SUFFICES ASSUME NEW s \in Sources PROVE sent[s] - Len(queue[s]) \in Int
  BY DEF Base
<1>1. sent[s] \in Nat /\ queue[s] \in Seq(Packet)
  BY DEF TypeOK
<1> QED
  BY <1>1

THEOREM InitInv == Init => Inv
<1> SUFFICES ASSUME Init PROVE Inv
  OBVIOUS
<1>1. TypeOK
  <2>1. /\ queue \in [Sources -> Seq(Packet)] /\ received \in [Sources -> Seq(Delivery)]
        /\ services \in Seq(Services)
    BY DEF Init
  <2>2. sent \in [Sources -> Nat] /\ purged \in [Sources -> Nat]
    BY DEF Init
  <2>3. pending \in 0..PacketsToDrop
    BY RouterAssumption DEF Init
  <2> QED
    BY <2>1, <2>2, <2>3 DEF Init, TypeOK
<1>2. NewestWait /\ OrderKept /\ DeliveredLeft
  BY DEF Init, NewestWait, OrderKept, DeliveredLeft, Bounded
<1>3. PurgedAtStart /\ DropsWereAsked
  BY DEF Init, PurgedAtStart, DropsWereAsked
<1> QED
  BY <1>1, <1>2, <1>3 DEF Inv

\* Taking a packet, whatever becomes of it.
LEMMA TakeKeeps ==
  ASSUME Inv, NEW s \in Sources, Take(s), running' => running
  PROVE  /\ queue' \in [Sources -> Seq(Packet)]
         /\ NewestWait'
         /\ PurgedAtStart'
         /\ Base' \in [Sources -> Int]
         /\ \A u \in Sources : Base[u] <= Base'[u]
         /\ Base'[s] = Base[s] + 1
         /\ Head(queue[s]) \in Packet /\ Head(queue[s]).n = Base[s] + 1
<1> USE DEF Inv
<1>1. /\ Tail(queue[s]) \in Seq(Packet)
      /\ Len(Tail(queue[s])) = Len(queue[s]) - 1
      /\ Head(queue[s]) \in Packet
      /\ Head(queue[s]).n = Base[s] + 1
      /\ \A k \in DOMAIN Tail(queue[s]) :
           Tail(queue[s])[k].n = sent[s] - Len(Tail(queue[s])) + k
  BY TakeFacts DEF Take
<1>2. queue' = [queue EXCEPT ![s] = Tail(@)] /\ queue \in [Sources -> Seq(Packet)]
  BY DEF Take, TypeOK
<1>3. queue' \in [Sources -> Seq(Packet)] /\ queue'[s] = Tail(queue[s])
  BY <1>1, <1>2
<1>4. \A u \in Sources : u # s => queue'[u] = queue[u]
  BY <1>2
<1>5. sent' = sent /\ purged' = purged /\ declared' = declared
  BY DEF Take
<1>6. NewestWait'
  <2> SUFFICES ASSUME NEW u \in Sources, NEW k \in DOMAIN queue'[u]
               PROVE  queue'[u][k].n = sent[u] - Len(queue'[u]) + k
    BY <1>5 DEF NewestWait
  <2>1. CASE u = s
    BY <1>1, <1>3, <2>1
  <2>2. CASE u # s
    BY <1>4, <2>2 DEF NewestWait
  <2> QED
    BY <2>1, <2>2
<1>7. ASSUME NEW u \in Sources
      PROVE  /\ Base'[u] \in Int /\ Base[u] <= Base'[u]
             /\ u = s => Base'[u] = Base[u] + 1
             /\ purged[u] \in Nat /\ Base[u] \in Int
  <2>1. Base'[u] = sent[u] - Len(queue'[u]) /\ Base[u] = sent[u] - Len(queue[u])
    BY <1>5 DEF Base
  <2>2. sent[u] \in Nat /\ purged[u] \in Nat /\ Len(queue[u]) \in Nat
    BY DEF TypeOK
  <2>3. CASE u = s
    BY <1>1, <1>3, <2>1, <2>2, <2>3
  <2>4. CASE u # s
    BY <1>4, <2>1, <2>2, <2>4
  <2> QED
    BY <2>2, <2>3, <2>4
<1>8. Base' \in [Sources -> Int]
  BY <1>7 DEF Base
<1>9. PurgedAtStart'
  <2>1. (running' => declared') /\ \A u \in Sources : purged'[u] <= sent'[u]
    BY <1>5 DEF PurgedAtStart
  <2>2. ASSUME running', NEW u \in Sources PROVE purged'[u] <= Base'[u]
    BY <1>5, <1>7, <2>2 DEF PurgedAtStart
  <2>3. declared'
    BY <1>5 DEF PurgedAtStart, Take
  <2> QED
    BY <2>1, <2>2, <2>3 DEF PurgedAtStart
<1> QED
  BY <1>1, <1>3, <1>6, <1>7, <1>8, <1>9

\* Delivering the packet taken, to any set of destinations.
LEMMA PublishKeeps ==
  ASSUME Inv, NEW s \in Sources, NEW D, PublishTo(s, D), running' => running
  PROVE  OrderKept' /\ DeliveredLeft' /\ received' \in [Sources -> Seq(Delivery)]
<1> DEFINE h == [src |-> s, n |-> Head(queue[s]).n]
<1>1. /\ Base' \in [Sources -> Int] /\ Base \in [Sources -> Int]
      /\ \A u \in Sources : Base[u] <= Base'[u]
      /\ Base'[s] = Base[s] + 1
      /\ Head(queue[s]) \in Packet /\ Head(queue[s]).n = Base[s] + 1
  BY TakeKeeps, BaseTypes DEF PublishTo, Inv
<1>2. h \in Delivery /\ h.src = s /\ h.n = Base[s] + 1 /\ h.n <= Base'[s]
  BY <1>1 DEF Packet, Delivery
<1>3. received' = [d \in Sources |-> IF d \in D THEN Append(received[d], h) ELSE received[d]]
  BY DEF PublishTo
<1> HIDE DEF h
<1>4. received \in [Sources -> Seq(Delivery)] /\ Bounded(received, Base) /\ Ordered(received)
  BY DEF Inv, TypeOK, DeliveredLeft, OrderKept, Ordered
<1>5. Bounded(received, Base')
  BY <1>1, <1>4, BoundGrows
<1>6. Ordered(received')
  BY <1>1, <1>2, <1>3, <1>4, DeliveryKeepsOrder
<1>7. Bounded(received', Base') /\ received' \in [Sources -> Seq(Delivery)]
  <2> DEFINE c == Base'
  <2>1. c \in [Sources -> Int] /\ h.n <= c[s] /\ Bounded(received, c)
    BY <1>1, <1>2, <1>5
  <2> HIDE DEF c
  <2>2. Bounded([d \in Sources |-> IF d \in D THEN Append(received[d], h) ELSE received[d]], c)
    BY <1>2, <1>4, <2>1, DeliveryKeepsBound
  <2>3. [d \in Sources |-> IF d \in D THEN Append(received[d], h) ELSE received[d]]
          \in [Sources -> Seq(Delivery)]
    BY <1>2, <1>4
  <2>4. Bounded(received', c) /\ received' \in [Sources -> Seq(Delivery)]
    BY <1>3, <2>2, <2>3, Zenon
  <2> QED
    BY <2>4 DEF c
<1> QED
  BY <1>6, <1>7 DEF OrderKept, Ordered, DeliveredLeft

\* A step that delivers nothing, and brings nothing back.
LEMMA NothingDelivered ==
  ASSUME Inv, received' = received, Base' \in [Sources -> Int],
         \A u \in Sources : Base[u] <= Base'[u]
  PROVE  OrderKept' /\ DeliveredLeft' /\ received' \in [Sources -> Seq(Delivery)]
<1>1. received \in [Sources -> Seq(Delivery)] /\ Bounded(received, Base)
  BY DEF Inv, TypeOK, DeliveredLeft
<1>2. Base \in [Sources -> Int]
  BY BaseTypes DEF Inv
<1>3. Bounded(received, Base')
  BY <1>1, <1>2, BoundGrows
<1> QED
  BY <1>1, <1>3 DEF Inv, OrderKept, DeliveredLeft

-----------------------------------------------------------------------------
(* The actions *)

\* The actions of the router's thread that take a packet.
LEMMA TakingKeepsInv ==
  ASSUME Inv, NEW s \in Sources, HandlePacket(s) \/ CrashWhileRouting(s)
  PROVE  Inv'
<1> USE DEF Inv
<1>1. Take(s) /\ (running' => running)
  BY DEF HandlePacket, Ignore, Drop, Refuse, Forward, CrashWhileRouting, PublishTo
<1>2. /\ queue' \in [Sources -> Seq(Packet)] /\ NewestWait' /\ PurgedAtStart'
      /\ Base' \in [Sources -> Int] /\ \A u \in Sources : Base[u] <= Base'[u]
  BY <1>1, TakeKeeps
<1>3. OrderKept' /\ DeliveredLeft' /\ received' \in [Sources -> Seq(Delivery)]
  <2>1. CASE received' = received
    BY <1>2, <2>1, NothingDelivered
  <2>3. CASE CrashWhileRouting(s)
    <3>1. PICK D \in SUBSET (Route(s) \ {AgentTT}) : PublishTo(s, D)
      BY <2>3 DEF CrashWhileRouting
    <3> QED
      BY <1>1, <3>1, PublishKeeps
  <2>4. CASE Forward(s)
    <3>1. PublishTo(s, Route(s))
      BY <2>4 DEF Forward
    <3> QED
      BY <1>1, <3>1, PublishKeeps
  <2>5. received' = received \/ CrashWhileRouting(s) \/ Forward(s)
    BY DEF HandlePacket, Ignore, Drop, Refuse
  <2> QED
    BY <2>1, <2>3, <2>4, <2>5
<1>4. /\ pending' \in 0..PacketsToDrop /\ drops' \in Nat /\ drops' + pending' <= asked'
      /\ asked' \in Nat
  <2>1. /\ pending \in 0..PacketsToDrop /\ drops \in Nat /\ asked \in Nat /\ PacketsToDrop \in Nat
        /\ drops + pending <= asked /\ asked' = asked
    BY <1>1, RouterAssumption DEF TypeOK, DropsWereAsked, Take
  <2>2. CASE pending' = pending /\ drops' = drops
    BY <2>1, <2>2
  <2>3. CASE pending > 0 /\ pending' = pending - 1 /\ drops' = drops + 1
    BY <2>1, <2>3
  <2>4. \/ pending' = pending /\ drops' = drops
        \/ pending > 0 /\ pending' = pending - 1 /\ drops' = drops + 1
    BY DEF HandlePacket, Ignore, Drop, Refuse, Forward, CrashWhileRouting
  <2> QED
    BY <2>2, <2>3, <2>4
<1>5. running' \in BOOLEAN /\ services' \in Seq(Services) /\ cut' \in BOOLEAN
  <2>1. \/ running' = running /\ services' = services /\ cut' = cut
        \/ running' = FALSE /\ services' = <<>> /\ cut' = TRUE
    BY DEF HandlePacket, Ignore, Drop, Refuse, Forward, CrashWhileRouting
  <2>2. services \in Seq(Services) /\ <<>> \in Seq(Services)
    BY DEF TypeOK
  <2> QED
    BY <2>1, <2>2 DEF TypeOK
<1>6. UNCHANGED <<declared, sent, purged, published, starts>>
  BY <1>1 DEF Take
<1>7. TypeOK'
  BY <1>2, <1>3, <1>4, <1>5, <1>6 DEF TypeOK
<1>8. DropsWereAsked'
  BY <1>4 DEF DropsWereAsked
<1> QED
  BY <1>2, <1>3, <1>7, <1>8

LEMMA SendKeepsInv ==
  ASSUME Inv, NEW s \in Sources, NEW form \in Forms, SendPacket(s, form)
  PROVE  Inv'
<1> USE DEF Inv
<1>1. sent' = [sent EXCEPT ![s] = sent[s] + 1] /\ sent' \in [Sources -> Nat]
  BY DEF SendPacket, TypeOK
<1>2. /\ UNCHANGED <<running, declared, services, pending, received>>
      /\ UNCHANGED <<purged, asked, drops, published, starts, cut>>
  BY DEF SendPacket
<1>3. /\ queue'[s] \in Seq(Packet)
      /\ queue' = [queue EXCEPT ![s] = queue'[s]]
      /\ Len(queue'[s]) <= Len(queue[s]) + 1
      /\ \A k \in DOMAIN queue'[s] : queue'[s][k].n = sent'[s] - Len(queue'[s]) + k
  <2>1. queue \in [Sources -> Seq(Packet)] /\ sent \in [Sources -> Nat]
    BY DEF TypeOK
  <2>2. CASE declared
    <3> DEFINE q == Overflowing(Append(queue[s], [n |-> sent[s] + 1, form |-> form]))
    <3>1. queue' = [queue EXCEPT ![s] = q]
      BY <2>2 DEF SendPacket
    <3>2. /\ q \in Seq(Packet) /\ Len(q) <= Len(queue[s]) + 1
          /\ \A k \in DOMAIN q : q[k].n = sent[s] + 1 - Len(q) + k
      BY SendFacts
    <3> HIDE DEF q
    <3>3. queue'[s] = q /\ sent'[s] = sent[s] + 1
      BY <1>1, <2>1, <3>1
    <3> QED
      <4>1. queue' = [queue EXCEPT ![s] = queue'[s]]
        BY <3>1, <3>3
      <4>2. \A k \in DOMAIN queue'[s] : queue'[s][k].n = sent'[s] - Len(queue'[s]) + k
        <5> SUFFICES ASSUME NEW k \in DOMAIN q PROVE q[k].n = sent'[s] - Len(q) + k
          BY <3>3
        <5>1. q[k].n = sent[s] + 1 - Len(q) + k
          BY <3>2
        <5>2. sent[s] \in Nat /\ Len(q) \in Nat /\ k \in Nat
          BY <2>1, <3>2
        <5> QED
          BY <3>3, <5>1, <5>2
      <4> QED
        BY <3>2, <3>3, <4>1, <4>2
  <2>3. CASE ~declared
    <3>1. queue' = queue /\ queue[s] = <<>>
      BY <2>3 DEF SendPacket, PurgedAtStart
    <3>2. queue = [queue EXCEPT ![s] = queue[s]]
      BY <2>1
    <3> QED
      BY <2>1, <3>1, <3>2
  <2> QED
    BY <2>2, <2>3
<1>4. queue \in [Sources -> Seq(Packet)] /\ queue' \in [Sources -> Seq(Packet)]
  BY <1>3 DEF TypeOK
<1>5. ASSUME NEW u \in Sources, u # s PROVE queue'[u] = queue[u] /\ sent'[u] = sent[u]
  BY <1>1, <1>3, <1>4, <1>5
<1>6. TypeOK'
  BY <1>1, <1>2, <1>4 DEF TypeOK
<1>7. NewestWait'
  <2> SUFFICES ASSUME NEW u \in Sources, NEW k \in DOMAIN queue'[u]
               PROVE  queue'[u][k].n = sent'[u] - Len(queue'[u]) + k
    BY DEF NewestWait
  <2>1. CASE u = s
    BY <1>3, <2>1
  <2>2. CASE u # s
    BY <1>5, <2>2 DEF NewestWait
  <2> QED
    BY <2>1, <2>2
<1>8. ASSUME NEW u \in Sources
      PROVE  /\ Base'[u] \in Int /\ Base[u] \in Int /\ Base[u] <= Base'[u]
             /\ sent[u] <= sent'[u] /\ sent[u] \in Nat /\ sent'[u] \in Nat /\ purged[u] \in Nat
  <2>1. Base'[u] = sent'[u] - Len(queue'[u]) /\ Base[u] = sent[u] - Len(queue[u])
    BY DEF Base
  <2>2. /\ sent[u] \in Nat /\ sent'[u] \in Nat /\ purged[u] \in Nat
        /\ Len(queue[u]) \in Nat /\ Len(queue'[u]) \in Nat
    BY <1>1, <1>4 DEF TypeOK
  <2>3. CASE u = s
    <3>1. sent'[u] = sent[u] + 1 /\ Len(queue'[u]) <= Len(queue[u]) + 1
      BY <1>1, <1>3, <2>3 DEF TypeOK
    <3> QED
      BY <2>1, <2>2, <3>1
  <2>4. CASE u # s
    BY <1>5, <2>1, <2>2, <2>4
  <2> QED
    BY <2>3, <2>4
<1>9. OrderKept' /\ DeliveredLeft'
  <2>1. Base' \in [Sources -> Int]
    BY <1>8 DEF Base
  <2> QED
    BY <1>2, <1>8, <2>1, NothingDelivered
<1>10. PurgedAtStart'
  <2>1. ASSUME NEW u \in Sources PROVE purged'[u] <= sent'[u] /\ (running' => purged'[u] <= Base'[u])
    <3>1. purged[u] <= sent[u] /\ (running => purged[u] <= Base[u])
      BY DEF PurgedAtStart
    <3> QED
      BY <1>2, <1>8, <3>1
  <2>2. ~declared' => \A u \in Sources : queue'[u] = <<>>
    BY <1>2, <1>4 DEF PurgedAtStart, SendPacket
  <2>3. running' => declared'
    BY <1>2 DEF PurgedAtStart
  <2> QED
    BY <2>1, <2>2, <2>3 DEF PurgedAtStart
<1>11. DropsWereAsked'
  BY <1>2 DEF DropsWereAsked
<1> QED
  BY <1>6, <1>7, <1>9, <1>10, <1>11

\* A start or a stop, which empty the queues.
LEMMA EmptyingKeepsInv ==
  ASSUME Inv, Start \/ Stop
  PROVE  Inv'
<1> USE DEF Inv
<1>1. /\ queue' = [s \in Sources |-> <<>>]
      /\ services' = <<>>
      /\ UNCHANGED <<received, sent, asked, drops, published, cut>>
      /\ \/ running' = TRUE /\ declared' = TRUE /\ purged' = sent /\ pending' = 0
            /\ starts' = starts + 1
         \/ running' = FALSE /\ declared' = FALSE /\ UNCHANGED <<purged, pending, starts>>
  BY DEF Start, Stop
<1>2. TypeOK'
  <2>1. queue' \in [Sources -> Seq(Packet)] /\ services' \in Seq(Services)
    BY <1>1
  <2>2. pending' \in 0..PacketsToDrop /\ starts' \in Nat
    BY <1>1, RouterAssumption DEF TypeOK
  <2>3. purged' \in [Sources -> Nat] /\ running' \in BOOLEAN /\ declared' \in BOOLEAN
    BY <1>1 DEF TypeOK
  <2> QED
    BY <1>1, <2>1, <2>2, <2>3 DEF TypeOK
<1>3. ASSUME NEW u \in Sources
      PROVE  /\ queue'[u] = <<>> /\ Base'[u] = sent[u] /\ sent[u] \in Nat
             /\ Base[u] \in Int /\ Base[u] <= Base'[u]
             /\ purged'[u] <= sent[u]
  <2>1. queue'[u] = <<>> /\ sent'[u] = sent[u] /\ sent[u] \in Nat /\ Len(queue[u]) \in Nat
    BY <1>1 DEF TypeOK
  <2>2. Base[u] = sent[u] - Len(queue[u]) /\ Base'[u] = sent'[u] - Len(queue'[u])
    BY DEF Base
  <2>3. Len(queue'[u]) = 0
    BY <2>1
  <2>4. purged'[u] <= sent[u]
    BY <1>1, <2>1 DEF PurgedAtStart
  <2> QED
    BY <2>1, <2>2, <2>3, <2>4
<1>4. NewestWait'
  BY <1>3 DEF NewestWait
<1>5. OrderKept' /\ DeliveredLeft'
  <2>1. Base' \in [Sources -> Int]
    BY <1>3 DEF Base
  <2> QED
    BY <1>1, <1>3, <2>1, NothingDelivered
<1>6. PurgedAtStart'
  BY <1>1, <1>3 DEF PurgedAtStart
<1>7. DropsWereAsked'
  <2>1. drops \in Nat /\ asked \in Nat /\ pending \in Int /\ pending' \in Int /\ pending >= 0
    BY <1>1, RouterAssumption DEF TypeOK
  <2>2. drops + pending <= asked /\ drops' = drops /\ asked' = asked /\ pending' \in {0, pending}
    BY <1>1 DEF DropsWereAsked
  <2>3. drops' + pending' <= asked'
    <3>1. CASE pending' = 0
      BY <2>1, <2>2, <3>1
    <3>2. CASE pending' = pending
      BY <2>2, <3>2
    <3> QED
      BY <2>2, <3>1, <3>2
  <2> QED
    BY <2>3 DEF DropsWereAsked
<1> QED
  BY <1>2, <1>4, <1>5, <1>6, <1>7

\* The steps that leave packets alone.
LEMMA OthersKeepInv ==
  ASSUME Inv, \/ \E m \in Services : Publish(m)
              \/ Crash
              \/ HandleService
              \/ UNCHANGED vars
  PROVE  Inv'
<1> USE DEF Inv
<1>1. /\ UNCHANGED <<declared, queue, received, sent, purged, drops, starts, cut>>
      /\ running' \in BOOLEAN /\ (running' => running)
      /\ services' \in Seq(Services) /\ published' \in Nat
  <2>0. /\ services \in Seq(Services) /\ <<>> \in Seq(Services)
        /\ published \in Nat /\ running \in BOOLEAN
    BY DEF TypeOK
  <2>1. ASSUME NEW m \in Services, Publish(m) PROVE <1>1!1 /\ <1>1!2 /\ <1>1!3
    BY <2>0, <2>1 DEF Publish
  <2>2. CASE Crash
    BY <2>0, <2>2 DEF Crash
  <2>3. CASE HandleService
    BY <2>0, <2>3 DEF HandleService
  <2>4. CASE UNCHANGED vars
    BY <2>0, <2>4 DEF vars
  <2> QED
    BY <2>1, <2>2, <2>3, <2>4
<1>2. Base' = Base
  BY <1>1 DEF Base
<1>3. NewestWait' /\ DeliveredLeft' /\ OrderKept' /\ PurgedAtStart'
  BY <1>1, <1>2 DEF NewestWait, DeliveredLeft, Bounded, OrderKept, PurgedAtStart
<1>5. pending' \in 0..PacketsToDrop /\ asked' \in Nat /\ drops' + pending' <= asked'
  <2>1. /\ pending \in 0..PacketsToDrop /\ drops \in Nat /\ asked \in Nat /\ PacketsToDrop \in Nat
        /\ drops + pending <= asked /\ drops' = drops
    BY <1>1, RouterAssumption DEF TypeOK, DropsWereAsked
  <2>2. CASE pending' = pending /\ asked' = asked
    BY <2>1, <2>2
  <2>3. CASE pending' = PacketsToDrop /\ asked' = asked + PacketsToDrop
    BY <2>1, <2>3
  <2>4. \/ pending' = pending /\ asked' = asked
        \/ pending' = PacketsToDrop /\ asked' = asked + PacketsToDrop
    BY DEF Publish, Crash, HandleService, vars
  <2> QED
    BY <2>2, <2>3, <2>4
<1>6. TypeOK'
  BY <1>1, <1>5 DEF TypeOK
<1>7. DropsWereAsked'
  BY <1>5 DEF DropsWereAsked
<1> QED
  BY <1>3, <1>6, <1>7

LEMMA NextKeepsInv == Inv /\ [Next]_vars => Inv'
<1> SUFFICES ASSUME Inv, [Next]_vars PROVE Inv'
  OBVIOUS
<1>1. CASE \E s \in Sources, form \in Forms : SendPacket(s, form)
  BY <1>1, SendKeepsInv
<1>2. CASE Start \/ Stop
  BY <1>2, EmptyingKeepsInv
<1>3. CASE \E s \in Sources : HandlePacket(s) \/ CrashWhileRouting(s)
  BY <1>3, TakingKeepsInv
<1>4. CASE \/ \E m \in Services : Publish(m)
           \/ Crash
           \/ HandleService
           \/ UNCHANGED vars
  BY <1>4, OthersKeepInv
<1> QED
  BY <1>1, <1>2, <1>3, <1>4 DEF Next

THEOREM InvHolds == Spec => []Inv
  BY InitInv, NextKeepsInv, PTL DEF Spec

-----------------------------------------------------------------------------
(* Theorems *)

\* The state of the router stays well typed (_on_request, _queues_init).
THEOREM RouterTypes == Spec => []TypeOK
<1>1. Inv => TypeOK
  BY DEF Inv
<1> QED
  BY <1>1, InvHolds, PTL

\* For every topology, limit and number of crashes: each destination gets the
\* packets of a source in their order, each at most once (_on_request).
THEOREM PacketsKeepOrder == Spec => []OrderKept
<1>1. Inv => OrderKept
  BY DEF Inv
<1> QED
  BY <1>1, InvHolds, PTL

\* What waits for the router is the gapless end of what was sent (x-max-length).
THEOREM NewestPacketsWait == Spec => []NewestWait
<1>1. Inv => NewestWait
  BY DEF Inv
<1> QED
  BY <1>1, InvHolds, PTL

\* A router that starts routes nothing from before (_queues_init purges).
THEOREM StartsAreClean == Spec => []CleanStart
<1>1. Inv => CleanStart
  <2> SUFFICES ASSUME Inv, running, NEW s \in Sources, NEW k \in DOMAIN queue[s]
               PROVE  queue[s][k].n > purged[s]
    BY DEF CleanStart
  <2>1. queue[s][k].n = sent[s] - Len(queue[s]) + k
    BY DEF Inv, NewestWait
  <2>2. purged[s] <= sent[s] - Len(queue[s])
    BY DEF Inv, PurgedAtStart, Base
  <2>3. k \in Nat /\ k > 0 /\ sent[s] \in Nat /\ Len(queue[s]) \in Nat /\ purged[s] \in Nat
    BY DEF Inv, TypeOK
  <2> QED
    BY <2>1, <2>2, <2>3
<1> QED
  BY <1>1, InvHolds, PTL

\* Overlapping requests for a lossy link never make the router drop more than
\* they ask for together.
THEOREM DropsAreAsked == Spec => []DropsWereAsked
<1>1. Inv => DropsWereAsked
  BY DEF Inv
<1> QED
  BY <1>1, InvHolds, PTL

-----------------------------------------------------------------------------
(* What the testing tool's agent sees *)

Elements(q) == {q[i] : i \in DOMAIN q}

SeesAll(r) ==
  \A d \in Sources \ {AgentTT} :
    LET fromNodes == {e \in Elements(r[d]) : e.src # AgentTT}
        seen      == {e \in Elements(r[AgentTT]) : d \in Route(e.src)}
    IN /\ fromNodes = seen
       /\ \A e, f \in seen : Before(r[d], e, f) <=> Before(r[AgentTT], e, f)

LEMMA AgentSees == AgentSeesAll <=> (~cut => SeesAll(received))
BY DEF AgentSeesAll, SeesAll, Delivered, Elements

LEMMA ElementsOfAppend ==
  ASSUME NEW S, NEW q \in Seq(S), NEW h \in S
  PROVE  Elements(Append(q, h)) = Elements(q) \cup {h}
<1> DEFINE a == Append(q, h)
<1>1. /\ Len(q) \in Nat /\ DOMAIN q = 1..Len(q) /\ DOMAIN a = 1..(Len(q) + 1)
      /\ a[Len(q) + 1] = h /\ \A i \in DOMAIN q : a[i] = q[i]
  OBVIOUS
<1> HIDE DEF a
<1>2. \A i \in DOMAIN a : i \in DOMAIN q \/ i = Len(q) + 1
  BY <1>1
<1>3. DOMAIN q \cup {Len(q) + 1} = DOMAIN a
  BY <1>1, <1>2
<1>4. QED
  BY <1>1, <1>2, <1>3 DEF Elements, a

\* What is new comes after everything that was there.
LEMMA BeforeInAppend ==
  ASSUME NEW S, NEW q \in Seq(S), NEW h \in S, h \notin Elements(q), NEW e, NEW f
  PROVE  Before(Append(q, h), e, f) <=> Before(q, e, f) \/ (f = h /\ e \in Elements(q))
<1> DEFINE a == Append(q, h)
<1>1. /\ Len(q) \in Nat /\ DOMAIN q = 1..Len(q) /\ DOMAIN a = 1..(Len(q) + 1)
      /\ a[Len(q) + 1] = h /\ \A i \in DOMAIN q : a[i] = q[i]
  OBVIOUS
<1> HIDE DEF a
<1>2. ASSUME Before(a, e, f) PROVE Before(q, e, f) \/ (f = h /\ e \in Elements(q))
  <2>1. PICK i, j \in DOMAIN a : i < j /\ a[i] = e /\ a[j] = f
    BY <1>2 DEF Before
  <2>2. i \in DOMAIN q /\ (j \in DOMAIN q \/ j = Len(q) + 1)
    BY <1>1, <2>1
  <2>3. QED
    BY <1>1, <2>1, <2>2 DEF Before, Elements
<1>3. ASSUME Before(q, e, f) PROVE Before(a, e, f)
  <2>1. PICK i, j \in DOMAIN q : i < j /\ q[i] = e /\ q[j] = f
    BY <1>3 DEF Before
  <2>2. i \in DOMAIN a /\ j \in DOMAIN a /\ a[i] = e /\ a[j] = f
    BY <1>1, <2>1
  <2>3. QED
    BY <2>1, <2>2 DEF Before
<1>4. ASSUME f = h, e \in Elements(q) PROVE Before(a, e, f)
  <2>1. PICK i \in DOMAIN q : q[i] = e
    BY <1>4 DEF Elements
  <2>2. /\ i \in DOMAIN a /\ Len(q) + 1 \in DOMAIN a
        /\ i < Len(q) + 1 /\ a[i] = e /\ a[Len(q) + 1] = f
    BY <1>1, <1>4, <2>1
  <2>3. QED
    BY <2>2 DEF Before
<1>5. QED
  BY <1>2, <1>3, <1>4 DEF a

\* A new packet that goes to all its destinations goes to the agent as well,
\* and is the last one for everybody.
LEMMA ForwardSees ==
  ASSUME NEW r \in [Sources -> Seq(Delivery)], SeesAll(r),
         NEW s \in Sources, NEW h \in Delivery, h.src = s,
         \A d \in Sources : h \notin Elements(r[d])
  PROVE  SeesAll([d \in Sources |-> IF d \in Route(s) THEN Append(r[d], h) ELSE r[d]])
<1> DEFINE q == [d \in Sources |-> IF d \in Route(s) THEN Append(r[d], h) ELSE r[d]]
<1>1. AgentTT \in Sources /\ (AgentTT \in Route(s) <=> s # AgentTT)
  BY DEF Sources, OnLink, Route
<1>2. ASSUME NEW d \in Sources
      PROVE  /\ Elements(q[d]) = Elements(r[d]) \cup (IF d \in Route(s) THEN {h} ELSE {})
             /\ \A e, f : Before(q[d], e, f) <=>
                  Before(r[d], e, f) \/ (d \in Route(s) /\ f = h /\ e \in Elements(r[d]))
  <2>1. r[d] \in Seq(Delivery) /\ q[d] = IF d \in Route(s) THEN Append(r[d], h) ELSE r[d]
    OBVIOUS
  <2> HIDE DEF q
  <2>2. CASE d \in Route(s)
    BY <2>1, <2>2, ElementsOfAppend, BeforeInAppend
  <2>3. CASE d \notin Route(s)
    BY <2>1, <2>3
  <2>4. QED
    BY <2>2, <2>3
<1>3. \A e, f : Before(r[AgentTT], e, f) => f \in Elements(r[AgentTT])
  BY DEF Before, Elements
<1> HIDE DEF q
<1>4. ASSUME NEW d \in Sources \ {AgentTT}
      PROVE  LET fromNodes == {e \in Elements(q[d]) : e.src # AgentTT}
                 seen      == {e \in Elements(q[AgentTT]) : d \in Route(e.src)}
             IN /\ fromNodes = seen
                /\ \A e, f \in seen : Before(q[d], e, f) <=> Before(q[AgentTT], e, f)
  <2> DEFINE oldFromNodes == {e \in Elements(r[d]) : e.src # AgentTT}
             oldSeen == {e \in Elements(r[AgentTT]) : d \in Route(e.src)}
             fromNodes == {e \in Elements(q[d]) : e.src # AgentTT}
             seen      == {e \in Elements(q[AgentTT]) : d \in Route(e.src)}
             new == IF s # AgentTT /\ d \in Route(s) THEN {h} ELSE {}
  <2>1. /\ oldFromNodes = oldSeen
        /\ \A e, f \in oldSeen : Before(r[d], e, f) <=> Before(r[AgentTT], e, f)
    BY DEF SeesAll
  <2>2. fromNodes = oldFromNodes \cup new
    BY <1>2
  <2>3. seen = oldSeen \cup new
    BY <1>1, <1>2
  <2>4. ASSUME NEW e \in seen, NEW f \in seen
        PROVE  Before(q[d], e, f) <=> Before(q[AgentTT], e, f)
    <3>1. /\ Before(q[d], e, f) <=>
               Before(r[d], e, f) \/ (d \in Route(s) /\ f = h /\ e \in Elements(r[d]))
          /\ Before(q[AgentTT], e, f) <=>
               \/ Before(r[AgentTT], e, f)
               \/ s # AgentTT /\ f = h /\ e \in Elements(r[AgentTT])
      BY <1>1, <1>2
    <3>2. h \notin Elements(r[d]) /\ h \notin Elements(r[AgentTT])
      BY <1>1
    <3>3. ASSUME NEW x \in Sources, h \notin Elements(r[x])
          PROVE  ~Before(r[x], e, h) /\ ~Before(r[x], h, f)
      BY <3>3 DEF Before, Elements
    <3>4. CASE e \in oldSeen /\ f \in oldSeen
      BY <2>1, <3>1, <3>2, <3>4
    <3>5. CASE e \in oldSeen /\ f \in new
      <4>1. /\ s # AgentTT /\ d \in Route(s) /\ f = h
            /\ e \in Elements(r[AgentTT]) /\ e \in Elements(r[d])
        BY <2>1, <3>5
      <4>2. QED
        BY <3>1, <4>1
    <3>6. CASE e \in new
      <4>1. e = h
        BY <3>6
      <4>2. QED
        BY <1>1, <3>1, <3>2, <3>3, <4>1
    <3>7. QED
      BY <2>3, <3>4, <3>5, <3>6
  <2>5. QED
    BY <2>1, <2>2, <2>3, <2>4
<1>5. SeesAll(q)
  BY <1>4 DEF SeesAll
<1>6. QED
  BY <1>5 DEF q

\* The testing tool's agent, which is on every link, sees the traffic of every
\* node in its order (generate_routing_table_from_test_configuration).
THEOREM AgentSeesEverything == Spec => []AgentSeesAll
<1>1. Init => AgentSeesAll
  <2>1. ASSUME Init, NEW d \in Sources \ {AgentTT} PROVE received[d] = <<>> /\ received[AgentTT] = <<>>
    BY <2>1 DEF Init, Sources, OnLink
  <2>2. Elements(<<>>) = {}
    BY DEF Elements
  <2>3. QED
    BY <2>1, <2>2, AgentSees DEF SeesAll
<1>2. ASSUME Inv, AgentSeesAll, [Next]_vars PROVE AgentSeesAll'
  <2>1. CASE UNCHANGED received /\ (cut => cut')
    BY <1>2, <2>1 DEF AgentSeesAll, Delivered
  <2>2. CASE cut'
    BY <2>2 DEF AgentSeesAll
  <2>3. ASSUME NEW s \in Sources, Forward(s) PROVE AgentSeesAll'
    <3> DEFINE h == [src |-> s, n |-> Head(queue[s]).n]
    <3>1. Take(s) /\ running' = running /\ cut' = cut
      BY <2>3 DEF Forward, PublishTo
    <3>2. Head(queue[s]) \in Packet /\ Head(queue[s]).n = Base[s] + 1 /\ Base[s] \in Int
      BY <1>2, <3>1, TakeKeeps, BaseTypes DEF Inv
    <3>3. h \in Delivery /\ h.src = s /\ h.n = Base[s] + 1
      BY <3>2 DEF Packet, Delivery
    <3>4. received' = [d \in Sources |->
                         IF d \in Route(s) THEN Append(received[d], h) ELSE received[d]]
      BY <2>3 DEF Forward, PublishTo
    <3> HIDE DEF h
    <3>5. received \in [Sources -> Seq(Delivery)] /\ Bounded(received, Base)
      BY <1>2 DEF Inv, TypeOK, DeliveredLeft
    <3>6. \A d \in Sources : h \notin Elements(received[d])
      BY <3>2, <3>3, <3>5 DEF Bounded, Elements
    <3>7. CASE ~cut
      <4>1. SeesAll(received)
        BY <1>2, <3>7, AgentSees
      <4>2. SeesAll(received')
        BY <3>3, <3>4, <3>5, <3>6, <4>1, ForwardSees
      <4>3. QED
        BY <4>2 DEF AgentSeesAll, SeesAll, Delivered, Elements
    <3>8. QED
      BY <2>2, <3>1, <3>7
  <2>4. \/ UNCHANGED received /\ (cut => cut')
        \/ cut'
        \/ \E s \in Sources : Forward(s)
    BY <1>2 DEF Next, vars, SendPacket, Publish, Start, Stop, Crash, HandlePacket, Ignore, Drop,
       Refuse, CrashWhileRouting, HandleService, Take
  <2>5. QED
    BY <2>1, <2>2, <2>3, <2>4
<1>3. QED
  BY <1>1, <1>2, InvHolds, PTL DEF Spec
=============================================================================
