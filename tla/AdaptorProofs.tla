---------------------------- MODULE AdaptorProofs ---------------------------
(***************************************************************************)
(* Theorems about UiAdaptor, for all messages, roles, sizes of the queues  *)
(* and numbers of messages and replies: the main loop never waits for room *)
(* that only it could make, each request on the screen can be replied to,  *)
(* what a request is about is shown first, and the adaptor implements the  *)
(* table of open requests that the model of a session builds on.           *)
(***************************************************************************)
EXTENDS UiAdaptor, FiniteSetTheorems, TLAPS

TestCasesNamed == {c.tc : c \in Contents} \cup {NoTC}

CapturesNamed == {c.capture : c \in Contents} \cup {NoTC}

\* What the adaptor itself publishes for the testing tool.
AnswerKinds == {"TestCaseStart", "TestCaseSkip", "StepStimuliExecuted",
                "StepVerifyExecuted", "TestCaseSelect"}

Answers == [kind : AnswerKinds, tc : TestCasesNamed, node : {NoNode, coap_client},
            capture : {NoTC}]

Messages == Contents \cup Answers

Memories == [tc : TestCasesNamed, captures : SUBSET [id : Nat, of : CapturesNamed]]

TagNames == {"none", "logs", "testcase", "testsuite", "packets", "testsuite_report",
             "session_setup"}

Holders == {RoleHolder[n] : n \in DOMAIN RoleHolder} \cup {Everyone}

Entries == [kind : {"display", "echo", "waiting", "request"}, id : Nat, to : Holders,
            tag : [name : TagNames, tc : TestCasesNamed], files : SUBSET Nat]

Replies == [id : Nat, form : ReplyForms]

TypeOK ==
  /\ alive \in BOOLEAN
  /\ pc \in {"from_tt", "display", "request", "from_ui", "to_tt", "users"}
  /\ log \in Seq(Messages)
  /\ bus \in Seq(Nat) /\ fromTT \in Seq(Nat)
  /\ display \in Seq(Entries) /\ request \in Seq(Entries) /\ screen \in Seq(Entries)
  /\ pending \in SUBSET Nat /\ popped \in SUBSET Nat
  /\ memory \in Memories
  /\ uiBus \in Seq(Replies) /\ fromUI \in Seq(Replies)
  /\ toTT \in Seq([id : Nat, msg : Answers])
  /\ replies \in Nat
  /\ delivered \in Seq(Nat)

\* The number of messages the main loop has taken up.
Heard == Len(log) - Len(bus) - Len(fromTT)

\* The messages reach the main loop in the order they were published in.
Arriving ==
  /\ Heard \in Nat
  /\ \A k \in DOMAIN fromTT : fromTT[k] = Heard + k
  /\ \A k \in DOMAIN bus : bus[k] = Heard + Len(fromTT) + k

\* One turn of the loop empties its own queues, but for the echo of a reply.
MostDisplays ==
  CASE pc = "display" -> 2
    [] pc \in {"request", "from_ui"} -> 0
    [] OTHER -> 1

QueuesShort ==
  /\ Len(display) <= MostDisplays
  /\ Len(request) <= IF pc \in {"display", "request"} THEN 1 ELSE 0
  /\ Len(toTT) <= IF pc = "to_tt" THEN 1 ELSE 0

\* The table holds messages that were taken up and call for a user; a reply
\* moves one out of it for good.
TableOK ==
  /\ pending \cap popped = {}
  /\ \A i \in pending \cup popped : i \in 1..Heard /\ Asks(i)

IsDisplayOf(e, r) == e.kind = "display" /\ e.id = r.id /\ e.to = r.to

\* A request waits only for the end of the turn that made it, behind its display.
RequestsOK ==
  /\ \A k \in DOMAIN display : display[k].kind \in {"display", "echo"}
  /\ \A k \in DOMAIN request :
       /\ request[k].kind = "request"
       /\ request[k].id = Heard /\ Heard \in pending \cup popped
       /\ \/ \E l \in DOMAIN display : IsDisplayOf(display[l], request[k])
          \/ \E l \in DOMAIN screen : IsDisplayOf(screen[l], request[k])

\* What calls for a user was asked, or is asked at the end of the turn.
AskedOK ==
  /\ \A i \in 1..Heard : Asks(i) =>
       OnScreen("request", i) \/ \E k \in DOMAIN request : request[k].id = i
  /\ \A k \in DOMAIN screen : screen[k].kind = "request" =>
       screen[k].id \in pending \cup popped

Inv == TypeOK /\ Arriving /\ QueuesShort /\ TableOK /\ RequestsOK /\ AskedOK /\ ShownInOrder

-----------------------------------------------------------------------------
(* Sequences *)

LEMMA HeadTail ==
  ASSUME NEW S, NEW q \in Seq(S), q # <<>>
  PROVE  /\ Head(q) \in S /\ Head(q) = q[1] /\ 1 \in DOMAIN q
         /\ Tail(q) \in Seq(S)
         /\ Len(q) \in Nat \ {0} /\ Len(Tail(q)) = Len(q) - 1
         /\ \A k \in DOMAIN Tail(q) :
              k \in Nat \ {0} /\ k + 1 \in DOMAIN q /\ Tail(q)[k] = q[k + 1]
         /\ \A k \in DOMAIN q : k # 1 =>
              k - 1 \in DOMAIN Tail(q) /\ Tail(q)[k - 1] = q[k]
  OBVIOUS

LEMMA Appended ==
  ASSUME NEW S, NEW q \in Seq(S), NEW x \in S
  PROVE  /\ Append(q, x) \in Seq(S)
         /\ Len(q) \in Nat /\ Len(Append(q, x)) = Len(q) + 1
         /\ DOMAIN q = 1..Len(q) /\ DOMAIN Append(q, x) = 1..(Len(q) + 1)
         /\ \A k \in DOMAIN q : k \in DOMAIN Append(q, x) /\ Append(q, x)[k] = q[k]
         /\ Append(q, x)[Len(q) + 1] = x
  OBVIOUS

LEMMA ListOfSet ==
  ASSUME NEW S, IsFiniteSet(S)
  PROVE  SetToSeq(S) \in Seq(S)
<1> DEFINE n == Cardinality(S)
<1>1. n \in Nat /\ ExistsBijection(1..n, S)
  BY FS_CardinalityType
<1> HIDE DEF n
<1>2. \E f \in [1..n -> S] : IsInjective(f)
  BY <1>1 DEF ExistsBijection, Bijection, Injection
<1>3. SetToSeq(S) \in [1..n -> S]
  BY <1>2 DEF SetToSeq, n
<1> QED
  BY <1>1, <1>3

-----------------------------------------------------------------------------
(* The translator *)

LEMMA MessageFacts ==
  ASSUME NEW m \in Messages
  PROVE  /\ m.tc \in TestCasesNamed
         /\ m.capture \in CapturesNamed
         /\ m.kind \in Asking => m \in Requests /\ Echoed(m)
  BY DEF Messages, TestCasesNamed, CapturesNamed, Answers, AnswerKinds, Asking, Requests,
     Echoed, DoNotEcho

LEMMA RememberType ==
  ASSUME NEW memo \in Memories, NEW i \in Nat, NEW m \in Messages
  PROVE  Remember(memo, i, m) \in Memories
<1>1. m.tc \in TestCasesNamed /\ m.capture \in CapturesNamed
  BY MessageFacts
<1>2. [id |-> i, of |-> m.capture] \in [id : Nat, of : CapturesNamed]
  BY <1>1
<1> QED
  BY <1>1, <1>2 DEF Memories, Remember

LEMMA ShownTypes ==
  ASSUME NEW memo \in Memories, NEW m \in Messages
  PROVE  /\ Addressee(m) \in Holders
         /\ DefaultTag(memo) \in [name : TagNames, tc : TestCasesNamed]
         /\ DisplayTag(memo, m) \in [name : TagNames, tc : TestCasesNamed]
         /\ Files(memo, m) \in SUBSET Nat
<1>1. m.tc \in TestCasesNamed /\ memo.tc \in TestCasesNamed /\ NoTC \in TestCasesNamed
  BY MessageFacts DEF Memories, TestCasesNamed
<1>2. Addressee(m) \in Holders
  BY DEF Addressee, Holders
<1>3. DefaultTag(memo) \in [name : TagNames, tc : TestCasesNamed]
  BY <1>1 DEF DefaultTag, Tag, TagNames
<1>4. OwnTag(memo, m) \in [name : TagNames, tc : TestCasesNamed]
  BY <1>1 DEF OwnTag, NoTag, Tag, TagNames
<1>5. DisplayTag(memo, m) \in [name : TagNames, tc : TestCasesNamed]
  BY <1>3, <1>4 DEF DisplayTag
<1>6. Files(memo, m) \in SUBSET Nat
  BY DEF Files, Memories
<1> QED
  BY <1>2, <1>3, <1>5, <1>6

LEMMA ChainedType ==
  ASSUME NEW memo \in Memories, NEW m \in Messages, m.kind \in Asking
  PROVE  Chained(memo, m) \subseteq Answers
<1>1. m.tc \in TestCasesNamed /\ memo.tc \in TestCasesNamed /\ NoTC \in TestCasesNamed
  BY MessageFacts DEF Memories, TestCasesNamed
<1>2. \A k \in AnswerKinds, t \in TestCasesNamed, n \in {NoNode, coap_client} :
        Says(k, t, n) \in Answers
  BY DEF Says, Answers
<1> QED
  BY <1>1, <1>2 DEF Chained, Asking, AnswerKinds

\* The users who are told to wait, and nothing else.
LEMMA WaitsFacts ==
  ASSUME NEW i \in Nat, NEW u \in Holders
  PROVE  LET w == SetToSeq({Waits(i, v) : v \in Others(u)}) IN
         w \in Seq(Entries) /\ \A k \in DOMAIN w : w[k].kind = "waiting" /\ w[k].tag = NoTag
<1> DEFINE W == {Waits(i, v) : v \in Others(u)}
<1>1. Others(u) \subseteq Holders /\ IsFiniteSet(Others(u))
  <2> DEFINE H == {RoleHolder[n] : n \in DOMAIN RoleHolder}
             f == [n \in DOMAIN RoleHolder |-> RoleHolder[n]]
  <2>1. f \in Surjection(DOMAIN RoleHolder, H)
    BY DEF Surjection
  <2>2. IsFiniteSet(H)
    <3> HIDE DEF f, H
    <3> QED
      BY <2>1, AdaptorAssumption, FS_Surjection
  <2>3. Others(u) \in {{}, {Everyone}, H \ {u}}
    BY DEF Others
  <2>4. H \subseteq Holders /\ Everyone \in Holders
    BY DEF Holders
  <2> HIDE DEF H
  <2>5. IsFiniteSet(H \ {u}) /\ IsFiniteSet({}) /\ IsFiniteSet({Everyone})
    BY <2>2, FS_RemoveElement, FS_EmptySet, FS_Singleton
  <2> QED
    BY <2>3, <2>4, <2>5
<1>2. IsFiniteSet(W)
  <2> DEFINE f == [v \in Others(u) |-> Waits(i, v)]
  <2>1. f \in Surjection(Others(u), W)
    BY DEF Surjection
  <2> HIDE DEF f, W
  <2> QED
    BY <1>1, <2>1, FS_Surjection
<1>3. \A e \in W : e \in Entries /\ e.kind = "waiting" /\ e.tag = NoTag
  <2>1. NoTag \in [name : TagNames, tc : TestCasesNamed]
    BY DEF NoTag, Tag, TagNames, TestCasesNamed
  <2> QED
    BY <1>1, <2>1 DEF Waits, Shows, Entries
<1> HIDE DEF W
<1>4. SetToSeq(W) \in Seq(W)
  BY <1>2, ListOfSet
<1>5. SetToSeq(W) \in Seq(Entries) /\ \A k \in DOMAIN SetToSeq(W) : SetToSeq(W)[k] \in W
  <2> HIDE DEF W
  <2> DEFINE w == SetToSeq(W)
  <2>1. w \in Seq(W)
    BY <1>4
  <2> HIDE DEF w
  <2>2. w \in Seq(Entries) /\ \A k \in DOMAIN w : w[k] \in W
    BY <1>3, <2>1
  <2> QED
    BY <2>2 DEF w
<1> QED
  BY <1>3, <1>5 DEF W

-----------------------------------------------------------------------------
(* Types *)

\* The next message to be taken up.
LEMMA Taken ==
  ASSUME TypeOK, Arriving, fromTT # <<>>
  PROVE  /\ Head(fromTT) = Heard + 1 /\ Head(fromTT) \in Nat
         /\ Head(fromTT) \in DOMAIN log /\ log[Head(fromTT)] \in Messages
<1>1. log \in Seq(Messages) /\ bus \in Seq(Nat) /\ fromTT \in Seq(Nat)
  BY DEF TypeOK
<1>2. Head(fromTT) = fromTT[1] /\ 1 \in DOMAIN fromTT /\ Len(fromTT) \in Nat \ {0}
  BY <1>1, HeadTail
<1>3. Head(fromTT) = Heard + 1 /\ Heard \in Nat
  BY <1>2 DEF Arriving
<1>4. Len(log) \in Nat /\ Len(bus) \in Nat
  BY <1>1
<1>5. Heard + 1 \in 1..Len(log)
  BY <1>2, <1>3, <1>4 DEF Heard
<1> QED
  BY <1>1, <1>3, <1>5

LEMMA TakenTypes ==
  ASSUME TypeOK, Arriving, ProcessFromTT
  PROVE  /\ fromTT' \in Seq(Nat) /\ pending' \in SUBSET Nat /\ memory' \in Memories
         /\ display' \in Seq(Entries) /\ request' \in Seq(Entries)
<1>1. CASE fromTT = <<>> /\ UNCHANGED <<fromTT, display, request, pending, memory>>
  BY <1>1 DEF TypeOK
<1>2. CASE fromTT # <<>> /\ fromTT' = Tail(fromTT)
  <2> DEFINE i == Head(fromTT)
             m == log[i]
             d == Shows("display", i, Addressee(m), DisplayTag(memory', m),
                        Files(memory', m))
             r == Shows("request", i, Addressee(m), DefaultTag(memory'), {})
  <2>1. i \in Nat /\ m \in Messages
    BY <1>2, Taken
  <2>2. /\ memory' = Remember(memory, i, m)
        /\ display' = Append(display, d) \/ display' = display
        /\ \/ request' = Append(request, r) /\ pending' = Enter(i)
           \/ UNCHANGED <<request, pending>>
    BY <1>2 DEF ProcessFromTT
  <2>3. memory' \in Memories
    <3> HIDE DEF m, i
    <3> QED
      BY <2>1, <2>2, RememberType DEF TypeOK
  <2>4. d \in Entries /\ r \in Entries
    <3> HIDE DEF m, i
    <3>1. /\ Addressee(m) \in Holders
          /\ DefaultTag(memory') \in [name : TagNames, tc : TestCasesNamed]
          /\ DisplayTag(memory', m) \in [name : TagNames, tc : TestCasesNamed]
          /\ Files(memory', m) \in SUBSET Nat
      BY <2>1, <2>3, ShownTypes
    <3> QED
      BY <2>1, <3>1 DEF Shows, Entries
  <2>5. fromTT' \in Seq(Nat)
    BY <1>2, HeadTail DEF TypeOK
  <2> HIDE DEF d, r
  <2>6. display' \in Seq(Entries) /\ request' \in Seq(Entries)
    <3>1. display \in Seq(Entries) /\ request \in Seq(Entries)
      BY DEF TypeOK
    <3>2. Append(display, d) \in Seq(Entries) /\ Append(request, r) \in Seq(Entries)
      BY <2>4, <3>1, Appended
    <3> QED
      BY <2>2, <3>1, <3>2
  <2>7. pending' \in SUBSET Nat
    BY <2>1, <2>2 DEF TypeOK, Enter
  <2> QED
    BY <2>3, <2>5, <2>6, <2>7
<1> QED
  BY <1>1, <1>2 DEF ProcessFromTT

LEMMA ReplyTypes ==
  ASSUME TypeOK, Arriving, TableOK, ProcessFromUI
  PROVE  /\ alive' \in BOOLEAN /\ fromUI' \in Seq(Replies) /\ display' \in Seq(Entries)
         /\ pending' \in SUBSET Nat /\ popped' \in SUBSET Nat
         /\ toTT' \in Seq([id : Nat, msg : Answers])
<1>1. CASE fromUI = <<>> /\ UNCHANGED <<alive, fromUI, display, pending, popped, toTT>>
  BY <1>1 DEF TypeOK
<1>2. CASE fromUI # <<>> /\ fromUI' = Tail(fromUI)
  <2> DEFINE i == Head(fromUI).id
  <2>1. Head(fromUI) \in Replies /\ fromUI' \in Seq(Replies)
    BY <1>2, HeadTail DEF TypeOK
  <2>2. i \in Nat
    BY <2>1 DEF Replies
  <2>3. Echo(i) \in Entries
    <3>1. NoTag \in [name : TagNames, tc : TestCasesNamed] /\ Everyone \in Holders
      BY DEF NoTag, Tag, TagNames, TestCasesNamed, Holders
    <3> HIDE DEF i
    <3> QED
      BY <2>2, <3>1 DEF Echo, Shows, Entries
  <2>4. display' \in Seq(Entries)
    <3>1. display' = Append(display, Echo(i))
      BY <1>2 DEF ProcessFromUI
    <3> HIDE DEF i
    <3> QED
      BY <2>3, <3>1 DEF TypeOK
  <2>5. \/ UNCHANGED <<alive, pending, popped, toTT>>
        \/ /\ i \in pending /\ pending' = pending \ PoppedBy(i)
           /\ popped' = popped \cup PoppedBy(i) /\ alive' \in BOOLEAN
           /\ \/ UNCHANGED toTT
              \/ \E m \in Chained(memory, log[i]) : toTT' = Append(toTT, [id |-> i, msg |-> m])
    BY <1>2 DEF ProcessFromUI
  <2>6. CASE UNCHANGED <<alive, pending, popped, toTT>>
    BY <2>1, <2>4, <2>6 DEF TypeOK
  <2>7. ASSUME i \in pending,
               \E m \in Chained(memory, log[i]) : toTT' = Append(toTT, [id |-> i, msg |-> m])
        PROVE  toTT' \in Seq([id : Nat, msg : Answers])
    <3> HIDE DEF i
    <3>1. i \in 1..Heard /\ Asks(i)
      BY <2>7 DEF TableOK
    <3>2. log[i] \in Messages /\ log[i].kind \in Asking
      <4>1. log \in Seq(Messages) /\ Len(bus) \in Nat /\ Len(fromTT) \in Nat
        BY DEF TypeOK
      <4>2. i \in DOMAIN log
        BY <3>1, <4>1 DEF Heard
      <4> QED
        BY <3>1, <4>1, <4>2 DEF Asks
    <3>3. PICK m \in Answers : toTT' = Append(toTT, [id |-> i, msg |-> m])
      BY <2>7, <3>2, ChainedType DEF TypeOK
    <3>4. toTT \in Seq([id : Nat, msg : Answers]) /\ [id |-> i, msg |-> m] \in [id : Nat, msg : Answers]
      BY <2>2 DEF TypeOK
    <3> QED
      BY <3>3, <3>4, Appended
  <2>8. pending' \in SUBSET Nat /\ popped' \in SUBSET Nat /\ alive' \in BOOLEAN
    <3> HIDE DEF i
    <3> QED
      BY <2>2, <2>5 DEF TypeOK, PoppedBy
  <2>9. toTT' \in Seq([id : Nat, msg : Answers])
    <3> HIDE DEF i
    <3> QED
      BY <2>5, <2>7 DEF TypeOK
  <2> QED
    BY <2>1, <2>4, <2>8, <2>9
<1> QED
  BY <1>1, <1>2 DEF ProcessFromUI

LEMMA TypeStep ==
  ASSUME TypeOK, Arriving, TableOK, [Next]_vars
  PROVE  TypeOK'
<1> USE DEF At
<1>1. CASE \E c \in Contents : TestingToolPublishes(c)
  <2>1. PICK c \in Contents : TestingToolPublishes(c)
    BY <1>1
  <2>2. log' \in Seq(Messages) /\ bus' \in Seq(Nat)
    BY <2>1 DEF TestingToolPublishes, TypeOK, Messages
  <2> QED
    BY <2>1, <2>2 DEF TestingToolPublishes, TypeOK
<1>2. CASE \E i \in DOMAIN log, form \in Forms : UserReplies(i, form)
  <2>1. PICK i \in DOMAIN log, form \in Forms : UserReplies(i, form)
    BY <1>2
  <2>2. uiBus' \in Seq(Replies)
    <3>1. i \in Nat /\ form \in ReplyForms
      BY AdaptorAssumption DEF TypeOK
    <3>2. [id |-> i, form |-> form] \in Replies
      BY <3>1 DEF Replies
    <3> QED
      BY <2>1, <3>2 DEF UserReplies, TypeOK
  <2> QED
    BY <2>1, <2>2 DEF UserReplies, TypeOK
<1>3. CASE TTListener
  <2>1. Head(bus) \in Nat /\ Tail(bus) \in Seq(Nat)
    BY <1>3, HeadTail DEF TTListener, TypeOK
  <2> QED
    BY <1>3, <2>1 DEF TTListener, TypeOK
<1>4. CASE UIListener
  <2>1. Head(uiBus) \in Replies /\ Tail(uiBus) \in Seq(Replies)
    BY <1>4, HeadTail DEF UIListener, TypeOK
  <2>2. fromUI' \in Seq(Replies)
    BY <1>4, <2>1 DEF UIListener, TypeOK
  <2> QED
    BY <1>4, <2>1, <2>2 DEF UIListener, TypeOK
<1>5. CASE ProcessFromTT
  BY <1>5, TakenTypes DEF ProcessFromTT, TypeOK
<1>6. CASE PublishDisplays
  <2>1. display' \in Seq(Entries) /\ screen' \in Seq(Entries)
    <3>1. CASE display = <<>>
      BY <1>6, <3>1 DEF PublishDisplays, TypeOK
    <3>2. CASE display # <<>>
      <4>1. Head(display) \in Entries /\ Tail(display) \in Seq(Entries)
        BY <3>2, HeadTail DEF TypeOK
      <4>2. screen \in Seq(Entries)
        BY DEF TypeOK
      <4>3. Append(screen, Head(display)) \in Seq(Entries)
        BY <4>1, <4>2, Appended
      <4> QED
        BY <1>6, <3>2, <4>1, <4>3 DEF PublishDisplays
    <3> QED
      BY <3>1, <3>2
  <2> QED
    BY <1>6, <2>1 DEF PublishDisplays, TypeOK
<1>7. CASE PublishRequest
  <2>1. request' \in Seq(Entries) /\ screen' \in Seq(Entries)
    <3>1. CASE request = <<>>
      BY <1>7, <3>1 DEF PublishRequest, TypeOK
    <3>2. CASE request # <<>>
      <4> DEFINE r == Head(request)
                 w == SetToSeq({Waits(r.id, u) : u \in Others(r.to)})
      <4>1. r \in Entries /\ Tail(request) \in Seq(Entries)
        BY <3>2, HeadTail DEF TypeOK
      <4>2. w \in Seq(Entries)
        <5> HIDE DEF r
        <5>1. r.id \in Nat /\ r.to \in Holders
          BY <4>1 DEF Entries
        <5> QED
          BY <5>1, WaitsFacts
      <4>3. request' = Tail(request) /\ screen' = screen \o w \o <<r>>
        BY <1>7, <3>2 DEF PublishRequest
      <4> HIDE DEF r, w
      <4> QED
        BY <4>1, <4>2, <4>3 DEF TypeOK
    <3> QED
      BY <3>1, <3>2
  <2> QED
    BY <1>7, <2>1 DEF PublishRequest, TypeOK
<1>8. CASE ProcessFromUI
  BY <1>8, ReplyTypes DEF ProcessFromUI, TypeOK
<1>9. CASE PublishToTT
  <2>1. CASE toTT = <<>>
    BY <1>9, <2>1 DEF PublishToTT, TypeOK
  <2>2. CASE toTT # <<>>
    <3> DEFINE Said == [id : Nat, msg : Answers]
    <3>0. toTT \in Seq(Said) /\ log \in Seq(Messages) /\ bus \in Seq(Nat) /\ delivered \in Seq(Nat)
      BY DEF TypeOK
    <3>1. Head(toTT) \in Said /\ Tail(toTT) \in Seq(Said)
      <4> HIDE DEF Said
      <4> QED
        BY <2>2, <3>0, HeadTail
    <3>3. Head(toTT).id \in Nat /\ Head(toTT).msg \in Messages /\ Len(log) + 1 \in Nat
      BY <3>0, <3>1 DEF Messages
    <3>4. /\ Append(log, Head(toTT).msg) \in Seq(Messages)
          /\ Append(bus, Len(log) + 1) \in Seq(Nat)
          /\ Append(delivered, Head(toTT).id) \in Seq(Nat)
      BY <3>0, <3>3, Appended
    <3>2. /\ toTT' \in Seq(Said) /\ log' \in Seq(Messages) /\ bus' \in Seq(Nat)
          /\ delivered' \in Seq(Nat)
      BY <1>9, <2>2, <3>1, <3>4 DEF PublishToTT
    <3> QED
      BY <1>9, <3>2 DEF PublishToTT, TypeOK
  <2> QED
    BY <2>1, <2>2
<1>10. CASE CheckUsers
  BY <1>10 DEF CheckUsers, TypeOK
<1>11. CASE UNCHANGED vars
  BY <1>11 DEF vars, TypeOK
<1> QED
  BY <1>1, <1>2, <1>3, <1>4, <1>5, <1>6, <1>7, <1>8, <1>9, <1>10, <1>11 DEF Next, MainLoop

-----------------------------------------------------------------------------
(* The order of arrival *)

\* What is said is said once: the list of the messages only grows.
LEMMA LogStep ==
  ASSUME TypeOK, [Next]_vars
  PROVE  /\ Len(log) \in Nat /\ DOMAIN log = 1..Len(log)
         /\ Len(log') \in Nat /\ Len(log') >= Len(log)
         /\ \A i \in DOMAIN log : i \in DOMAIN log' /\ log'[i] = log[i]
<1>1. log \in Seq(Messages)
  BY DEF TypeOK
<1>2. log' = log \/ \E m \in Messages : log' = Append(log, m)
  <2>1. CASE \E c \in Contents : TestingToolPublishes(c)
    BY <2>1 DEF TestingToolPublishes, Messages
  <2>2. CASE PublishToTT
    <3>1. CASE toTT = <<>>
      BY <2>2, <3>1 DEF PublishToTT
    <3>2. CASE toTT # <<>>
      <4> DEFINE Said == [id : Nat, msg : Answers]
      <4>1. toTT \in Seq(Said)
        BY DEF TypeOK
      <4>2. Head(toTT) \in Said
        <5> HIDE DEF Said
        <5> QED
          BY <3>2, <4>1, HeadTail
      <4> QED
        BY <2>2, <3>2, <4>2 DEF PublishToTT, Messages
    <3> QED
      BY <3>1, <3>2
  <2>3. CASE \/ \E i \in DOMAIN log, form \in Forms : UserReplies(i, form)
             \/ TTListener \/ UIListener \/ ProcessFromTT \/ PublishDisplays
             \/ PublishRequest \/ ProcessFromUI \/ CheckUsers \/ UNCHANGED vars
    BY <2>3 DEF UserReplies, TTListener, UIListener, ProcessFromTT, PublishDisplays,
      PublishRequest, ProcessFromUI, CheckUsers, vars
  <2> QED
    BY <2>1, <2>2, <2>3 DEF Next, MainLoop
<1>3. CASE log' = log
  BY <1>1, <1>3
<1>4. ASSUME NEW m \in Messages, log' = Append(log, m)
      PROVE  /\ Len(log) \in Nat /\ DOMAIN log = 1..Len(log)
             /\ Len(log') \in Nat /\ Len(log') >= Len(log)
             /\ \A i \in DOMAIN log : i \in DOMAIN log' /\ log'[i] = log[i]
  BY <1>1, <1>4, Appended
<1> QED
  BY <1>2, <1>3, <1>4

\* A message is taken up by the main loop alone.
LEMMA ArrivingStep ==
  ASSUME TypeOK, Arriving, [Next]_vars
  PROVE  /\ Arriving'
         /\ Heard \in Nat /\ Heard <= Len(log)
         /\ Heard' = IF ProcessFromTT /\ fromTT # <<>> THEN Heard + 1 ELSE Heard
<1> DEFINE Goal == /\ Arriving'
                   /\ Heard' = IF ProcessFromTT /\ fromTT # <<>> THEN Heard + 1 ELSE Heard
<1>1. /\ log \in Seq(Messages) /\ bus \in Seq(Nat) /\ fromTT \in Seq(Nat)
      /\ Len(log) \in Nat /\ Len(bus) \in Nat /\ Len(fromTT) \in Nat
  BY DEF TypeOK
<1>2. Heard \in Nat /\ Heard <= Len(log)
  BY <1>1 DEF Arriving, Heard
<1>3. CASE UNCHANGED <<log, bus, fromTT>>
  <2>1. ~(ProcessFromTT /\ fromTT # <<>>)
    <3>1. SUFFICES ASSUME ProcessFromTT, fromTT # <<>> PROVE FALSE
      OBVIOUS
    <3>2. Tail(fromTT) = fromTT
      BY <1>3, <3>1 DEF ProcessFromTT
    <3>3. Len(Tail(fromTT)) = Len(fromTT) - 1
      BY <1>1, <3>1, HeadTail
    <3> QED
      BY <1>1, <3>2, <3>3
  <2> QED
    BY <1>3, <2>1 DEF Arriving, Heard
<1>4. ASSUME NEW m \in Messages, log' = Append(log, m), bus' = Append(bus, Len(log) + 1),
             fromTT' = fromTT, ~ProcessFromTT
      PROVE  Goal
  <2>1. /\ Len(log') = Len(log) + 1 /\ Len(bus') = Len(bus) + 1
        /\ DOMAIN bus = 1..Len(bus) /\ DOMAIN bus' = 1..(Len(bus) + 1)
        /\ \A k \in DOMAIN bus : bus'[k] = bus[k]
        /\ bus'[Len(bus) + 1] = Len(log) + 1
    BY <1>1, <1>4, Appended
  <2>2. Heard' = Heard
    BY <1>1, <1>4, <2>1 DEF Heard
  <2>3. \A k \in DOMAIN bus' : bus'[k] = Heard + Len(fromTT) + k
    <3>1. TAKE k \in DOMAIN bus'
    <3>2. CASE k = Len(bus) + 1
      BY <1>1, <2>1, <3>2 DEF Heard
    <3>3. CASE k # Len(bus) + 1
      <4>1. k \in DOMAIN bus
        BY <1>1, <2>1, <3>3
      <4> QED
        BY <2>1, <4>1 DEF Arriving
    <3> QED
      BY <3>2, <3>3
  <2> QED
    BY <1>2, <1>4, <2>2, <2>3 DEF Arriving
<1>5. CASE TTListener
  <2> DEFINE x == Head(bus)
  <2>1. /\ bus' = Tail(bus) /\ fromTT' = Append(fromTT, x) /\ log' = log
        /\ bus # <<>> /\ pc' = pc /\ fromTT' # fromTT
    <3>1. /\ bus' = Tail(bus) /\ fromTT' = Append(fromTT, x) /\ log' = log
          /\ bus # <<>> /\ pc' = pc
      BY <1>5 DEF TTListener
    <3> QED
      BY <1>1, <3>1
  <2>2. /\ x = bus[1] /\ 1 \in DOMAIN bus /\ x \in Nat
        /\ Len(bus') = Len(bus) - 1
        /\ \A k \in DOMAIN bus' : k \in Nat /\ k + 1 \in DOMAIN bus /\ bus'[k] = bus[k + 1]
    BY <1>1, <2>1, HeadTail
  <2> HIDE DEF x
  <2>3. /\ Len(fromTT') = Len(fromTT) + 1
        /\ DOMAIN fromTT = 1..Len(fromTT) /\ DOMAIN fromTT' = 1..(Len(fromTT) + 1)
        /\ \A k \in DOMAIN fromTT : fromTT'[k] = fromTT[k]
        /\ fromTT'[Len(fromTT) + 1] = x
    BY <1>1, <2>1, <2>2, Appended
  <2>4. Heard' = Heard
    <3>1. Heard' = Len(log') - Len(bus') - Len(fromTT') /\ Len(log') = Len(log)
      BY <2>1 DEF Heard
    <3>2. Len(bus') = Len(bus) - 1 /\ Len(fromTT') = Len(fromTT) + 1
      BY <2>2, <2>3
    <3> QED
      BY <1>1, <3>1, <3>2 DEF Heard
  <2>5. x = Heard + Len(fromTT) + 1
    BY <2>2 DEF Arriving
  <2>6. \A k \in DOMAIN fromTT' : fromTT'[k] = Heard + k
    <3>1. TAKE k \in DOMAIN fromTT'
    <3>2. CASE k = Len(fromTT) + 1
      BY <1>1, <1>2, <2>3, <2>5, <3>2
    <3>3. CASE k # Len(fromTT) + 1
      <4>1. k \in DOMAIN fromTT
        BY <1>1, <2>3, <3>3
      <4> QED
        BY <2>3, <4>1 DEF Arriving
    <3> QED
      BY <3>2, <3>3
  <2>7. \A k \in DOMAIN bus' : bus'[k] = Heard + Len(fromTT') + k
    <3>1. TAKE k \in DOMAIN bus'
    <3>2. bus'[k] = Heard + Len(fromTT) + (k + 1)
      BY <2>2 DEF Arriving
    <3> QED
      BY <1>1, <1>2, <2>2, <2>3, <3>2
  <2>8. ~ProcessFromTT
    BY <2>1 DEF ProcessFromTT, At
  <2> QED
    BY <1>2, <2>4, <2>6, <2>7, <2>8 DEF Arriving
<1>6. CASE ProcessFromTT /\ fromTT # <<>>
  <2>1. fromTT' = Tail(fromTT) /\ bus' = bus /\ log' = log
    BY <1>6 DEF ProcessFromTT
  <2>2. /\ Len(fromTT') = Len(fromTT) - 1
        /\ \A k \in DOMAIN fromTT' : k \in Nat /\ k + 1 \in DOMAIN fromTT
                                      /\ fromTT'[k] = fromTT[k + 1]
    BY <1>1, <1>6, <2>1, HeadTail
  <2>3. Heard' = Heard + 1
    <3>1. /\ Heard' = Len(log') - Len(bus') - Len(fromTT')
          /\ Len(log') = Len(log) /\ Len(bus') = Len(bus)
      BY <2>1 DEF Heard
    <3>2. Len(fromTT') = Len(fromTT) - 1
      BY <2>2
    <3> QED
      BY <1>1, <3>1, <3>2 DEF Heard
  <2>4. \A k \in DOMAIN fromTT' : fromTT'[k] = Heard + 1 + k
    <3>1. TAKE k \in DOMAIN fromTT'
    <3>2. fromTT'[k] = Heard + (k + 1)
      BY <2>2 DEF Arriving
    <3> QED
      BY <1>2, <2>2, <3>2
  <2>5. \A k \in DOMAIN bus : bus[k] = Heard + 1 + Len(fromTT') + k
    <3>1. TAKE k \in DOMAIN bus
    <3>2. bus[k] = Heard + Len(fromTT) + k /\ k \in Nat
      BY <1>1 DEF Arriving
    <3> QED
      BY <1>1, <1>2, <2>2, <3>2
  <2> QED
    BY <1>2, <1>6, <2>1, <2>3, <2>4, <2>5 DEF Arriving
<1>7. CASE \E c \in Contents : TestingToolPublishes(c)
  <2>1. PICK c \in Contents : TestingToolPublishes(c)
    BY <1>7
  <2>2. ~ProcessFromTT
    BY <2>1 DEF TestingToolPublishes, ProcessFromTT, At
  <2> QED
    BY <1>2, <1>4, <2>1, <2>2 DEF TestingToolPublishes, Messages
<1>8. CASE PublishToTT
  <2>1. CASE toTT = <<>>
    BY <1>2, <1>3, <1>8, <2>1 DEF PublishToTT
  <2>2. CASE toTT # <<>>
    <3> DEFINE Said == [id : Nat, msg : Answers]
    <3>1. toTT \in Seq(Said)
      BY DEF TypeOK
    <3>2. Head(toTT) \in Said
      <4> HIDE DEF Said
      <4> QED
        BY <2>2, <3>1, HeadTail
    <3>3. /\ log' = Append(log, Head(toTT).msg) /\ bus' = Append(bus, Len(log) + 1)
          /\ fromTT' = fromTT /\ Head(toTT).msg \in Messages /\ ~ProcessFromTT
      BY <1>8, <2>2, <3>2 DEF PublishToTT, ProcessFromTT, At, Messages
    <3> QED
      BY <1>2, <1>4, <3>3
  <2> QED
    BY <2>1, <2>2
<1>9. CASE \/ \E i \in DOMAIN log, form \in Forms : UserReplies(i, form)
           \/ UIListener \/ (ProcessFromTT /\ fromTT = <<>>) \/ PublishDisplays
           \/ PublishRequest \/ ProcessFromUI \/ CheckUsers \/ UNCHANGED vars
  BY <1>2, <1>3, <1>9 DEF UserReplies, UIListener, ProcessFromTT, PublishDisplays,
    PublishRequest, ProcessFromUI, CheckUsers, vars
<1> QED
  BY <1>2, <1>5, <1>6, <1>7, <1>8, <1>9 DEF Next, MainLoop

-----------------------------------------------------------------------------
(* The lengths of the queues *)

LEMMA OneLonger ==
  ASSUME NEW S, NEW q \in Seq(S), NEW x
  PROVE  Len(Append(q, x)) = Len(q) + 1
<1>1. q \in Seq(S \cup {x})
  OBVIOUS
<1> QED
  BY <1>1

\* A turn of the loop adds two displays, a request and a message for the testing
\* tool at most, and empties each queue after it may have filled it.
LEMMA ShortStep ==
  ASSUME TypeOK, QueuesShort, [Next]_vars
  PROVE  QueuesShort'
<1> USE DEF At
<1>0. /\ display \in Seq(Entries) /\ Len(display) \in Nat
      /\ request \in Seq(Entries) /\ Len(request) \in Nat
      /\ toTT \in Seq([id : Nat, msg : Answers]) /\ Len(toTT) \in Nat
  BY DEF TypeOK
<1>1. ASSUME UNCHANGED <<pc, display, request, toTT>> PROVE QueuesShort'
  BY <1>1 DEF QueuesShort, MostDisplays
<1>2. CASE ProcessFromTT
  <2>1. pc = "from_tt" /\ pc' = "display" /\ toTT' = toTT
    BY <1>2 DEF ProcessFromTT
  <2>2. \/ display' = display
        \/ \E e : display' = Append(display, e)
    BY <1>2 DEF ProcessFromTT
  <2>3. \/ request' = request
        \/ \E e : request' = Append(request, e)
    BY <1>2 DEF ProcessFromTT
  <2>4. Len(display') <= Len(display) + 1 /\ Len(request') <= Len(request) + 1
    BY <1>0, <2>2, <2>3, OneLonger
  <2>5. Len(display) <= 1 /\ Len(request) <= 0 /\ Len(toTT) <= 0
    BY <2>1 DEF QueuesShort, MostDisplays
  <2>6. Len(display') <= 2 /\ Len(request') <= 1 /\ Len(toTT') <= 0
    <3>1. Len(display') \in Nat /\ Len(request') \in Nat
      BY <1>0, <2>2, <2>3, OneLonger
    <3> QED
      BY <1>0, <2>1, <2>4, <2>5, <3>1
  <2> QED
    BY <2>1, <2>6 DEF QueuesShort, MostDisplays
<1>3. CASE PublishDisplays
  <2>1. CASE display = <<>>
    <3>1. pc = "display" /\ pc' = "request" /\ UNCHANGED <<display, request, toTT>>
      BY <1>3, <2>1 DEF PublishDisplays
    <3>2. Len(display) = 0
      BY <2>1
    <3> QED
      BY <3>1, <3>2 DEF QueuesShort, MostDisplays
  <2>2. CASE display # <<>>
    <3>1. /\ pc = "display" /\ pc' = "display" /\ display' = Tail(display)
          /\ UNCHANGED <<request, toTT>>
      BY <1>3, <2>2 DEF PublishDisplays
    <3>2. Len(display') = Len(display) - 1
      BY <1>0, <2>2, <3>1, HeadTail
    <3> QED
      BY <1>0, <3>1, <3>2 DEF QueuesShort, MostDisplays
  <2> QED
    BY <2>1, <2>2
<1>4. CASE PublishRequest
  <2>1. pc = "request" /\ pc' = "from_ui" /\ UNCHANGED <<display, toTT>>
    BY <1>4 DEF PublishRequest
  <2>2. Len(request') <= 0
    <3>1. CASE request = <<>>
      BY <1>4, <3>1 DEF PublishRequest
    <3>2. CASE request # <<>>
      <4>1. request' = Tail(request)
        BY <1>4, <3>2 DEF PublishRequest
      <4>2. Len(request') = Len(request) - 1
        BY <1>0, <3>2, <4>1, HeadTail
      <4> QED
        BY <1>0, <2>1, <4>2 DEF QueuesShort
    <3> QED
      BY <3>1, <3>2
  <2> QED
    BY <2>1, <2>2 DEF QueuesShort, MostDisplays
<1>5. CASE ProcessFromUI
  <2>1. pc = "from_ui" /\ pc' = "to_tt" /\ request' = request
    BY <1>5 DEF ProcessFromUI
  <2>2. display' = display \/ \E e : display' = Append(display, e)
    BY <1>5 DEF ProcessFromUI
  <2>3. toTT' = toTT \/ \E e : toTT' = Append(toTT, e)
    BY <1>5 DEF ProcessFromUI
  <2>4. Len(display') <= Len(display) + 1 /\ Len(toTT') <= Len(toTT) + 1
    BY <1>0, <2>2, <2>3, OneLonger
  <2>5. Len(display) <= 0 /\ Len(request) <= 0 /\ Len(toTT) <= 0
    BY <2>1 DEF QueuesShort, MostDisplays
  <2>6. Len(display') \in Nat /\ Len(toTT') \in Nat
    BY <1>0, <2>2, <2>3, OneLonger
  <2>7. Len(display') <= 1 /\ Len(request') <= 0 /\ Len(toTT') <= 1
    BY <1>0, <2>1, <2>4, <2>5, <2>6
  <2> QED
    BY <2>1, <2>7 DEF QueuesShort, MostDisplays
<1>6. CASE PublishToTT
  <2>1. CASE toTT = <<>>
    <3>1. pc = "to_tt" /\ pc' = "users" /\ UNCHANGED <<display, request, toTT>>
      BY <1>6, <2>1 DEF PublishToTT
    <3>2. Len(toTT) = 0
      BY <2>1
    <3> QED
      BY <3>1, <3>2 DEF QueuesShort, MostDisplays
  <2>2. CASE toTT # <<>>
    <3>1. pc = "to_tt" /\ pc' = "to_tt" /\ toTT' = Tail(toTT) /\ UNCHANGED <<display, request>>
      BY <1>6, <2>2 DEF PublishToTT
    <3>2. Len(toTT') = Len(toTT) - 1
      BY <1>0, <2>2, <3>1, HeadTail
    <3> QED
      BY <1>0, <3>1, <3>2 DEF QueuesShort, MostDisplays
  <2> QED
    BY <2>1, <2>2
<1>7. CASE CheckUsers
  BY <1>7 DEF CheckUsers, QueuesShort, MostDisplays
<1>8. CASE \/ \E c \in Contents : TestingToolPublishes(c)
           \/ \E i \in DOMAIN log, form \in Forms : UserReplies(i, form)
           \/ TTListener \/ UIListener \/ UNCHANGED vars
  BY <1>1, <1>8 DEF TestingToolPublishes, UserReplies, TTListener, UIListener, vars
<1> QED
  BY <1>2, <1>3, <1>4, <1>5, <1>6, <1>7, <1>8 DEF Next, MainLoop

-----------------------------------------------------------------------------
(* The table *)

\* An entry stays in the table, or among those replied to.
LEMMA TableStep ==
  ASSUME TypeOK, Arriving, TableOK, [Next]_vars
  PROVE  TableOK' /\ pending \cup popped \subseteq (pending \cup popped)'
<1>1. /\ Heard \in Nat /\ Heard <= Len(log) /\ Len(log) \in Nat /\ DOMAIN log = 1..Len(log)
      /\ Heard' = IF ProcessFromTT /\ fromTT # <<>> THEN Heard + 1 ELSE Heard
      /\ \A i \in DOMAIN log : log'[i] = log[i]
  BY ArrivingStep, LogStep
<1>2. \A i \in pending \cup popped : i \in 1..Heard' /\ Asks(i)'
  BY <1>1 DEF TableOK, Asks
<1>3. ASSUME UNCHANGED <<pending, popped>>
      PROVE  TableOK' /\ pending \cup popped \subseteq (pending \cup popped)'
  BY <1>2, <1>3 DEF TableOK
<1>4. CASE ProcessFromTT
  <2>1. CASE fromTT # <<>> /\ Asks(Head(fromTT))
    <3>0. PICK i \in DOMAIN log : i = Head(fromTT)
      BY <2>1, Taken
    <3>1. i = Heard + 1 /\ Heard' = Heard + 1
      BY <1>1, <1>4, <2>1, <3>0, Taken
    <3>2. pending' = pending \cup {i} /\ popped' = popped
      BY <1>4, <2>1, <3>0 DEF ProcessFromTT, Enter
    <3>3. i \notin pending \cup popped
      BY <1>1, <3>1 DEF TableOK
    <3>4. i \in 1..Heard' /\ Asks(i)'
      BY <1>1, <2>1, <3>0, <3>1 DEF Asks
    <3> QED
      BY <1>2, <3>2, <3>3, <3>4 DEF TableOK
  <2>2. CASE ~(fromTT # <<>> /\ Asks(Head(fromTT)))
    BY <1>3, <1>4, <2>2 DEF ProcessFromTT
  <2> QED
    BY <2>1, <2>2
<1>5. CASE ProcessFromUI
  <2>1. \/ UNCHANGED <<pending, popped>>
        \/ \E i \in pending : pending' = pending \ {i} /\ popped' = popped \cup {i}
    BY <1>5 DEF ProcessFromUI, PoppedBy
  <2>2. CASE \E i \in pending : pending' = pending \ {i} /\ popped' = popped \cup {i}
    <3>1. pending' \cup popped' = pending \cup popped /\ pending' \cap popped' = {}
      BY <2>2 DEF TableOK
    <3> QED
      BY <1>2, <3>1 DEF TableOK
  <2> QED
    BY <1>3, <2>1, <2>2
<1>6. CASE \/ \E c \in Contents : TestingToolPublishes(c)
           \/ \E i \in DOMAIN log, form \in Forms : UserReplies(i, form)
           \/ TTListener \/ UIListener \/ PublishDisplays \/ PublishRequest
           \/ PublishToTT \/ CheckUsers \/ UNCHANGED vars
  BY <1>3, <1>6 DEF TestingToolPublishes, UserReplies, TTListener, UIListener,
    PublishDisplays, PublishRequest, PublishToTT, CheckUsers, vars
<1> QED
  BY <1>4, <1>5, <1>6 DEF Next, MainLoop

-----------------------------------------------------------------------------
(* The screens *)

\* The request goes last, after those who are told to wait.
LEMMA RequestPublished ==
  ASSUME TypeOK, QueuesShort, PublishRequest, request # <<>>
  PROVE  /\ request' = <<>> /\ DOMAIN request = {1} /\ Head(request) = request[1]
         /\ Len(screen) \in Nat /\ Len(screen') \in Nat /\ Len(screen') > Len(screen)
         /\ DOMAIN screen = 1..Len(screen) /\ DOMAIN screen' = 1..Len(screen')
         /\ \A k \in DOMAIN screen : screen'[k] = screen[k]
         /\ screen'[Len(screen')] = request[1]
         /\ \A k \in DOMAIN screen' :
              k \notin DOMAIN screen /\ k # Len(screen') =>
                screen'[k].kind = "waiting" /\ screen'[k].tag = NoTag
<1> DEFINE r == Head(request)
           w == SetToSeq({Waits(r.id, u) : u \in Others(r.to)})
<1>1. r \in Entries /\ r = request[1] /\ Len(Tail(request)) = Len(request) - 1
      /\ request \in Seq(Entries) /\ Tail(request) \in Seq(Entries) /\ Len(request) \in Nat \ {0}
  BY HeadTail DEF TypeOK
<1>2. r.id \in Nat /\ r.to \in Holders
  BY <1>1 DEF Entries
<1>3. request' = Tail(request) /\ screen' = screen \o w \o <<r>> /\ pc = "request"
  BY DEF PublishRequest, At
<1> HIDE DEF r
<1>4. w \in Seq(Entries) /\ \A k \in DOMAIN w : w[k].kind = "waiting" /\ w[k].tag = NoTag
  BY <1>2, WaitsFacts
<1> HIDE DEF w
<1>5. Len(request) = 1
  BY <1>1, <1>3 DEF QueuesShort
<1>6. request' = <<>> /\ DOMAIN request = {1}
  BY <1>1, <1>3, <1>5
<1>7. screen \in Seq(Entries)
  BY DEF TypeOK
<1>8. /\ Len(screen) \in Nat /\ Len(w) \in Nat /\ Len(screen') = Len(screen) + Len(w) + 1
      /\ DOMAIN screen = 1..Len(screen) /\ DOMAIN screen' = 1..Len(screen')
      /\ DOMAIN w = 1..Len(w)
      /\ \A k \in 1..Len(screen) : screen'[k] = screen[k]
      /\ screen'[Len(screen) + Len(w) + 1] = r
  BY <1>1, <1>3, <1>4, <1>7
<1>9. \A k \in 1..Len(screen') :
        k > Len(screen) /\ k <= Len(screen) + Len(w) => screen'[k] = w[k - Len(screen)]
  BY <1>1, <1>3, <1>4, <1>7
<1>10. ASSUME NEW k \in DOMAIN screen', k \notin DOMAIN screen, k # Len(screen')
       PROVE  screen'[k].kind = "waiting" /\ screen'[k].tag = NoTag
  <2>1. k \in 1..Len(screen') /\ k \notin 1..Len(screen) /\ k # Len(screen')
    BY <1>8, <1>10
  <2>2. k \in Nat /\ k > Len(screen) /\ k <= Len(screen) + Len(w)
    BY <1>8, <2>1
  <2>3. k - Len(screen) \in 1..Len(w)
    BY <1>8, <2>2
  <2>4. screen'[k] = w[k - Len(screen)]
    BY <1>9, <2>1, <2>2
  <2> QED
    BY <1>4, <1>8, <2>3, <2>4
<1> QED
  BY <1>1, <1>6, <1>8, <1>10 DEF r

\* What was published stays; the other steps publish nothing but a display or
\* an echo.
LEMMA ScreenStep ==
  ASSUME TypeOK, QueuesShort, [Next]_vars
  PROVE  /\ Len(screen) \in Nat /\ DOMAIN screen = 1..Len(screen)
         /\ Len(screen') \in Nat /\ DOMAIN screen' = 1..Len(screen')
         /\ Len(screen') >= Len(screen)
         /\ \A k \in DOMAIN screen : k \in DOMAIN screen' /\ screen'[k] = screen[k]
         /\ ~(PublishRequest /\ request # <<>>) =>
              \/ screen' = screen
              \/ /\ display # <<>> /\ Len(screen') = Len(screen) + 1
                 /\ screen'[Len(screen) + 1] = display[1]
<1>1. screen \in Seq(Entries) /\ display \in Seq(Entries)
  BY DEF TypeOK
<1>2. CASE screen' = screen
  BY <1>1, <1>2
<1>3. CASE PublishRequest /\ request # <<>>
  <2>1. /\ Len(screen) \in Nat /\ Len(screen') \in Nat /\ Len(screen') > Len(screen)
        /\ DOMAIN screen = 1..Len(screen) /\ DOMAIN screen' = 1..Len(screen')
        /\ \A k \in DOMAIN screen : screen'[k] = screen[k]
    BY <1>3, RequestPublished
  <2>2. Len(screen') >= Len(screen) /\ \A k \in DOMAIN screen : k \in DOMAIN screen'
    BY <2>1
  <2> QED
    BY <1>3, <2>1, <2>2, Zenon
<1>4. CASE PublishDisplays /\ display # <<>>
  <2>1. screen' = Append(screen, Head(display)) /\ Head(display) = display[1]
        /\ Head(display) \in Entries
    BY <1>1, <1>4, HeadTail DEF PublishDisplays
  <2> QED
    BY <1>1, <1>4, <2>1, Appended
<1>5. CASE \/ \E c \in Contents : TestingToolPublishes(c)
           \/ \E i \in DOMAIN log, form \in Forms : UserReplies(i, form)
           \/ TTListener \/ UIListener \/ ProcessFromTT
           \/ PublishDisplays /\ display = <<>>
           \/ PublishRequest /\ request = <<>>
           \/ ProcessFromUI \/ PublishToTT \/ CheckUsers \/ UNCHANGED vars
  BY <1>2, <1>5 DEF TestingToolPublishes, UserReplies, TTListener, UIListener,
    ProcessFromTT, PublishDisplays, PublishRequest, ProcessFromUI, PublishToTT,
    CheckUsers, vars
<1> QED
  BY <1>3, <1>4, <1>5 DEF Next, MainLoop

\* What the main loop makes of a message that calls for a user.
LEMMA RequestMade ==
  ASSUME TypeOK, Arriving, QueuesShort, ProcessFromTT, fromTT # <<>>
  PROVE  /\ request = <<>>
         /\ \/ display' = display
            \/ \E d : display' = Append(display, d) /\ d.kind = "display"
         /\ \/ request' = <<>> /\ ~Asks(Heard + 1)
            \/ /\ Asks(Heard + 1) /\ Heard + 1 \in pending'
               /\ \E r, d : /\ request' = <<r>> /\ r.kind = "request" /\ r.id = Heard + 1
                            /\ display' = Append(display, d) /\ IsDisplayOf(d, r)
<1>1. PICK i \in DOMAIN log : i = Head(fromTT) /\ i = Heard + 1 /\ log[i] \in Messages
  BY Taken
<1>2. request = <<>>
  <2>1. Len(request) <= 0 /\ request \in Seq(Entries)
    BY DEF ProcessFromTT, At, QueuesShort, TypeOK
  <2> QED
    BY <2>1
<1> DEFINE m == log[i]
           d == Shows("display", i, Addressee(m), DisplayTag(memory', m), Files(memory', m))
           r == Shows("request", i, Addressee(m), DefaultTag(memory'), {})
<1>3. /\ IF Shown(i) THEN display' = Append(display, d) ELSE display' = display
      /\ IF Asks(i) THEN request' = Append(request, r) /\ pending' = Enter(i)
                    ELSE UNCHANGED <<request, pending>>
  BY <1>1 DEF ProcessFromTT
<1>4. Asks(i) => Shown(i)
  BY <1>1, MessageFacts DEF Asks, Shown
<1>5. /\ d.kind = "display" /\ r.kind = "request" /\ r.id = i /\ IsDisplayOf(d, r)
  BY DEF Shows, IsDisplayOf
<1> HIDE DEF d, r, m
<1>6. CASE Asks(i)
  <2>1. request' = <<r>> /\ i \in pending' /\ display' = Append(display, d)
    BY <1>2, <1>3, <1>4, <1>6 DEF Enter
  <2> QED
    BY <1>1, <1>2, <1>5, <1>6, <2>1
<1>7. CASE ~Asks(i)
  BY <1>1, <1>2, <1>3, <1>5, <1>7
<1> QED
  BY <1>6, <1>7

LEMMA RequestsStep ==
  ASSUME TypeOK, Arriving, QueuesShort, TableOK, RequestsOK, [Next]_vars
  PROVE  RequestsOK'
<1> DEFINE D(e) == e.kind \in {"display", "echo"}
<1>1. /\ Heard \in Nat
      /\ Heard' = IF ProcessFromTT /\ fromTT # <<>> THEN Heard + 1 ELSE Heard
      /\ pending \cup popped \subseteq (pending \cup popped)'
  BY ArrivingStep, TableStep
<1>2. display \in Seq(Entries) /\ request \in Seq(Entries) /\ screen \in Seq(Entries)
  BY DEF TypeOK
<1>3. ASSUME UNCHANGED <<display, request, screen>>, Heard' = Heard PROVE RequestsOK'
  BY <1>1, <1>3 DEF RequestsOK
<1>4. CASE ProcessFromTT /\ fromTT # <<>>
  <2>1. /\ request = <<>> /\ Heard' = Heard + 1
        /\ \/ display' = display
           \/ \E d : display' = Append(display, d) /\ d.kind = "display"
        /\ \/ request' = <<>>
           \/ /\ Heard + 1 \in pending'
              /\ \E r, d : /\ request' = <<r>> /\ r.kind = "request" /\ r.id = Heard + 1
                           /\ display' = Append(display, d) /\ IsDisplayOf(d, r)
    BY <1>1, <1>4, RequestMade
  <2>2. \A k \in DOMAIN display' : display'[k].kind \in {"display", "echo"}
    <3>1. CASE display' = display
      BY <3>1 DEF RequestsOK
    <3>2. ASSUME NEW d, display' = Append(display, d), d.kind = "display"
          PROVE  \A k \in DOMAIN display' : display'[k].kind \in {"display", "echo"}
      BY <1>2, <3>2 DEF RequestsOK
    <3> QED
      BY <2>1, <3>1, <3>2
  <2>3. CASE request' = <<>>
    BY <2>2, <2>3 DEF RequestsOK
  <2>4. ASSUME NEW r, NEW d, request' = <<r>>, r.kind = "request", r.id = Heard + 1,
               Heard + 1 \in pending', display' = Append(display, d), IsDisplayOf(d, r)
        PROVE  RequestsOK'
    <3>1. DOMAIN request' = {1} /\ request'[1] = r
      BY <2>4
    <3>2. Len(display) + 1 \in DOMAIN display' /\ display'[Len(display) + 1] = d
      BY <1>2, <2>4
    <3>3. \E l \in DOMAIN display' : IsDisplayOf(display'[l], request'[1])
      BY <2>4, <3>1, <3>2
    <3> QED
      BY <2>1, <2>2, <2>4, <3>1, <3>3 DEF RequestsOK, IsDisplayOf
  <2> QED
    BY <2>1, <2>3, <2>4
<1>5. CASE PublishDisplays /\ display # <<>>
  <2>1. /\ display' = Tail(display) /\ screen' = Append(screen, Head(display))
        /\ request' = request /\ Heard' = Heard
    BY <1>1, <1>5 DEF PublishDisplays, ProcessFromTT, At
  <2>2. /\ Head(display) = display[1] /\ Head(display) \in Entries
        /\ \A k \in DOMAIN display' : k + 1 \in DOMAIN display /\ display'[k] = display[k + 1]
        /\ \A k \in DOMAIN display : k # 1 =>
             k - 1 \in DOMAIN display' /\ display'[k - 1] = display[k]
    BY <1>2, <1>5, <2>1, HeadTail
  <2>3. /\ \A k \in DOMAIN screen : k \in DOMAIN screen' /\ screen'[k] = screen[k]
        /\ Len(screen) + 1 \in DOMAIN screen' /\ screen'[Len(screen) + 1] = display[1]
    BY <1>2, <2>1, <2>2, Appended
  <2>4. ASSUME NEW k \in DOMAIN request
        PROVE  \/ \E l \in DOMAIN display' : IsDisplayOf(display'[l], request[k])
               \/ \E l \in DOMAIN screen' : IsDisplayOf(screen'[l], request[k])
    <3>1. CASE \E l \in DOMAIN display : IsDisplayOf(display[l], request[k])
      BY <2>2, <2>3, <3>1
    <3>2. CASE \E l \in DOMAIN screen : IsDisplayOf(screen[l], request[k])
      BY <2>3, <3>2
    <3> QED
      BY <3>1, <3>2 DEF RequestsOK
  <2>5. \A k \in DOMAIN display' : display'[k].kind \in {"display", "echo"}
    BY <2>2 DEF RequestsOK
  <2> QED
    BY <1>1, <2>1, <2>4, <2>5 DEF RequestsOK, IsDisplayOf
<1>6. CASE PublishRequest /\ request # <<>>
  <2>1. request' = <<>> /\ display' = display
    BY <1>6, RequestPublished DEF PublishRequest
  <2> QED
    BY <2>1 DEF RequestsOK
<1>7. CASE ProcessFromUI
  <2>1. request = <<>> /\ request' = request
    <3>1. Len(request) <= 0
      BY <1>7 DEF ProcessFromUI, At, QueuesShort
    <3> QED
      BY <1>2, <1>7, <3>1 DEF ProcessFromUI
  <2>2. display' = display \/ \E e : display' = Append(display, e) /\ e.kind = "echo"
    BY <1>7 DEF ProcessFromUI, Echo, Shows
  <2>3. CASE display' = display
    BY <2>1, <2>3 DEF RequestsOK
  <2>4. ASSUME NEW e, display' = Append(display, e), e.kind = "echo"
        PROVE  RequestsOK'
    <3>1. \A k \in DOMAIN display' : display'[k].kind \in {"display", "echo"}
      BY <1>2, <2>4 DEF RequestsOK
    <3> QED
      BY <2>1, <3>1 DEF RequestsOK
  <2> QED
    BY <2>2, <2>3, <2>4
<1>8. CASE \/ \E c \in Contents : TestingToolPublishes(c)
           \/ \E i \in DOMAIN log, form \in Forms : UserReplies(i, form)
           \/ TTListener \/ UIListener
           \/ ProcessFromTT /\ fromTT = <<>>
           \/ PublishDisplays /\ display = <<>>
           \/ PublishRequest /\ request = <<>>
           \/ PublishToTT \/ CheckUsers \/ UNCHANGED vars
  <2>1. UNCHANGED <<display, request, screen>>
    BY <1>8 DEF TestingToolPublishes, UserReplies, TTListener, UIListener, ProcessFromTT,
      PublishDisplays, PublishRequest, PublishToTT, CheckUsers, vars
  <2>2. Heard' = Heard \/ request = <<>>
    <3>1. ProcessFromTT => Len(request) <= 0
      BY DEF ProcessFromTT, At, QueuesShort
    <3> QED
      BY <1>1, <1>2, <3>1
  <2> QED
    BY <1>3, <2>1, <2>2 DEF RequestsOK
<1> QED
  BY <1>4, <1>5, <1>6, <1>7, <1>8 DEF Next, MainLoop

\* The number of a request that is published is that of a message taken up.
LEMMA PublishedAsked ==
  ASSUME TypeOK, Arriving, TableOK, AskedOK, NEW k \in DOMAIN screen,
         screen[k].kind = "request"
  PROVE  screen[k].id \in Nat /\ screen[k].id \in DOMAIN log
<1>1. screen[k].id \in 1..Heard
  BY DEF AskedOK, TableOK
<1>2. Heard \in Nat /\ Heard <= Len(log) /\ DOMAIN log = 1..Len(log) /\ Len(log) \in Nat
  BY DEF TypeOK, Arriving, Heard
<1> QED
  BY <1>1, <1>2

LEMMA AskedStep ==
  ASSUME TypeOK, Arriving, QueuesShort, TableOK, RequestsOK, AskedOK, [Next]_vars
  PROVE  AskedOK'
<1>1. /\ Heard \in Nat /\ Heard <= Len(log) /\ Len(log) \in Nat /\ DOMAIN log = 1..Len(log)
      /\ Heard' = IF ProcessFromTT /\ fromTT # <<>> THEN Heard + 1 ELSE Heard
      /\ \A i \in DOMAIN log : log'[i] = log[i]
      /\ pending \cup popped \subseteq (pending \cup popped)'
  BY ArrivingStep, LogStep, TableStep
<1>2. /\ Len(screen) \in Nat /\ DOMAIN screen = 1..Len(screen)
      /\ Len(screen') \in Nat /\ DOMAIN screen' = 1..Len(screen')
      /\ screen \in Seq(Entries) /\ screen' \in Seq(Entries)
      /\ Len(screen') >= Len(screen)
      /\ \A k \in DOMAIN screen : k \in DOMAIN screen' /\ screen'[k] = screen[k]
  BY ScreenStep, TypeStep DEF TypeOK
<1>0. ~(PublishRequest /\ request # <<>>) =>
           \/ screen' = screen
           \/ /\ display # <<>> /\ Len(screen') = Len(screen) + 1
              /\ screen'[Len(screen) + 1] = display[1]
  BY ScreenStep
<1>3. \A i \in Nat : OnScreen("request", i) => OnScreen("request", i)'
  BY <1>2 DEF OnScreen
<1>4. ASSUME NEW i \in 1..Heard', Asks(i)'
      PROVE  OnScreen("request", i)' \/ \E k \in DOMAIN request' : request'[k].id = i
  <2>1. CASE ProcessFromTT /\ fromTT # <<>> /\ i = Heard + 1
    <3>1. Asks(i)
      <4>1. Heard + 1 \in DOMAIN log
        BY <2>1, Taken
      <4> QED
        BY <1>1, <1>4, <2>1, <4>1 DEF Asks
    <3>2. \E r : request' = <<r>> /\ r.id = i
      BY <2>1, <3>1, RequestMade
    <3> QED
      BY <3>2
  <2>2. CASE i \in 1..Heard
    <3>1. Asks(i)
      BY <1>1, <1>4, <2>2 DEF Asks
    <3>2. CASE OnScreen("request", i)
      BY <1>3, <3>2
    <3>3. CASE \E k \in DOMAIN request : request[k].id = i
      <4>1. request # <<>> /\ request \in Seq(Entries)
        BY <3>3 DEF TypeOK
      <4>2. CASE PublishRequest
        <5>1. request[1].id = i /\ request[1].kind = "request"
          BY <3>3, <4>1, <4>2, RequestPublished DEF RequestsOK
        <5>2. Len(screen') \in DOMAIN screen' /\ screen'[Len(screen')] = request[1]
          BY <1>2, <4>1, <4>2, RequestPublished
        <5> QED
          BY <5>1, <5>2 DEF OnScreen
      <4>3. CASE ~PublishRequest
        <5>1. ~ProcessFromTT
          <6>1. ProcessFromTT => Len(request) <= 0
            BY DEF ProcessFromTT, At, QueuesShort
          <6> QED
            BY <4>1, <6>1
        <5>2. request' = request
          BY <4>3, <5>1 DEF Next, MainLoop, TestingToolPublishes, UserReplies, TTListener,
            UIListener, PublishDisplays, ProcessFromUI, PublishToTT, CheckUsers, vars
        <5> QED
          BY <3>3, <5>2
      <4> QED
        BY <4>2, <4>3
    <3> QED
      BY <2>2, <3>1, <3>2, <3>3 DEF AskedOK
  <2> QED
    BY <1>1, <2>1, <2>2
<1>5. ASSUME NEW k \in DOMAIN screen', screen'[k].kind = "request"
      PROVE  screen'[k].id \in (pending \cup popped)'
  <2>1. CASE k \in DOMAIN screen
    BY <1>1, <1>2, <1>5, <2>1 DEF AskedOK
  <2>2. CASE k \notin DOMAIN screen /\ PublishRequest /\ request # <<>>
    <3>1. screen'[k] = request[1] /\ 1 \in DOMAIN request
      BY <1>5, <2>2, RequestPublished
    <3> QED
      BY <1>1, <3>1 DEF RequestsOK
  <2>3. CASE k \notin DOMAIN screen /\ ~(PublishRequest /\ request # <<>>)
    <3>0. \/ screen' = screen
          \/ /\ display # <<>> /\ Len(screen') = Len(screen) + 1
             /\ screen'[Len(screen) + 1] = display[1]
      BY <1>0, <2>3, Zenon
    <3>4. k \in DOMAIN screen' /\ k \notin DOMAIN screen
      BY <2>3
    <3>5. screen' # screen
      BY <3>4
    <3>6. k \in 1..(Len(screen) + 1) /\ k \notin 1..Len(screen)
      BY <1>2, <3>0, <3>4, <3>5
    <3>7. k = Len(screen) + 1
      BY <1>2, <3>6
    <3>1. display # <<>> /\ screen'[k] = display[1]
      BY <3>0, <3>5, <3>7
    <3>2. 1 \in DOMAIN display
      BY <3>1 DEF TypeOK
    <3> QED
      BY <1>5, <3>1, <3>2 DEF RequestsOK
  <2> QED
    BY <2>1, <2>2, <2>3
<1> QED
  BY <1>4, <1>5 DEF AskedOK

LEMMA OrderStep ==
  ASSUME TypeOK, Arriving, QueuesShort, TableOK, RequestsOK, AskedOK, ShownInOrder,
         [Next]_vars
  PROVE  ShownInOrder'
<1>1. /\ Heard \in Nat /\ Heard <= Len(log) /\ Len(log) \in Nat /\ DOMAIN log = 1..Len(log)
      /\ \A i \in DOMAIN log : log'[i] = log[i]
  BY ArrivingStep, LogStep
<1>2. /\ Len(screen) \in Nat /\ DOMAIN screen = 1..Len(screen)
      /\ Len(screen') \in Nat /\ DOMAIN screen' = 1..Len(screen')
      /\ screen \in Seq(Entries) /\ screen' \in Seq(Entries)
      /\ Len(screen') >= Len(screen)
      /\ \A k \in DOMAIN screen : k \in DOMAIN screen' /\ screen'[k] = screen[k]
  BY ScreenStep, TypeStep DEF TypeOK
<1>0. ~(PublishRequest /\ request # <<>>) =>
           \/ screen' = screen
           \/ /\ display # <<>> /\ Len(screen') = Len(screen) + 1
              /\ screen'[Len(screen) + 1] = display[1]
  BY ScreenStep
<1> SUFFICES ASSUME NEW k \in DOMAIN screen', screen'[k].kind = "request"
             PROVE  /\ ShownBefore(k)'
                    /\ \A i \in 1..(screen'[k].id - 1) : Asks(i)' => AskedAbout(i, k)'
  BY DEF ShownInOrder
<1>3. CASE k \in DOMAIN screen
  <2>1. screen'[k] = screen[k] /\ \A l \in 1..(k - 1) : screen'[l] = screen[l]
    BY <1>2, <1>3
  <2>2. ShownBefore(k)'
    BY <1>3, <2>1 DEF ShownInOrder, ShownBefore
  <2>3. screen[k].id \in Nat /\ screen[k].id \in DOMAIN log
    BY <1>3, <2>1, PublishedAsked
  <2>4. ASSUME NEW i \in 1..(screen'[k].id - 1), Asks(i)' PROVE AskedAbout(i, k)'
    <3>1. i \in DOMAIN log /\ i \in 1..(screen[k].id - 1)
      BY <1>1, <2>1, <2>3
    <3>2. AskedAbout(i, k)
      BY <1>1, <1>3, <2>1, <2>4, <3>1 DEF ShownInOrder, Asks
    <3> QED
      BY <2>1, <3>2 DEF AskedAbout
  <2> QED
    BY <2>2, <2>4
<1>4. CASE k \notin DOMAIN screen /\ PublishRequest /\ request # <<>>
  <2>1. /\ DOMAIN request = {1} /\ k = Len(screen') /\ screen'[k] = request[1]
        /\ Len(screen') > Len(screen)
    BY <1>4, RequestPublished
  <2>2. display = <<>>
    <3>1. Len(display) <= 0
      BY <1>4 DEF PublishRequest, At, QueuesShort, MostDisplays
    <3> QED
      BY <3>1 DEF TypeOK
  <2>3. \A l \in DOMAIN screen : l \in 1..(k - 1) /\ screen'[l] = screen[l]
    BY <1>2, <2>1
  <2>4. ShownBefore(k)'
    <3>1. PICK l \in DOMAIN screen : IsDisplayOf(screen[l], request[1])
      BY <2>1, <2>2 DEF RequestsOK
    <3> QED
      BY <2>1, <2>3, <3>1 DEF ShownBefore, IsDisplayOf
  <2>5. screen'[k].id = Heard
    BY <2>1 DEF RequestsOK
  <2>6. ASSUME NEW i \in 1..(screen'[k].id - 1), Asks(i)' PROVE AskedAbout(i, k)'
    <3>1. i \in 1..Heard /\ i # Heard /\ Asks(i)
      BY <1>1, <2>5, <2>6 DEF Asks
    <3>2. OnScreen("request", i)
      BY <2>1, <2>5, <3>1 DEF AskedOK
    <3> QED
      BY <2>3, <3>2 DEF OnScreen, AskedAbout
  <2> QED
    BY <2>4, <2>6
<1>5. CASE k \notin DOMAIN screen /\ ~(PublishRequest /\ request # <<>>)
  <2>0. \/ screen' = screen
        \/ /\ display # <<>> /\ Len(screen') = Len(screen) + 1
           /\ screen'[Len(screen) + 1] = display[1]
    BY <1>0, <1>5, Zenon
  <2>3. k \in DOMAIN screen' /\ k \notin DOMAIN screen
    BY <1>5
  <2>4. screen' # screen
    BY <2>3
  <2>5. k \in 1..(Len(screen) + 1) /\ k \notin 1..Len(screen)
    BY <1>2, <2>0, <2>3, <2>4
  <2>6. k = Len(screen) + 1
    BY <1>2, <2>5
  <2>1. display # <<>> /\ screen'[k] = display[1]
    BY <2>0, <2>4, <2>6
  <2>2. 1 \in DOMAIN display
    BY <2>1 DEF TypeOK
  <2> QED
    BY <2>1, <2>2 DEF RequestsOK
<1> QED
  BY <1>3, <1>4, <1>5

-----------------------------------------------------------------------------
(* The invariant *)

LEMMA InitInv == Init => Inv
<1> SUFFICES ASSUME Init PROVE Inv
  OBVIOUS
<1>1. TypeOK
  <2>1. Nothing \in Memories
    BY DEF Nothing, Memories, TestCasesNamed
  <2> QED
    BY <2>1 DEF Init, TypeOK
<1>2. Arriving /\ Heard = 0
  <2>1. Len(log) = 0 /\ Len(bus) = 0 /\ Len(fromTT) = 0
    BY DEF Init
  <2>2. Heard = 0
    BY <2>1 DEF Heard
  <2>3. DOMAIN fromTT = {} /\ DOMAIN bus = {}
    BY DEF Init
  <2> QED
    BY <2>2, <2>3 DEF Arriving
<1>3. QueuesShort
  BY DEF Init, QueuesShort, MostDisplays
<1>4. TableOK /\ RequestsOK /\ ShownInOrder
  BY DEF Init, TableOK, RequestsOK, ShownInOrder
<1>5. AskedOK
  BY <1>2 DEF Init, AskedOK
<1> QED
  BY <1>1, <1>2, <1>3, <1>4, <1>5 DEF Inv

LEMMA NextInv == Inv /\ [Next]_vars => Inv'
<1> SUFFICES ASSUME Inv, [Next]_vars PROVE Inv'
  OBVIOUS
<1>1. TypeOK /\ Arriving /\ QueuesShort /\ TableOK /\ RequestsOK /\ AskedOK /\ ShownInOrder
  BY DEF Inv
<1>2. TypeOK' /\ Arriving'
  BY <1>1, TypeStep, ArrivingStep
<1>3. QueuesShort' /\ TableOK'
  BY <1>1, ShortStep, TableStep
<1>4. RequestsOK' /\ AskedOK' /\ ShownInOrder'
  BY <1>1, RequestsStep, AskedStep, OrderStep
<1> QED
  BY <1>2, <1>3, <1>4 DEF Inv

LEMMA InvHolds == Spec => []Inv
BY InitInv, NextInv, PTL DEF Spec

-----------------------------------------------------------------------------
(* The theorems *)

\* The adaptor's state stays well typed, for any messages and roles: what it
\* publishes for the testing tool is one of the five answers.
THEOREM AdaptorTypes == Spec => []TypeOK
<1>1. Inv => TypeOK
  BY DEF Inv
<1> QED
  BY InvHolds, <1>1, PTL

\* With room for two messages the main loop never waits for room in a queue
\* that it alone empties, whatever it is sent and however fast (the main loop of
\* __main__.py).
THEOREM LoopNeverBlocks == Spec => []NeverBlocksItself
<1>1. Inv => NeverBlocksItself
  <2> SUFFICES ASSUME Inv PROVE NeverBlocksItself
    OBVIOUS
  <2>1. /\ Len(display) \in Nat /\ Len(request) \in Nat /\ Len(toTT) \in Nat
        /\ QueueLimit \in Nat /\ QueueLimit >= 2
    BY AdaptorAssumption DEF Inv, TypeOK
  <2>2. pc \in {"from_tt", "from_ui"} =>
          Len(display) <= 1 /\ Len(request) <= 0 /\ Len(toTT) <= 0
    BY <2>1 DEF Inv, QueuesShort, MostDisplays
  <2> QED
    BY <2>1, <2>2 DEF NeverBlocksItself, HasRoom
<1> QED
  BY InvHolds, <1>1, PTL

\* However fast a user replies, and however often, a request that is on his
\* screen is in the table or was replied to (add_pending_response comes after
\* the request is queued, and before it is published).
THEOREM RepliesFindTheirRequest == Spec => []OnScreenMeansPending
<1>1. Inv => OnScreenMeansPending
  BY DEF Inv, AskedOK, OnScreenMeansPending, OnScreen
<1> QED
  BY InvHolds, <1>1, PTL

\* A request comes behind the display of what it is about, and behind the
\* requests of earlier messages, for any number of messages and replies.
THEOREM RequestsComeInOrder == Spec => []ShownInOrder
<1>1. Inv => ShownInOrder
  BY DEF Inv
<1> QED
  BY InvHolds, <1>1, PTL

-----------------------------------------------------------------------------
(* The table of open requests *)

Unused(r) == {i \in DOMAIN log : log[i] = r /\ i \notin popped}

LEMMA UnusedFinite ==
  ASSUME TypeOK
  PROVE  \A r \in Requests : IsFiniteSet(Unused(r)) /\ Cardinality(Unused(r)) \in Nat
<1>1. Len(log) \in Nat /\ DOMAIN log = 1..Len(log)
  BY DEF TypeOK
<1>2. IsFiniteSet(1..Len(log))
  BY <1>1, FS_Interval
<1>3. ASSUME NEW r \in Requests
      PROVE  IsFiniteSet(Unused(r)) /\ Cardinality(Unused(r)) \in Nat
  <2>1. Unused(r) \in SUBSET (1..Len(log))
    BY <1>1 DEF Unused
  <2> QED
    BY <1>2, <2>1, FS_Subset, FS_CardinalityType
<1> QED
  BY <1>3

LEMMA SameCardinality == \A S : table!Cardinality(S) = Cardinality(S)
BY DEF table!Cardinality, Cardinality

LEMMA Counts ==
  /\ \A r : table!Count(<<>>, r) = 0
  /\ \A c, r : table!Count(<<c>>, r) = IF c = r THEN 1 ELSE 0
<1>1. ASSUME NEW r PROVE table!Count(<<>>, r) = 0
  <2>1. {k \in 1..Len(<<>>) : <<>>[k] = r} = {}
    OBVIOUS
  <2> QED
    BY <2>1, FS_EmptySet, SameCardinality DEF table!Count
<1>2. ASSUME NEW c, NEW r PROVE table!Count(<<c>>, r) = IF c = r THEN 1 ELSE 0
  <2>1. CASE c = r
    <3>1. {k \in 1..Len(<<c>>) : <<c>>[k] = r} = {1}
      BY <2>1
    <3> QED
      BY <2>1, <3>1, FS_Singleton, SameCardinality DEF table!Count
  <2>2. CASE c # r
    <3>1. {k \in 1..Len(<<c>>) : <<c>>[k] = r} = {}
      BY <2>2
    <3> QED
      BY <2>2, <3>1, FS_EmptySet, SameCardinality DEF table!Count
  <2> QED
    BY <2>1, <2>2
<1> QED
  BY <1>1, <1>2

\* A message that calls for a user opens one request more.
LEMMA PublishingAsks ==
  ASSUME TypeOK, Arriving, TableOK, popped' = popped,
         NEW m \in Messages, log' = Append(log, m)
  PROVE  [table!OpenNext]_StillOpen
<1> DEFINE n == Len(log) + 1
<1>1. /\ log \in Seq(Messages) /\ Len(log) \in Nat /\ DOMAIN log = 1..Len(log)
      /\ DOMAIN log' = 1..n /\ log'[n] = m /\ \A i \in DOMAIN log : log'[i] = log[i]
  BY Appended DEF TypeOK
<1>2. n \notin popped /\ n \notin DOMAIN log
  <2>1. Heard \in Nat /\ Heard <= Len(log)
    BY DEF TypeOK, Arriving, Heard
  <2> QED
    BY <1>1, <2>1 DEF TableOK
<1>3. ASSUME NEW r \in Requests
      PROVE  Unused(r)' = IF m = r THEN Unused(r) \cup {n} ELSE Unused(r)
  BY <1>1, <1>2 DEF Unused
<1> HIDE DEF n
<1>4. ASSUME NEW r \in Requests
      PROVE  Cardinality(Unused(r)') = Cardinality(Unused(r)) + table!Count(<<m>>, r)
  <2>1. IsFiniteSet(Unused(r)) /\ Cardinality(Unused(r)) \in Nat
    BY UnusedFinite
  <2>2. n \notin Unused(r)
    BY <1>2 DEF Unused
  <2>3. Cardinality(Unused(r) \cup {n}) = Cardinality(Unused(r)) + 1
    BY <2>1, <2>2, FS_AddElement
  <2>4. CASE m = r
    <3>1. table!Count(<<m>>, r) = 1 /\ Unused(r)' = Unused(r) \cup {n}
      BY <1>3, <2>4, Counts
    <3> QED
      BY <2>1, <2>3, <3>1
  <2>5. CASE m # r
    <3>1. table!Count(<<m>>, r) = 0 /\ Unused(r)' = Unused(r)
      BY <1>3, <2>5, Counts
    <3>2. Cardinality(Unused(r)') = Cardinality(Unused(r))
      BY <3>1
    <3> QED
      BY <2>1, <3>1, <3>2
  <2> QED
    BY <2>4, <2>5
<1>5. /\ StillOpen = [r \in Requests |-> Cardinality(Unused(r))]
      /\ StillOpen' = [r \in Requests |-> Cardinality(Unused(r)')]
  BY DEF StillOpen, Unused
<1>6. CASE m \in Requests
  <2>1. StillOpen' = [r \in Requests |-> StillOpen[r] + table!Count(<<m>>, r)]
    BY <1>4, <1>5
  <2>2. table!Ask(<<m>>)
    BY <2>1 DEF table!Ask
  <2> QED
    BY <1>6, <2>2 DEF table!OpenNext
<1>7. CASE m \notin Requests
  <2>1. \A r \in Requests : Unused(r)' = Unused(r)
    BY <1>3, <1>7
  <2> QED
    BY <1>5, <2>1
<1> QED
  BY <1>6, <1>7

\* A reply that finds its entry closes one request.
LEMMA ReplyingCloses ==
  ASSUME TypeOK, Arriving, TableOK, log' = log,
         NEW i \in pending, popped' = popped \cup {i}
  PROVE  [table!OpenNext]_StillOpen
<1>1. i \in DOMAIN log /\ i \notin popped /\ log[i] \in Requests
  <2>1. i \in 1..Heard /\ Asks(i) /\ i \notin popped
    BY DEF TableOK
  <2>2. Heard \in Nat /\ Heard <= Len(log) /\ DOMAIN log = 1..Len(log) /\ Len(log) \in Nat
    BY DEF TypeOK, Arriving, Heard
  <2>3. i \in DOMAIN log
    BY <2>1, <2>2
  <2>4. log[i] \in Messages
    BY <2>3 DEF TypeOK
  <2> QED
    BY <2>1, <2>3, <2>4, MessageFacts DEF Asks
<1>4. PICK q \in Requests : q = log[i]
  BY <1>1
<1>2. /\ i \in Unused(q) /\ Unused(q)' = Unused(q) \ {i}
      /\ \A r \in Requests : r # q => Unused(r)' = Unused(r)
  BY <1>1, <1>4 DEF Unused
<1>3. /\ StillOpen = [r \in Requests |-> Cardinality(Unused(r))]
      /\ StillOpen' = [r \in Requests |-> Cardinality(Unused(r)')]
  BY DEF StillOpen, Unused
<1>5. IsFiniteSet(Unused(q)) /\ Cardinality(Unused(q)) \in Nat
  BY <1>4, UnusedFinite
<1>6. Cardinality(Unused(q) \ {i}) = Cardinality(Unused(q)) - 1
  BY <1>2, <1>5, FS_RemoveElement
<1>7. Cardinality(Unused(q)) > 0
  <2>1. Unused(q) # {}
    BY <1>2
  <2> QED
    BY <1>5, <2>1, FS_EmptySet
<1>8. StillOpen' = [r \in Requests |-> (IF r = q THEN StillOpen[r] - 1 ELSE StillOpen[r])
                                         + table!Count(<<>>, r)]
  <2>1. ASSUME NEW r \in Requests
        PROVE  Cardinality(Unused(r)') =
                 (IF r = q THEN StillOpen[r] - 1 ELSE StillOpen[r]) + table!Count(<<>>, r)
    <3>1. Cardinality(Unused(r)) \in Nat /\ StillOpen[r] = Cardinality(Unused(r))
      BY <1>3, UnusedFinite
    <3>2. table!Count(<<>>, r) = 0
      BY Counts
    <3>3. CASE r = q
      <4>1. Cardinality(Unused(r)') = Cardinality(Unused(r)) - 1
        BY <1>2, <1>6, <3>3
      <4> QED
        BY <3>1, <3>2, <3>3, <4>1
    <3>4. CASE r # q
      <4>1. Cardinality(Unused(r)') = Cardinality(Unused(r))
        BY <1>2, <3>4
      <4> QED
        BY <3>1, <3>2, <3>4, <4>1
    <3> QED
      BY <3>3, <3>4
  <2> QED
    BY <1>3, <2>1
<1>9. StillOpen[q] > 0
  BY <1>3, <1>4, <1>7
<1>10. table!Close(q, <<>>)
  BY <1>8, <1>9 DEF table!Close
<1> QED
  BY <1>4, <1>10 DEF table!OpenNext

LEMMA TableRefines == Inv /\ [Next]_vars => [table!OpenNext]_StillOpen
<1> SUFFICES ASSUME Inv, [Next]_vars PROVE [table!OpenNext]_StillOpen
  OBVIOUS
<1>1. TypeOK /\ Arriving /\ TableOK
  BY DEF Inv
<1>2. ASSUME UNCHANGED <<log, popped>> PROVE [table!OpenNext]_StillOpen
  <2>1. StillOpen' = StillOpen
    BY <1>2 DEF StillOpen
  <2> QED
    BY <2>1
<1>3. CASE \E c \in Contents : TestingToolPublishes(c)
  BY <1>1, <1>3, PublishingAsks DEF TestingToolPublishes, Messages
<1>4. CASE PublishToTT
  <2>1. CASE toTT = <<>>
    BY <1>2, <1>4, <2>1 DEF PublishToTT
  <2>2. CASE toTT # <<>>
    <3> DEFINE Said == [id : Nat, msg : Answers]
    <3>1. toTT \in Seq(Said)
      BY <1>1 DEF TypeOK
    <3>2. Head(toTT) \in Said
      <4> HIDE DEF Said
      <4> QED
        BY <2>2, <3>1, HeadTail
    <3>3. Head(toTT).msg \in Messages /\ log' = Append(log, Head(toTT).msg) /\ popped' = popped
      BY <1>4, <2>2, <3>2 DEF PublishToTT, Messages
    <3> QED
      BY <1>1, <3>3, PublishingAsks
  <2> QED
    BY <2>1, <2>2
<1>5. CASE ProcessFromUI
  <2>1. /\ log' = log
        /\ popped' = popped \/ \E i \in pending : popped' = popped \cup {i}
    BY <1>5 DEF ProcessFromUI, PoppedBy
  <2> QED
    BY <1>1, <1>2, <2>1, ReplyingCloses
<1>6. CASE \/ \E i \in DOMAIN log, form \in Forms : UserReplies(i, form)
           \/ TTListener \/ UIListener \/ ProcessFromTT \/ PublishDisplays
           \/ PublishRequest \/ CheckUsers \/ UNCHANGED vars
  BY <1>2, <1>6 DEF UserReplies, TTListener, UIListener, ProcessFromTT, PublishDisplays,
    PublishRequest, CheckUsers, vars
<1> QED
  BY <1>3, <1>4, <1>5, <1>6 DEF Next, MainLoop

\* The adaptor implements the table of open requests: with its threads, queues
\* and history, a message that calls for a user opens one request, a reply that
\* finds its entry closes one, and nothing else opens or closes any.
THEOREM AdaptorKeepsTable == Spec => KeepsTable
<1>1. Init => table!OpenInit
  <2> SUFFICES ASSUME Init PROVE table!OpenInit
    OBVIOUS
  <2>1. \A r \in Requests : {i \in DOMAIN log : log[i] = r /\ i \notin popped} = {}
    BY DEF Init
  <2> QED
    BY <2>1, FS_EmptySet DEF StillOpen, table!OpenInit
<1> QED
  BY <1>1, TableRefines, InvHolds, PTL DEF Spec, KeepsTable, table!OpenSpec

-----------------------------------------------------------------------------
(* What is filed under a test case *)

Named(n) == {j \in 1..n : log[j].tc # NoTC}

\* The messages with captures of test case t, among the first n.
CapturesOf(n, t) ==
  {j \in 1..n : log[j].kind = "SniffingGetCaptureReply" /\ log[j].capture = t}

HasLast(n) == Named(n) # {} => \E x \in Named(n) : \A y \in Named(n) : y <= x

\* The translator remembers what was taken up, whether it is shown or not.
Remembers(memo, n) ==
  /\ memo.tc = LastNamed(n)
  /\ \A c \in memo.captures : c.id \in CapturesOf(n, c.of)
  /\ \A j \in 1..n : log[j].kind = "SniffingGetCaptureReply" =>
       [id |-> j, of |-> log[j].capture] \in memo.captures

MemoryOK ==
  \A n \in 0..Heard :
    /\ HasLast(n)
    /\ n = Heard => \A memo \in {memory} : Remembers(memo, n)

\* What an entry is filed under, and the captures it brings, are those of the
\* moment its message was taken up.
EntryOK(e) ==
  /\ e.kind \in {"display", "request"} => e.id \in 1..Heard
  /\ e.tag.name \in {"testcase", "packets"} =>
       e.kind \in {"display", "request"} /\ e.tag.tc = LastNamed(e.id)
  /\ e.tag.name = "logs" =>
       e.kind \in {"display", "request"} /\ LastNamed(e.id) = NoTC
  /\ e.kind = "display" /\ log[e.id].kind = "TestCaseVerdict" =>
       \A t \in {log[e.id].tc} : e.files = CapturesOf(e.id, t)

AllEntries == Range(display) \cup Range(request) \cup Range(screen)

EntriesOK == \A e \in AllEntries : EntryOK(e)

LEMMA MaxFacts ==
  ASSUME NEW S \in SUBSET Nat, NEW n \in S, \A m \in S : m <= n
  PROVE  Max(S) = n
<1>1. n \in Nat /\ \A y \in S : n >= y
  OBVIOUS
<1>2. Max(S) \in S /\ \A y \in S : Max(S) >= y
  BY <1>1 DEF Max
<1>3. Max(S) \in Nat /\ Max(S) >= n /\ n >= Max(S)
  BY <1>1, <1>2
<1> QED
  BY <1>1, <1>3

LEMMA LastNamedIs ==
  ASSUME NEW n \in Nat, HasLast(n)
  PROVE  IF Named(n) = {} THEN LastNamed(n) = NoTC
         ELSE \E x \in Named(n) : (\A y \in Named(n) : y <= x) /\ LastNamed(n) = log[x].tc
<1>1. LastNamed(n) = IF Named(n) = {} THEN NoTC ELSE log[Max(Named(n))].tc
  BY DEF LastNamed, Named
<1>2. CASE Named(n) # {}
  <2>1. PICK x \in Named(n) : \A y \in Named(n) : y <= x
    BY <1>2 DEF HasLast
  <2>2. Named(n) \in SUBSET Nat
    BY DEF Named
  <2>3. Max(Named(n)) = x
    BY <2>1, <2>2, MaxFacts
  <2> QED
    BY <1>1, <1>2, <2>1, <2>3
<1> QED
  BY <1>1, <1>2

\* The past does not change.
LEMMA PastStays ==
  ASSUME TypeOK, [Next]_vars, NEW n \in Nat, n <= Len(log), HasLast(n)
  PROVE  /\ HasLast(n)' /\ LastNamed(n)' = LastNamed(n)
         /\ \A t : CapturesOf(n, t)' = CapturesOf(n, t)
<1>1. \A j \in 1..n : log'[j] = log[j]
  <2>1. /\ Len(log) \in Nat /\ DOMAIN log = 1..Len(log)
        /\ \A j \in DOMAIN log : log'[j] = log[j]
    BY LogStep
  <2> QED
    BY <2>1
<1>2. Named(n)' = Named(n)
  BY <1>1 DEF Named
<1>3. HasLast(n)'
  BY <1>2 DEF HasLast
<1>4. LastNamed(n)' = IF Named(n) = {} THEN NoTC ELSE log'[Max(Named(n))].tc
  BY <1>2 DEF LastNamed, Named
<1>5. LastNamed(n)' = LastNamed(n)
  <2>1. CASE Named(n) = {}
    BY <1>4, <2>1, LastNamedIs
  <2>2. CASE Named(n) # {}
    <3>1. PICK x \in Named(n) : (\A y \in Named(n) : y <= x) /\ LastNamed(n) = log[x].tc
      BY <2>2, LastNamedIs
    <3>2. Named(n) \in SUBSET Nat /\ x \in 1..n
      BY DEF Named
    <3>3. Max(Named(n)) = x
      BY <3>1, <3>2, MaxFacts
    <3> QED
      BY <1>1, <1>4, <2>2, <3>1, <3>2, <3>3
  <2> QED
    BY <2>1, <2>2
<1>6. \A t : CapturesOf(n, t)' = CapturesOf(n, t)
  BY <1>1 DEF CapturesOf
<1> QED
  BY <1>3, <1>5, <1>6

\* One message more: it is the last one if it names a test case.
LEMMA OneMoreNamed ==
  ASSUME NEW n \in Nat, HasLast(n)
  PROVE  /\ HasLast(n + 1)
         /\ LastNamed(n + 1) = IF log[n + 1].tc # NoTC THEN log[n + 1].tc ELSE LastNamed(n)
<1>1. CASE log[n + 1].tc # NoTC
  <2>1. n + 1 \in Named(n + 1) /\ \A y \in Named(n + 1) : y <= n + 1
    BY <1>1 DEF Named
  <2>2. Named(n + 1) \in SUBSET Nat
    BY DEF Named
  <2>3. Max(Named(n + 1)) = n + 1
    BY <2>1, <2>2, MaxFacts
  <2>4. LastNamed(n + 1) = IF Named(n + 1) = {} THEN NoTC ELSE log[Max(Named(n + 1))].tc
    BY DEF LastNamed, Named
  <2> QED
    BY <1>1, <2>1, <2>3, <2>4 DEF HasLast
<1>2. CASE log[n + 1].tc = NoTC
  <2>1. Named(n + 1) = Named(n)
    BY <1>2 DEF Named
  <2>2. LastNamed(n + 1) = LastNamed(n)
    <3>1. LastNamed(n + 1) = IF Named(n + 1) = {} THEN NoTC ELSE log[Max(Named(n + 1))].tc
      BY DEF LastNamed, Named
    <3>2. LastNamed(n) = IF Named(n) = {} THEN NoTC ELSE log[Max(Named(n))].tc
      BY DEF LastNamed, Named
    <3> QED
      BY <2>1, <3>1, <3>2
  <2> QED
    BY <1>2, <2>1, <2>2 DEF HasLast
<1> QED
  BY <1>1, <1>2

\* Taking note of a message keeps the memory true.
LEMMA Remembered ==
  ASSUME NEW h \in Nat, HasLast(h), Remembers(memory, h),
         NEW memo, memo = Remember(memory, h + 1, log[h + 1])
  PROVE  HasLast(h + 1) /\ Remembers(memo, h + 1)
<1> DEFINE i == h + 1
<1>2. HasLast(i) /\ LastNamed(i) = IF log[i].tc # NoTC THEN log[i].tc ELSE LastNamed(h)
  BY OneMoreNamed
<1>4. memo.tc = LastNamed(i)
  BY <1>2 DEF Remembers, Remember
<1>5. memo.captures = IF log[i].kind = "SniffingGetCaptureReply"
                      THEN memory.captures \cup {[id |-> i, of |-> log[i].capture]}
                      ELSE memory.captures
  BY DEF Remember
<1>6. \A t : CapturesOf(h, t) \subseteq CapturesOf(i, t)
  BY DEF CapturesOf
<1>7. ASSUME NEW c \in memo.captures PROVE c.id \in CapturesOf(i, c.of)
  <2>1. CASE c \in memory.captures
    BY <1>6, <2>1 DEF Remembers
  <2>2. CASE c = [id |-> i, of |-> log[i].capture] /\ log[i].kind = "SniffingGetCaptureReply"
    BY <2>2 DEF CapturesOf
  <2> QED
    BY <1>5, <1>7, <2>1, <2>2
<1>8. ASSUME NEW j \in 1..i, log[j].kind = "SniffingGetCaptureReply"
      PROVE  [id |-> j, of |-> log[j].capture] \in memo.captures
  <2>1. CASE j = i
    BY <1>5, <1>8, <2>1
  <2>2. CASE j \in 1..h
    BY <1>5, <1>8, <2>2 DEF Remembers
  <2> QED
    BY <2>1, <2>2
<1> QED
  BY <1>2, <1>4, <1>7, <1>8 DEF Remembers

LEMMA RemembersStays ==
  ASSUME TypeOK, [Next]_vars, NEW n \in Nat, n <= Len(log), HasLast(n),
         NEW memo, Remembers(memo, n)
  PROVE  Remembers(memo, n)'
<1>1. \A j \in 1..n : log'[j] = log[j]
  <2>1. /\ Len(log) \in Nat /\ DOMAIN log = 1..Len(log)
        /\ \A j \in DOMAIN log : log'[j] = log[j]
    BY LogStep
  <2> QED
    BY <2>1
<1>2. LastNamed(n)' = LastNamed(n) /\ \A t : CapturesOf(n, t)' = CapturesOf(n, t)
  BY PastStays
<1> QED
  BY <1>1, <1>2 DEF Remembers

LEMMA MemoryStep ==
  ASSUME TypeOK, Arriving, MemoryOK, [Next]_vars
  PROVE  MemoryOK'
<1>1. /\ Heard \in Nat /\ Heard <= Len(log)
      /\ Heard' = IF ProcessFromTT /\ fromTT # <<>> THEN Heard + 1 ELSE Heard
  BY ArrivingStep
<1>0. PICK h \in Nat : h = Heard
  BY <1>1
<1>2. \A n \in 0..h : HasLast(n)'
  <2>1. TAKE n \in 0..h
  <2>2. n \in Nat /\ n <= Len(log) /\ HasLast(n)
    <3>1. Len(log) \in Nat
      BY DEF TypeOK
    <3> QED
      BY <1>0, <1>1, <3>1 DEF MemoryOK
  <2> QED
    BY <2>2, PastStays
<1>3. HasLast(h) /\ Remembers(memory, h)
  BY <1>0 DEF MemoryOK
<1>4. CASE ProcessFromTT /\ fromTT # <<>>
  <2>1. PICK memo : memo = Remember(memory, h + 1, log[h + 1])
    OBVIOUS
  <2>2. Head(fromTT) = h + 1 /\ h + 1 \in DOMAIN log /\ h + 1 <= Len(log)
    <3>1. Head(fromTT) = h + 1 /\ h + 1 \in DOMAIN log
      BY <1>0, <1>4, Taken
    <3> QED
      BY <3>1 DEF TypeOK
  <2>3. memory' = memo /\ Heard' = h + 1
    BY <1>0, <1>1, <1>4, <2>1, <2>2 DEF ProcessFromTT
  <2>4. HasLast(h + 1) /\ Remembers(memo, h + 1)
    BY <1>3, <2>1, Remembered
  <2>5. HasLast(h + 1)' /\ Remembers(memo, h + 1)'
    BY <2>2, <2>4, PastStays, RemembersStays
  <2> QED
    BY <1>2, <2>3, <2>5 DEF MemoryOK
<1>5. CASE ~(ProcessFromTT /\ fromTT # <<>>)
  <2>1. Heard' = h
    BY <1>0, <1>1, <1>5, Zenon
  <2>2. memory' = memory
    BY <1>5 DEF Next, MainLoop, TestingToolPublishes, UserReplies, TTListener, UIListener,
      ProcessFromTT, PublishDisplays, PublishRequest, ProcessFromUI, PublishToTT,
      CheckUsers, vars
  <2>3. PICK memo : memo = memory
    OBVIOUS
  <2>4. Remembers(memo, h)'
    BY <1>0, <1>1, <1>3, <2>3, RemembersStays
  <2> QED
    BY <1>2, <2>1, <2>2, <2>3, <2>4 DEF MemoryOK
<1> QED
  BY <1>4, <1>5

-----------------------------------------------------------------------------
(* The entries *)

LEMMA RangeFacts ==
  ASSUME NEW S, NEW q \in Seq(S)
  PROVE  /\ \A x : Range(Append(q, x)) = Range(q) \cup {x}
         /\ q # <<>> => Head(q) \in Range(q) /\ Range(Tail(q)) \subseteq Range(q)
<1>1. ASSUME NEW x PROVE Range(Append(q, x)) = Range(q) \cup {x}
  <2>1. q \in Seq(S \cup {x}) /\ x \in S \cup {x}
    OBVIOUS
  <2>2. /\ Len(q) \in Nat /\ DOMAIN q = 1..Len(q) /\ DOMAIN Append(q, x) = 1..(Len(q) + 1)
        /\ \A k \in DOMAIN q : k \in DOMAIN Append(q, x) /\ Append(q, x)[k] = q[k]
        /\ Append(q, x)[Len(q) + 1] = x
    BY <2>1, Appended
  <2>3. \A k \in DOMAIN Append(q, x) : k = Len(q) + 1 \/ k \in DOMAIN q
    BY <2>2
  <2>4. Len(q) + 1 \in DOMAIN Append(q, x)
    BY <2>2
  <2> QED
    BY <2>2, <2>3, <2>4 DEF Range
<1>2. ASSUME q # <<>> PROVE Head(q) \in Range(q) /\ Range(Tail(q)) \subseteq Range(q)
  <2>1. /\ Head(q) = q[1] /\ 1 \in DOMAIN q
        /\ \A k \in DOMAIN Tail(q) : k + 1 \in DOMAIN q /\ Tail(q)[k] = q[k + 1]
    BY <1>2, HeadTail
  <2> QED
    BY <2>1 DEF Range
<1> QED
  BY <1>1, <1>2

\* An entry that was right when it was made stays right.
LEMMA EntryStays ==
  ASSUME TypeOK, Arriving, MemoryOK, [Next]_vars, NEW e, EntryOK(e)
  PROVE  EntryOK(e)'
<1>1. /\ Heard \in Nat /\ Heard <= Len(log) /\ Len(log) \in Nat /\ DOMAIN log = 1..Len(log)
      /\ Heard' = IF ProcessFromTT /\ fromTT # <<>> THEN Heard + 1 ELSE Heard
      /\ \A i \in DOMAIN log : log'[i] = log[i]
  BY ArrivingStep, LogStep
<1>2. CASE e.kind \in {"display", "request"}
  <2>1. e.id \in 1..Heard /\ e.id \in DOMAIN log /\ e.id \in Nat /\ e.id <= Len(log)
    BY <1>1, <1>2 DEF EntryOK
  <2>2. HasLast(e.id)
    BY <1>1, <2>1 DEF MemoryOK
  <2>3. /\ LastNamed(e.id)' = LastNamed(e.id)
        /\ \A t : CapturesOf(e.id, t)' = CapturesOf(e.id, t)
    BY <2>1, <2>2, PastStays
  <2>4. e.id \in 1..Heard' /\ log'[e.id] = log[e.id]
    BY <1>1, <2>1
  <2> QED
    BY <1>2, <2>3, <2>4 DEF EntryOK
<1>3. CASE e.kind \notin {"display", "request"}
  BY <1>3 DEF EntryOK
<1> QED
  BY <1>2, <1>3

LEMMA PlainEntry ==
  ASSUME NEW e, e.tag = NoTag, e.kind \in {"echo", "waiting"}
  PROVE  EntryOK(e)'
BY DEF EntryOK, NoTag, Tag

LEMMA TagFacts ==
  ASSUME NEW memo, NEW m, m.kind = "TestCaseReady" => memo.tc = m.tc
  PROVE  \A g \in {DisplayTag(memo, m), DefaultTag(memo)} :
           /\ g.name \in {"testcase", "packets"} => g.tc = memo.tc
           /\ g.name = "logs" => memo.tc = NoTC
<1>1. /\ DefaultTag(memo).name \in {"testcase", "packets"} => DefaultTag(memo).tc = memo.tc
      /\ DefaultTag(memo).name = "logs" => memo.tc = NoTC
  BY DEF DefaultTag, Tag
<1>2. /\ OwnTag(memo, m).name \in {"testcase", "packets"} => OwnTag(memo, m).tc = memo.tc
      /\ OwnTag(memo, m).name # "logs"
  BY DEF OwnTag, NoTag, Tag
<1> QED
  BY <1>1, <1>2 DEF DisplayTag

\* The captures that come with a verdict are those that were remembered.
LEMMA FilesFacts ==
  ASSUME NEW n \in Nat, NEW memo, Remembers(memo, n), NEW m, m.kind = "TestCaseVerdict"
  PROVE  Files(memo, m) = CapturesOf(n, m.tc)
<1>1. Files(memo, m) = {c.id : c \in {d \in memo.captures : d.of = m.tc}}
  BY DEF Files
<1>2. ASSUME NEW x \in Files(memo, m) PROVE x \in CapturesOf(n, m.tc)
  <2>1. PICK c \in memo.captures : c.of = m.tc /\ x = c.id
    BY <1>1, <1>2
  <2>2. c.id \in CapturesOf(n, c.of)
    BY DEF Remembers
  <2> QED
    BY <2>1, <2>2
<1>3. ASSUME NEW j \in CapturesOf(n, m.tc) PROVE j \in Files(memo, m)
  <2>1. [id |-> j, of |-> m.tc] \in memo.captures
    BY <1>3 DEF CapturesOf, Remembers
  <2>2. [id |-> j, of |-> m.tc].id = j /\ [id |-> j, of |-> m.tc].of = m.tc
    OBVIOUS
  <2> QED
    BY <1>1, <2>1, <2>2
<1> QED
  BY <1>2, <1>3

\* The entries that are made of a message are right when they are made.
LEMMA EntriesMade ==
  ASSUME TypeOK, Arriving, MemoryOK, [Next]_vars, ProcessFromTT, fromTT # <<>>
  PROVE  \E d, r : /\ EntryOK(d)' /\ EntryOK(r)'
                   /\ display' = display \/ display' = Append(display, d)
                   /\ request' = request \/ request' = Append(request, r)
                   /\ screen' = screen
<1>1. PICK i \in Nat : i = Head(fromTT) /\ i = Heard + 1 /\ i \in DOMAIN log
                       /\ log[i] \in Messages
  BY Taken
<1>2. PICK m \in Messages : m = log[i]
  BY <1>1
<1>3. PICK memo : memo = Remember(memory, i, m)
  OBVIOUS
<1>4. PICK d : d = Shows("display", i, Addressee(m), DisplayTag(memo, m), Files(memo, m))
  OBVIOUS
<1>5. PICK r : r = Shows("request", i, Addressee(m), DefaultTag(memo), {})
  OBVIOUS
<1>6. /\ memory' = memo /\ log' = log /\ screen' = screen
      /\ display' = display \/ display' = Append(display, d)
      /\ request' = request \/ request' = Append(request, r)
  BY <1>1, <1>2, <1>3, <1>4, <1>5 DEF ProcessFromTT
<1>7. Heard' = i /\ Heard \in Nat
  BY <1>1, ArrivingStep
<1>8. Remembers(memo, i)'
  BY <1>6, <1>7, MemoryStep DEF MemoryOK
<1>9. memo.tc = LastNamed(i)'
  BY <1>8 DEF Remembers
<1>10. m.kind = "TestCaseReady" => memo.tc = m.tc
  <2>1. m.kind = "TestCaseReady" => m.tc # NoTC
    BY AdaptorAssumption DEF Messages, Answers, AnswerKinds
  <2> QED
    BY <1>3, <2>1 DEF Remember
<1>11. /\ d.tag = DisplayTag(memo, m) /\ d.kind = "display" /\ d.id = i
       /\ r.tag = DefaultTag(memo) /\ r.kind = "request" /\ r.id = i
       /\ d.files = Files(memo, m)
  BY <1>4, <1>5 DEF Shows
<1>12. \A g \in {d.tag, r.tag} :
         /\ g.name \in {"testcase", "packets"} => g.tc = LastNamed(i)'
         /\ g.name = "logs" => LastNamed(i)' = NoTC
  BY <1>9, <1>10, <1>11, TagFacts
<1>13. i \in 1..Heard'
  BY <1>1, <1>7
<1>14. log'[i] = m /\ (m.kind = "TestCaseVerdict" => d.files = CapturesOf(i, m.tc)')
  <2>1. \A t : CapturesOf(i, t)' = CapturesOf(i, t)
    BY <1>6 DEF CapturesOf
  <2>2. Remembers(memo, i)
    <3>1. LastNamed(i)' = LastNamed(i)
      BY <1>6 DEF LastNamed
    <3> QED
      BY <1>6, <1>8, <2>1, <3>1 DEF Remembers
  <2> QED
    BY <1>2, <1>6, <1>11, <2>1, <2>2, FilesFacts
<1>15. EntryOK(d)'
  BY <1>11, <1>12, <1>13, <1>14 DEF EntryOK
<1>16. EntryOK(r)'
  BY <1>11, <1>12, <1>13 DEF EntryOK
<1> QED
  BY <1>6, <1>15, <1>16

\* Entries are made, passed on and published as they are.
LEMMA EntriesStep ==
  ASSUME TypeOK, Arriving, TableOK, QueuesShort, MemoryOK, EntriesOK, [Next]_vars
  PROVE  EntriesOK'
<1>1. display \in Seq(Entries) /\ request \in Seq(Entries) /\ screen \in Seq(Entries)
  BY DEF TypeOK
<1>2. \A e \in AllEntries : EntryOK(e)'
  BY EntryStays DEF EntriesOK
<1>3. ASSUME \A e \in AllEntries' : e \in AllEntries \/ EntryOK(e)'
      PROVE  EntriesOK'
  BY <1>2, <1>3 DEF EntriesOK
<1>4. CASE ProcessFromTT /\ fromTT # <<>>
  <2>1. PICK d, r : /\ EntryOK(d)' /\ EntryOK(r)'
                    /\ display' = display \/ display' = Append(display, d)
                    /\ request' = request \/ request' = Append(request, r)
                    /\ screen' = screen
    BY <1>4, EntriesMade
  <2>3. Range(display') \subseteq Range(display) \cup {d}
    BY <1>1, <2>1, RangeFacts
  <2>4. Range(request') \subseteq Range(request) \cup {r}
    BY <1>1, <2>1, RangeFacts
  <2>2. AllEntries' \subseteq AllEntries \cup {d, r}
    BY <2>1, <2>3, <2>4 DEF AllEntries
  <2> QED
    BY <1>3, <2>1, <2>2
<1>5. CASE PublishDisplays /\ display # <<>>
  <2>1. display' = Tail(display) /\ screen' = Append(screen, Head(display)) /\ request' = request
    BY <1>5 DEF PublishDisplays
  <2>2. AllEntries' \subseteq AllEntries
    BY <1>1, <1>5, <2>1, RangeFacts DEF AllEntries
  <2> QED
    BY <1>3, <2>2
<1>6. CASE PublishRequest /\ request # <<>>
  <2>1. /\ request' = <<>> /\ display' = display
        /\ 1 \in DOMAIN request /\ screen'[Len(screen')] = request[1]
        /\ \A k \in DOMAIN screen : screen'[k] = screen[k]
        /\ \A k \in DOMAIN screen' : k \notin DOMAIN screen /\ k # Len(screen') =>
             screen'[k].kind = "waiting" /\ screen'[k].tag = NoTag
    BY <1>6, RequestPublished DEF PublishRequest
  <2>2. \A e \in Range(screen') : e \in AllEntries \/ EntryOK(e)'
    <3>1. TAKE e \in Range(screen')
    <3>2. PICK k \in DOMAIN screen' : e = screen'[k]
      BY DEF Range
    <3>3. CASE k \in DOMAIN screen
      BY <2>1, <3>2, <3>3 DEF AllEntries, Range
    <3>4. CASE k = Len(screen')
      BY <2>1, <3>2, <3>4 DEF AllEntries, Range
    <3>5. CASE k \notin DOMAIN screen /\ k # Len(screen')
      BY <2>1, <3>2, <3>5, PlainEntry
    <3> QED
      BY <3>3, <3>4, <3>5
  <2>3. \A e \in AllEntries' : e \in Range(display) \/ e \in Range(screen')
    BY <2>1 DEF AllEntries, Range
  <2> QED
    BY <1>3, <2>2, <2>3 DEF AllEntries
<1>7. CASE ProcessFromUI
  <2>1. /\ request' = request /\ screen' = screen
        /\ display' = display \/ \E e : /\ display' = Append(display, e)
                                        /\ e.kind = "echo" /\ e.tag = NoTag
    BY <1>7 DEF ProcessFromUI, Echo, Shows
  <2>2. CASE display' = display
    BY <1>3, <2>1, <2>2 DEF AllEntries
  <2>3. ASSUME NEW e, display' = Append(display, e), e.kind = "echo", e.tag = NoTag
        PROVE  EntriesOK'
    <3>1. AllEntries' \subseteq AllEntries \cup {e}
      BY <1>1, <2>1, <2>3, RangeFacts DEF AllEntries
    <3>2. EntryOK(e)'
      BY <2>3, PlainEntry
    <3> QED
      BY <1>3, <3>1, <3>2
  <2> QED
    BY <2>1, <2>2, <2>3
<1>8. CASE \/ \E c \in Contents : TestingToolPublishes(c)
           \/ \E i \in DOMAIN log, form \in Forms : UserReplies(i, form)
           \/ TTListener \/ UIListener
           \/ ProcessFromTT /\ fromTT = <<>>
           \/ PublishDisplays /\ display = <<>>
           \/ PublishRequest /\ request = <<>>
           \/ PublishToTT \/ CheckUsers \/ UNCHANGED vars
  <2>1. UNCHANGED <<display, request, screen>>
    BY <1>8 DEF TestingToolPublishes, UserReplies, TTListener, UIListener, ProcessFromTT,
      PublishDisplays, PublishRequest, PublishToTT, CheckUsers, vars
  <2> QED
    BY <1>3, <2>1 DEF AllEntries
<1> QED
  BY <1>4, <1>5, <1>6, <1>7, <1>8 DEF Next, MainLoop

Filing == MemoryOK /\ EntriesOK

LEMMA FilingHolds == Spec => [](Inv /\ Filing)
<1>1. Init => Filing
  <2> SUFFICES ASSUME Init PROVE Filing
    OBVIOUS
  <2>1. Heard = 0
    <3>1. Len(log) = 0 /\ Len(bus) = 0 /\ Len(fromTT) = 0
      BY DEF Init
    <3> QED
      BY <3>1 DEF Heard
  <2>2. MemoryOK
    <3>1. Named(0) = {} /\ HasLast(0)
      BY DEF Named, HasLast
    <3>2. LastNamed(0) = NoTC
      BY <3>1, LastNamedIs
    <3>3. Remembers(Nothing, 0)
      BY <3>2 DEF Remembers, Nothing
    <3>4. memory = Nothing
      BY DEF Init
    <3> QED
      BY <2>1, <3>1, <3>3, <3>4 DEF MemoryOK
  <2>3. EntriesOK
    BY DEF Init, EntriesOK, AllEntries, Range
  <2> QED
    BY <2>2, <2>3 DEF Filing
<1>2. Inv /\ Filing /\ [Next]_vars => Filing'
  BY MemoryStep, EntriesStep DEF Inv, Filing
<1> QED
  BY <1>1, <1>2, InitInv, NextInv, PTL DEF Spec

\* However long a message waits in the queues, what is made of it is filed under
\* the test case named last when it was heard, for any messages of the testing
\* tool and of the adaptor itself (update_state, tag_message).
THEOREM FiledWell == Spec => []FiledWithItsTestcase
<1>1. Filing => FiledWithItsTestcase
  BY DEF Filing, EntriesOK, AllEntries, Range, EntryOK, FiledWithItsTestcase
<1> QED
  BY FilingHolds, <1>1, PTL

\* A verdict is shown with the captures of its own test case and with no other's,
\* for any messages (_generate_ui_fields_for_pcap_download).
THEOREM VerdictsBringTheirCaptures == Spec => []VerdictBringsCaptures
<1>1. Filing => VerdictBringsCaptures
  <2> SUFFICES ASSUME Filing, NEW k \in DOMAIN screen, screen[k].kind = "display",
                      log[screen[k].id].kind = "TestCaseVerdict"
               PROVE  screen[k].files = CapturesOf(screen[k].id, log[screen[k].id].tc)
    BY DEF VerdictBringsCaptures, CapturesOf
  <2>1. EntryOK(screen[k])
    BY DEF Filing, EntriesOK, AllEntries, Range
  <2> QED
    BY <2>1 DEF EntryOK
<1> QED
  BY FilingHolds, <1>1, PTL
=============================================================================
