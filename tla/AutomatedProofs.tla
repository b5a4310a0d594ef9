-------------------------- MODULE AutomatedProofs --------------------------
(***************************************************************************)
(* Theorems about AutomatedSession: for every test suite, every choice of  *)
(* automated nodes and every delay of a message, a coordinator that lives  *)
(* does not wait in vain while the session goes on, unless an IUT that is  *)
(* to answer ended by an exception.                                        *)
(*                                                                         *)
(* A queue is seen as the set of its messages: only the head is ever taken *)
(* out, and the invariant tells which heads may go.                        *)
(***************************************************************************)
EXTENDS AutomatedSession, CoordinatorProofs

-----------------------------------------------------------------------------
(* Queues *)

LEMMA RangeOfTail ==
  ASSUME NEW S, NEW q \in Seq(S), q # <<>>
  PROVE  /\ Head(q) \in S /\ Tail(q) \in Seq(S)
         /\ Range(q) = {Head(q)} \cup Range(Tail(q))
<1>1. /\ Len(q) \in Nat \ {0} /\ DOMAIN q = 1..Len(q)
      /\ Head(q) = q[1] /\ Head(q) \in S
      /\ Tail(q) \in Seq(S) /\ DOMAIN Tail(q) = 1..(Len(q) - 1)
      /\ \A i \in 1..(Len(q) - 1) : Tail(q)[i] = q[i + 1]
  OBVIOUS
<1>2. Range(Tail(q)) = {q[i + 1] : i \in 1..(Len(q) - 1)}
  BY <1>1 DEF Range
<1>3. Range(q) = {q[i] : i \in 1..Len(q)}
  BY <1>1 DEF Range
<1>4. \A i \in 1..Len(q) : i = 1 \/ (i - 1 \in 1..(Len(q) - 1) /\ i = (i - 1) + 1)
  BY <1>1
<1>5. 1 \in 1..Len(q) /\ \A i \in 1..(Len(q) - 1) : i + 1 \in 1..Len(q)
  BY <1>1
<1> HIDE <1>1
<1>6. ASSUME NEW x \in Range(q) PROVE x = q[1] \/ x \in Range(Tail(q))
  <2>1. PICK i \in 1..Len(q) : x = q[i]
    BY <1>3
  <2>2. QED
    BY <1>2, <1>4, <2>1
<1>7. q[1] \in Range(q) /\ \A x \in Range(Tail(q)) : x \in Range(q)
  BY <1>2, <1>3, <1>5
<1>8. QED
  BY <1>1, <1>6, <1>7

LEMMA RangeOfAppend ==
  ASSUME NEW S, NEW q \in Seq(S), NEW x \in S
  PROVE  Append(q, x) \in Seq(S) /\ Range(Append(q, x)) = Range(q) \cup {x}
<1> DEFINE a == Append(q, x)
<1>1. /\ Len(q) \in Nat /\ DOMAIN q = 1..Len(q) /\ DOMAIN a = 1..(Len(q) + 1)
      /\ a[Len(q) + 1] = x /\ (\A i \in DOMAIN q : a[i] = q[i]) /\ a \in Seq(S)
  OBVIOUS
<1> HIDE DEF a
<1>2. /\ \A i \in DOMAIN a : i \in DOMAIN q \/ i = Len(q) + 1
      /\ DOMAIN q \cup {Len(q) + 1} = DOMAIN a
  BY <1>1
<1>3. QED
  BY <1>1, <1>2 DEF Range, a

\* Nth enumerates the set.
LEMMA NthFacts ==
  ASSUME NEW K \in SUBSET Nat, IsFiniteSet(K)
  PROVE  /\ Cardinality(K) \in Nat
         /\ \A k \in 1..Cardinality(K) : Nth(K, k) \in K
         /\ \A i \in K : \E k \in 1..Cardinality(K) : Nth(K, k) = i
<1> DEFINE n == Cardinality(K)
           upTo(i) == {j \in K : j <= i}
           rank == [i \in K |-> Cardinality(upTo(i))]
<1>1. n \in Nat
  BY FS_CardinalityType
<1>2. ASSUME NEW i \in K
      PROVE  /\ IsFiniteSet(upTo(i)) /\ i \in upTo(i)
             /\ Cardinality(upTo(i)) \in 1..n
  <2>1. upTo(i) \in SUBSET K /\ i \in upTo(i)
    OBVIOUS
  <2> HIDE DEF upTo
  <2>2. IsFiniteSet(upTo(i)) /\ Cardinality(upTo(i)) <= n
    BY <2>1, FS_Subset
  <2>3. Cardinality(upTo(i)) \in Nat /\ Cardinality(upTo(i)) # 0
    BY <2>1, <2>2, FS_CardinalityType, FS_EmptySet
  <2>4. QED
    BY <1>1, <2>1, <2>2, <2>3
<1>3. ASSUME NEW a \in K, NEW b \in K, a < b
      PROVE  Cardinality(upTo(a)) # Cardinality(upTo(b))
  <2>0. a \in Nat /\ b \in Nat /\ \A j \in K : j \in Nat
    OBVIOUS
  <2>1. upTo(a) \in SUBSET upTo(b) /\ b \in upTo(b) /\ b \notin upTo(a)
    <3>1. \A j \in K : j <= a => j <= b
      BY <1>3, <2>0
    <3>2. b <= b /\ ~(b <= a)
      BY <1>3, <2>0
    <3>3. QED
      BY <3>1, <3>2
  <2>2. IsFiniteSet(upTo(b))
    BY <1>2
  <2>3. upTo(b) # upTo(a)
    BY <2>1
  <2> HIDE DEF upTo
  <2>4. ASSUME NEW S, IsFiniteSet(S), NEW T \in SUBSET S, S # T
        PROVE  Cardinality(T) # Cardinality(S)
    BY <2>4, FS_Subset
  <2>5. QED
    BY <2>1, <2>2, <2>3, <2>4
<1>4. \A a, b \in K : rank[a] = rank[b] => a = b
  BY <1>3
<1> HIDE DEF upTo
<1>5. rank \in Injection(K, 1..n)
  BY <1>2, <1>4 DEF Injection, IsInjective
<1>6. IsFiniteSet(1..n) /\ Cardinality(1..n) = n
  BY <1>1, FS_Interval
<1>7. rank \in Surjection(K, 1..n)
  BY <1>5, <1>6, FS_Injection
<1>8. ASSUME NEW k \in 1..n PROVE Nth(K, k) \in K /\ rank[Nth(K, k)] = k
  <2>1. \E i \in K : Cardinality({j \in K : j <= i}) = k
    BY <1>7 DEF Surjection, upTo
  <2>2. Nth(K, k) \in K /\ Cardinality({j \in K : j <= Nth(K, k)}) = k
    BY <2>1 DEF Nth
  <2>3. QED
    BY <2>2 DEF upTo
<1>9. ASSUME NEW i \in K PROVE rank[i] \in 1..n /\ Nth(K, rank[i]) = i
  BY <1>2, <1>4, <1>8
<1>10. QED
  BY <1>1, <1>8, <1>9

\* What is delivered is what p acts on.
LEMMA ActedOnFacts ==
  ASSUME NEW p, NEW s \in Seq(Message)
  PROVE  /\ ActedOn(p, s) \in Seq(Message)
         /\ Range(ActedOn(p, s)) = {m \in Range(s) : ActsOn(p, m)}
<1> DEFINE K == {k \in DOMAIN s : ActsOn(p, s[k])}
           n == Cardinality(K)
           f == ActedOn(p, s)
<1>1. Len(s) \in Nat /\ DOMAIN s = 1..Len(s) /\ \A k \in DOMAIN s : s[k] \in Message
  OBVIOUS
<1>2. K \in SUBSET Nat /\ IsFiniteSet(K)
  <2>1. K \in SUBSET (1..Len(s)) /\ K \in SUBSET Nat
    BY <1>1
  <2>2. IsFiniteSet(1..Len(s))
    BY <1>1, FS_Interval
  <2> HIDE DEF K
  <2>3. QED
    BY <2>1, <2>2, FS_Subset
<1>3. f = [k \in 1..n |-> s[Nth(K, k)]]
  BY DEF ActedOn
<1>4. /\ n \in Nat
      /\ \A k \in 1..n : Nth(K, k) \in K
      /\ \A i \in K : \E k \in 1..n : Nth(K, k) = i
  <2> HIDE DEF K
  <2>1. QED
    BY <1>2, NthFacts
<1>5. \A k \in 1..n : f[k] = s[Nth(K, k)] /\ f[k] \in Message /\ f[k] \in Range(s) /\ ActsOn(p, f[k])
  BY <1>1, <1>3, <1>4 DEF Range
<1>6. f \in Seq(Message) /\ DOMAIN f = 1..n
  BY <1>3, <1>4, <1>5
<1>7. ASSUME NEW m \in Range(s), ActsOn(p, m) PROVE m \in Range(f)
  <2>1. PICK i \in K : s[i] = m
    BY <1>7 DEF Range
  <2>2. PICK k \in 1..n : Nth(K, k) = i
    BY <1>4
  <2>3. QED
    BY <1>5, <1>6, <2>1, <2>2 DEF Range
<1>8. ASSUME NEW m \in Range(f) PROVE m \in Range(s) /\ ActsOn(p, m)
  BY <1>5, <1>6 DEF Range
<1> HIDE DEF f
<1>9. QED
  BY <1>6, <1>7, <1>8 DEF f

-----------------------------------------------------------------------------
(* The inductive invariant, until the driver ends the session or the       *)
(* coordinator dies                                                        *)

Commands == [cmd  : {"configuration", "suite_start", "configured", "unaddressed",
                     "tc_start", "tc_skip", "stimuli", "verify"},
             tc   : TestCases \cup {NoTC},
             node : Agents \cup {NoNode}]

\* What is queued for the coordinator names agents and test cases that exist.
CommandOK(c) == /\ c.cmd = "configured" => c.node \in Agents
                /\ c.cmd = "tc_skip" => c.tc \in TestCases

BusOK == bus \in Seq(Commands) /\ \A c \in Range(bus) : CommandOK(c)

Answerable(m) == m.msg = "StepExecute" => Script[m.tc][m.step] \in {"stimuli", "verify"}

\* Everybody but failed IUTs consumes, and has only messages he acts on.
MailOK ==
  /\ automated \subseteq Agents
  /\ tuns \subseteq Agents
  /\ stopped \subseteq automated
  /\ DOMAIN mailbox = Parties
  /\ \A p \in Parties : /\ mailbox[p] \in Seq(Message)
                        /\ \A m \in Range(mailbox[p]) : ActsOn(p, m) /\ Answerable(m)

GoingOn == IInv /\ BusOK /\ MailOK /\ WaitingMeansOwed

SessionInv == driver # "done" /\ alive => GoingOn

\* The parts of WaitingMeansOwed, over the contents of the queues.
Holds(q, name, t, i) == \E m \in Range(q) : m.msg = name /\ m.tc = t /\ m.step = i
Queues(b, name) == \E c \in Range(b) : c.cmd = name

OwedConfig == driver = "wait" /\ fsm = "waiting_for_testsuite_config" => Queues(bus, "configuration")
OwedStart ==
  fsm = "waiting_for_testsuite_start" =>
    Holds(mailbox[Mock], "TestingToolConfigured", NoTC, 0) \/ Queues(bus, "suite_start")
OwedReady ==
  fsm = "waiting_for_testcase_start" =>
    Holds(mailbox[Mock], "TestCaseReady", current, 0) \/ Queues(bus, "tc_start")
OwedStep ==
  fsm = "waiting_for_step_executed" /\ Attended(current, tc[current].pos) =>
    LET i == tc[current].pos IN
    \/ Executor(current, i) \in stopped
    \/ Holds(mailbox[Executor(current, i)], "StepExecute", current, i)
    \/ Queues(bus, Script[current][i])

OwedInParts ==
  driver # "done" /\ alive =>
    (WaitingMeansOwed <=> OwedConfig /\ OwedStart /\ OwedReady /\ OwedStep)

LEMMA OwedParts == OwedInParts
<1>1. \A p, name, t, i : InMail(p, name, t, i) <=> Holds(mailbox[p], name, t, i)
  BY DEF InMail, Holds, Range
<1>2. \A name : OnBus(name) <=> Queues(bus, name)
  BY DEF OnBus, Queues, Range
<1>3. QED
  BY <1>1, <1>2 DEF OwedInParts, WaitingMeansOwed, OwedConfig, OwedStart, OwedReady, OwedStep

LEMMA NextOwedParts == OwedInParts'
BY OwedParts, PTL

LEMMA SessionInitInv == SessionInit => SessionInv
<1> SUFFICES ASSUME SessionInit PROVE GoingOn
  BY DEF SessionInv
<1>1. IInv
  BY InitOK DEF SessionInit
<1>2. Range(<<>>) = {} /\ <<>> \in Seq(Commands) /\ <<>> \in Seq(Message)
  BY RangeSent
<1>3. BusOK
  BY <1>2 DEF SessionInit, BusOK
<1>4. MailOK
  <2>1. automated \in SUBSET Agents /\ tuns \in SUBSET Agents
    BY SetupAssumption DEF SessionInit
  <2>2. QED
    BY <1>2, <2>1 DEF SessionInit, MailOK
<1>5. WaitingMeansOwed
  BY DEF SessionInit, Init, WaitingMeansOwed
<1>6. QED
  BY <1>1, <1>3, <1>4, <1>5 DEF GoingOn

-----------------------------------------------------------------------------
(* The coordinator's steps *)

LEMMA CommandDoes ==
  ASSUME NEW c \in Commands, CommandOK(c), HandleCommand(c)
  PROVE  Next \/ Dropped
<1>1. <<TestCases, {}>> \in Requested
  <2>1. 1 \in TestCases
    BY ScriptAssumption DEF TestCases
  <2> DEFINE p == <<TestCases, {}>>
  <2>2. /\ p \in (SUBSET TestCases) \X (SUBSET TestCases)
        /\ p[1] = TestCases /\ p[2] = {}
    OBVIOUS
  <2>3. p[1] \cap p[2] = {} /\ ~(p[1] = {} \/ p[2] # {})
    BY <2>1, <2>2
  <2>4. QED
    BY <2>2, <2>3 DEF Requested
<1>2. ConfigureTestsuite(TestCases, {}) => Next
  BY <1>1 DEF Next
<1>3. \A sources : Ignored(sources) => Dropped
  BY DEF Ignored, Dropped
<1>4. \A a \in Answers : StepAnswered(a) => Next \/ Dropped
  BY <1>3 DEF StepAnswered, Next
<1>5. "stimuli" \in Answers /\ "verify true" \in Answers
  BY DEF Answers
<1>6. QED
  BY <1>2, <1>3, <1>4, <1>5 DEF HandleCommand, CommandOK, Next

\* A command that the coordinator waits for takes it out of the state it waits in.
LEMMA CommandAdvances ==
  ASSUME NEW c, HandleCommand(c)
  PROVE  /\ c.cmd = "configuration" /\ fsm = "waiting_for_testsuite_config"
              => fsm' = "waiting_for_testsuite_start"
         /\ c.cmd = "suite_start" /\ fsm = "waiting_for_testsuite_start"
              => fsm' \notin NotStarted
         /\ c.cmd = "tc_start" /\ fsm = "waiting_for_testcase_start"
              => fsm' = "waiting_for_step_executed"
         /\ c.cmd \in {"stimuli", "verify"} /\ fsm = "waiting_for_step_executed" => Next
<1>1. \A s, wanted, sent : PrepareNextTestcase(s, wanted, sent) => fsm' \notin NotStarted
  BY DEF PrepareNextTestcase, NotStarted
<1>2. StartTestcase => fsm' = "waiting_for_step_executed"
  BY DEF StartTestcase, ExecuteNextStep
<1>3. \A a \in Answers : \A tat \in TatVerdicts : StepExecuted(a, TRUE, tat) => Next
  BY DEF Next
<1>4. "stimuli" \in Answers /\ "verify true" \in Answers
  BY DEF Answers
<1>5. QED
  BY <1>1, <1>2, <1>3, <1>4
     DEF HandleCommand, Ignored, ConfigureTestsuite, StartTestsuite, StepAnswered, NotStarted

\* The state in which the coordinator waits for the suite's start is announced.
LEMMA StartAnnounced ==
  ASSUME IInv, Next
  PROVE  /\ fsm' = "waiting_for_testsuite_config" => fsm = "waiting_for_testsuite_config"
         /\ fsm' = "waiting_for_testsuite_start" =>
              fsm = "waiting_for_testsuite_start" \/ out' = Sent("TestingToolConfigured", NoTC)
<1>1. \A s, wanted, sent : PrepareNextTestcase(s, wanted, sent) => fsm' \notin NotStarted
  BY DEF PrepareNextTestcase, NotStarted
<1>2. \A s, before, after : ExecuteNextStep(s, before, after) => fsm' \notin NotStarted
  BY DEF ExecuteNextStep, NotStarted
<1>3. \A s : FailToFinish(s) => fsm' \notin NotStarted
  BY DEF FailToFinish, NotStarted
<1>4. \A a, captured, tat : StepExecuted(a, captured, tat) => fsm' \notin NotStarted
  BY <1>1, <1>2, <1>3 DEF StepExecuted, FinishTestcase
<1>5. FatalEvents => fsm' = fsm
  BY FatalEventsEnd DEF Ended
<1>6. QED
  BY <1>1, <1>2, <1>4, <1>5 DEF Next, FatalEvents, ConfigureTestsuite, StartTestsuite,
     IutConfigurationExecuted, IutConfigurationTimeout, StartTestcase,
     RestartTestcase, SelectTestcase, SkipCurrentTestcase,
     SkipOtherTestcase, SkipUnknownTestcase, Dies, NotStarted

\* What p gets of the publications.
Delivered(p) == IF p \in stopped THEN {} ELSE {m \in Range(out') : ActsOn(p, m)}

\* The coordinator's step on its queue and its publications.
LEMMA CoordinatorDoes ==
  ASSUME GoingOn, CoordinatorStep
  PROVE  /\ IInv' /\ (Next \/ Dropped)
         /\ out' \in Seq(Message)
         /\ UNCHANGED <<automated, driver, stopped>>
         /\ bus' \in Seq(Commands) /\ Range(bus') \subseteq Range(bus)
         /\ \A c \in Range(bus) : c \in Range(bus') \/ HandleCommand(c)
         /\ \A p \in Parties :
              /\ mailbox'[p] \in Seq(Message)
              /\ Range(mailbox'[p]) = Range(mailbox[p]) \cup Delivered(p)
<1>1. IInv /\ BusOK /\ MailOK
  BY DEF GoingOn
<1>2. /\ Next \/ Dropped
      /\ bus' \in Seq(Commands) /\ Range(bus') \subseteq Range(bus)
      /\ \A c \in Range(bus) : c \in Range(bus') \/ HandleCommand(c)
  <2>1. CASE bus # <<>> /\ HandleCommand(Head(bus)) /\ bus' = Tail(bus)
    <3>1. /\ Head(bus) \in Commands /\ Tail(bus) \in Seq(Commands)
          /\ Range(bus) = {Head(bus)} \cup Range(Tail(bus))
      BY <1>1, <2>1, RangeOfTail DEF BusOK
    <3>2. CommandOK(Head(bus))
      BY <1>1, <3>1 DEF BusOK
    <3>3. Next \/ Dropped
      BY <2>1, <3>1, <3>2, CommandDoes
    <3>4. QED
      BY <2>1, <3>1, <3>3
  <2>2. CASE IutConfigurationTimeout /\ UNCHANGED bus
    BY <1>1, <2>2 DEF Next, BusOK
  <2>3. QED
    BY <2>1, <2>2 DEF CoordinatorStep
<1>3. IInv' /\ out' \in Seq(Message)
  <2>1. IInv'
    BY <1>1, <1>2, StepOK, DroppedOK
  <2>2. QED
    BY <2>1 DEF IInv, TypeOK
<1>4. ASSUME NEW p \in Parties
      PROVE  /\ mailbox'[p] \in Seq(Message)
             /\ Range(mailbox'[p]) = Range(mailbox[p]) \cup Delivered(p)
  <2>1. mailbox[p] \in Seq(Message)
    BY <1>1 DEF MailOK
  <2>2. CASE p \in stopped
    BY <2>1, <2>2 DEF CoordinatorStep, Deliver, Delivered
  <2>3. CASE p \notin stopped
    <3>1. mailbox'[p] = mailbox[p] \o ActedOn(p, out')
      BY <2>3 DEF CoordinatorStep, Deliver
    <3>2. ActedOn(p, out') \in Seq(Message) /\ Range(ActedOn(p, out')) = Delivered(p)
      BY <1>3, <2>3, ActedOnFacts DEF Delivered
    <3>3. QED
      BY <2>1, <3>1, <3>2, RangeConcat, ConcatType
  <2>4. QED
    BY <2>2, <2>3
<1>5. QED
  BY <1>2, <1>3, <1>4 DEF CoordinatorStep

\* The step that the machine waits for is one that somebody answers.
StepHasAnswer ==
  IInv /\ fsm = "waiting_for_step_executed" =>
    LET i == tc[current].pos IN
    /\ current \in TestCases
    /\ Script[current][i] \in {"stimuli", "verify"}
    /\ Attended(current, i) => ActsOn(Executor(current, i), StepAsked)
    /\ Executor(current, i) \in Parties
    /\ Answerable(StepAsked)

LEMMA StepIsAnswerable == StepHasAnswer
<1> SUFFICES ASSUME IInv, fsm = "waiting_for_step_executed"
             PROVE  LET i == tc[current].pos IN
                    /\ current \in TestCases
                    /\ Script[current][i] \in {"stimuli", "verify"}
                    /\ Attended(current, i) => ActsOn(Executor(current, i), StepAsked)
                    /\ Executor(current, i) \in Parties
                    /\ Answerable(StepAsked)
  BY DEF StepHasAnswer
<1> DEFINE i == tc[current].pos
<1>1. /\ current \in TestCases /\ i \in Steps(current)
      /\ Script[current][i] \in {"stimuli", "verify"}
  BY CurrentStep
<1>2. StepNode[current][i] \in Agents /\ Mock \notin Agents /\ Log \notin Agents
  BY <1>1, SetupAssumption
<1>3. StepAsked = Msg("StepExecute", current, i)
  BY DEF StepAsked
<1> HIDE DEF i
<1>4. /\ StepAsked.msg = "StepExecute" /\ StepAsked.tc = current /\ StepAsked.step = i
      /\ TypeOf(StepAsked) = Script[current][i] /\ NodeOf(StepAsked) = StepNode[current][i]
  BY <1>3 DEF Msg, TypeOf, NodeOf
<1>5. ASSUME Attended(current, i) PROVE ActsOn(Executor(current, i), StepAsked)
  <2>1. CASE StepNode[current][i] \in automated
    BY <1>2, <1>4, <2>1 DEF ActsOn, Executor
  <2>2. CASE StepNode[current][i] \notin automated
    BY <1>1, <1>4, <1>5, <2>2 DEF ActsOn, Executor, Attended, Mock, Log
  <2>3. QED
    BY <2>1, <2>2
<1>6. Executor(current, i) \in Parties
  BY DEF Executor, Parties
<1>7. QED
  BY <1>1, <1>4, <1>5, <1>6 DEF i, Answerable

LEMMA NextStepIsAnswerable == StepHasAnswer'
BY StepIsAnswerable, PTL

LEMMA CoordinatorKeeps ==
  ASSUME GoingOn, CoordinatorStep, driver' # "done", alive'
  PROVE  GoingOn'
<1>1. IInv /\ BusOK /\ MailOK /\ OwedConfig /\ OwedStart /\ OwedReady /\ OwedStep
  BY CoordinatorDoes, OwedParts DEF OwedInParts, GoingOn, CoordinatorStep
<1>2. /\ IInv' /\ (Next \/ Dropped)
      /\ out' \in Seq(Message)
      /\ UNCHANGED <<automated, driver, stopped>>
      /\ bus' \in Seq(Commands) /\ Range(bus') \subseteq Range(bus)
      /\ \A c \in Range(bus) : c \in Range(bus') \/ HandleCommand(c)
      /\ \A p \in Parties :
           /\ mailbox'[p] \in Seq(Message)
           /\ Range(mailbox'[p]) = Range(mailbox[p]) \cup Delivered(p)
  BY CoordinatorDoes
<1>3. Mock \in Parties /\ Parties' = Parties /\ \A p, m : ActsOn(p, m)' <=> ActsOn(p, m)
  BY <1>2 DEF Parties, ActsOn
<1>4. Delivered(Mock) = {m \in Range(out') : ActsOn(Mock, m)}
  BY <1>1, SetupAssumption DEF Delivered, MailOK
<1>5. Next => Asks(out') = IF fsm' = "waiting_for_step_executed" THEN {StepAsked'} ELSE {}
  BY <1>1, EventsAskRight DEF AsksRight, ToAsk, Asks
<1>6. Dropped => Range(out') = {}
  BY RangeSent DEF Dropped
<1>7. BusOK'
  BY <1>1, <1>2 DEF BusOK, CommandOK
<1>8. MailOK'
  <2>1. /\ tuns' \subseteq Agents /\ stopped' \subseteq automated'
        /\ DOMAIN mailbox' = Parties
    BY <1>1, <1>2 DEF CoordinatorStep, Deliver, MailOK
  <2>2. ASSUME NEW m \in Range(out') PROVE Answerable(m)
    <3>1. CASE m.msg # "StepExecute"
      BY <3>1 DEF Answerable
    <3>2. CASE m.msg = "StepExecute"
      <4>1. Next /\ m \in Asks(out')
        BY <1>2, <1>6, <3>2 DEF Asks, Asking
      <4>2. fsm' = "waiting_for_step_executed" /\ m = StepAsked'
        BY <1>5, <4>1
      <4>3. Answerable(m)'
        BY <1>2, <4>2, NextStepIsAnswerable DEF StepHasAnswer, Answerable
      <4>4. QED
        BY <4>3 DEF Answerable
    <3>3. QED
      BY <3>1, <3>2
  <2>3. QED
    BY <1>1, <1>2, <1>3, <2>1, <2>2 DEF MailOK, Answerable, Delivered
<1>9. \A name : Queues(bus, name) =>
        Queues(bus', name) \/ \E c \in Range(bus) : c.cmd = name /\ HandleCommand(c)
  BY <1>2 DEF Queues
<1>10. \A p \in Parties : \A name, t, i : Holds(mailbox[p], name, t, i) => Holds(mailbox'[p], name, t, i)
  BY <1>2 DEF Holds
<1>11. OwedConfig'
  <2> SUFFICES ASSUME driver' = "wait", fsm' = "waiting_for_testsuite_config"
               PROVE  Queues(bus', "configuration")
    BY DEF OwedConfig
  <2>1. fsm = "waiting_for_testsuite_config" /\ driver = "wait"
    BY <1>1, <1>2, StartAnnounced DEF Dropped
  <2>2. QED
    BY <1>1, <1>9, <2>1, CommandAdvances DEF OwedConfig
<1>12. OwedStart'
  <2> SUFFICES ASSUME fsm' = "waiting_for_testsuite_start"
               PROVE  Holds(mailbox'[Mock], "TestingToolConfigured", NoTC, 0) \/ Queues(bus', "suite_start")
    BY DEF OwedStart
  <2>1. CASE fsm = "waiting_for_testsuite_start"
    BY <1>1, <1>3, <1>9, <1>10, <2>1, CommandAdvances DEF OwedStart, NotStarted
  <2>2. CASE out' = Sent("TestingToolConfigured", NoTC)
    <3>1. Msg("TestingToolConfigured", NoTC, 0) \in Range(out')
      BY <2>2, RangeSent
    <3>2. ActsOn(Mock, Msg("TestingToolConfigured", NoTC, 0))
      BY DEF ActsOn, Msg, Mock, Log
    <3>3. QED
      BY <1>2, <1>3, <1>4, <3>1, <3>2 DEF Holds, Msg
  <2>3. QED
    BY <1>1, <1>2, <2>1, <2>2, StartAnnounced DEF Dropped
<1>13. OwedReady'
  <2> SUFFICES ASSUME fsm' = "waiting_for_testcase_start"
               PROVE  Holds(mailbox'[Mock], "TestCaseReady", current', 0) \/ Queues(bus', "tc_start")
    BY DEF OwedReady
  <2>1. current' # NoTC
    BY <1>2, SetupAssumption DEF IInv, CurrentKept, Ongoing
  <2>2. CASE fsm = "waiting_for_testcase_start" /\ current' = current
    BY <1>1, <1>3, <1>9, <1>10, <2>2, CommandAdvances DEF OwedReady
  <2>3. CASE out' = Sent("TestCaseReady", current')
    <3>1. Msg("TestCaseReady", current', 0) \in Range(out')
      BY <2>3, RangeSent
    <3>2. ActsOn(Mock, Msg("TestCaseReady", current', 0))
      BY DEF ActsOn, Msg, Mock, Log
    <3>3. QED
      BY <1>2, <1>3, <1>4, <3>1, <3>2 DEF Holds, Msg
  <2>4. QED
    BY <1>1, <1>2, <2>1, <2>2, <2>3, ReadyAnnounced DEF Dropped
<1>14. OwedStep'
  <2> DEFINE i == tc'[current'].pos
  <2>0. PICK p : p = IF StepNode[current'][i] \in automated THEN StepNode[current'][i] ELSE Mock
    OBVIOUS
  <2> SUFFICES ASSUME fsm' = "waiting_for_step_executed", Attended(current, tc[current].pos)'
               PROVE  \/ p \in stopped
                      \/ Holds(mailbox'[p], "StepExecute", current', i)
                      \/ Queues(bus', Script[current'][i])
    BY <1>2, <2>0 DEF OwedStep, Executor
  <2>1. CASE Next
    <3>1. StepAsked' \in Range(out')
      BY <1>5, <2>1 DEF Asks, Asking
    <3>2. p \in Parties /\ ActsOn(p, StepAsked')
      <4>1. p \in Parties' /\ ActsOn(p, StepAsked)'
        BY <1>2, <2>0, NextStepIsAnswerable DEF StepHasAnswer, Executor
      <4>2. QED
        BY <1>2, <1>3, <4>1 DEF ActsOn
    <3>3. StepAsked'.msg = "StepExecute" /\ StepAsked'.tc = current' /\ StepAsked'.step = i
      BY DEF StepAsked, Msg
    <3>4. QED
      BY <1>2, <3>1, <3>2, <3>3 DEF Holds, Delivered
  <2>2. CASE ~Next
    <3>1. Dropped
      BY <1>2, <2>2
    <3>2. /\ fsm = "waiting_for_step_executed" /\ current' = current /\ i = tc[current].pos
          /\ p = Executor(current, tc[current].pos) /\ Attended(current, tc[current].pos)
      BY <1>2, <2>0, <3>1 DEF Dropped, Executor, Attended
    <3>3. Script[current][i] \in {"stimuli", "verify"} /\ p \in Parties
      BY <1>1, <3>2, StepIsAnswerable DEF StepHasAnswer
    <3>4. \/ p \in stopped
          \/ Holds(mailbox[p], "StepExecute", current, i)
          \/ Queues(bus, Script[current][i])
      BY <1>1, <3>2 DEF OwedStep
    <3>5. QED
      BY <1>9, <1>10, <2>2, <3>2, <3>3, <3>4, CommandAdvances
  <2>3. QED
    BY <2>1, <2>2
<1>15. QED
  BY <1>2, <1>7, <1>8, <1>11, <1>12, <1>13, <1>14, NextOwedParts DEF OwedInParts, GoingOn

-----------------------------------------------------------------------------
(* The steps of the others *)

\* What is queued for the coordinator stays queued.
LEMMA Queueing ==
  ASSUME BusOK, NEW c \in Commands, CommandOK(c), Publish(c)
  PROVE  BusOK' /\ Range(bus') = Range(bus) \cup {c} /\ Queues(bus', c.cmd)
<1>1. bus' \in Seq(Commands) /\ Range(bus') = Range(bus) \cup {c}
  BY RangeOfAppend DEF BusOK, Publish
<1>2. QED
  BY <1>1 DEF BusOK, CommandOK, Queues

\* Whoever takes a message that somebody waits for queues the reaction.
LEMMA PartyReacts ==
  ASSUME GoingOn, NEW p \in Agents \cup {Mock, Log}, PartyStep(p), ~IutFails(p)
  PROVE  /\ UNCHANGED <<vars, automated, tuns, driver, stopped>>
         /\ p \in Parties /\ mailbox[p] # <<>>
         /\ mailbox' = [mailbox EXCEPT ![p] = Tail(@)]
         /\ BusOK' /\ Range(bus) \subseteq Range(bus')
         /\ LET h == Head(mailbox[p]) IN
            /\ p = Mock /\ h.msg = "TestingToolConfigured" => Queues(bus', "suite_start")
            /\ p = Mock /\ h.msg = "TestCaseReady" => Queues(bus', "tc_start")
            /\ h.msg = "StepExecute" => Queues(bus', Script[h.tc][h.step])
<1> DEFINE h == Head(mailbox[p])
<1>1. BusOK /\ MailOK /\ automated \subseteq Agents /\ Mock \notin Agents /\ Log \notin Agents /\ Mock # Log
  BY SetupAssumption DEF GoingOn, MailOK, Mock, Log
<1>2. PICK name : Takes(p, name)
  BY DEF PartyStep, MockStartsSuite, MockStartsTestcase, MockVerifies, LogSeesReport, IutSkips,
     IutConfigures, IutExecutes, Stops
<1>3. /\ p \in Parties /\ mailbox[p] # <<>>
      /\ mailbox' = [mailbox EXCEPT ![p] = Tail(@)]
      /\ UNCHANGED <<vars, automated, tuns, driver>>
  BY <1>2 DEF Takes
<1>4. mailbox[p] \in Seq(Message) /\ h \in Message /\ h \in Range(mailbox[p])
  BY <1>1, <1>3, RangeOfTail DEF MailOK
<1>5. ActsOn(p, h) /\ Answerable(h)
  BY <1>1, <1>3, <1>4 DEF MailOK
<1>6. \A n \in Agents \cup {NoNode} : \A c \in {"suite_start", "tc_start", "stimuli", "verify"} :
        /\ Command(c, NoTC, n) \in Commands /\ CommandOK(Command(c, NoTC, n))
        /\ Command(c, NoTC, n).cmd = c
  BY DEF Command, Commands, CommandOK
<1>7. UNCHANGED bus => BusOK' /\ Range(bus) \subseteq Range(bus')
  BY <1>1 DEF BusOK, CommandOK
<1> HIDE DEF h
<1> DEFINE Goal ==
      /\ UNCHANGED stopped
      /\ BusOK' /\ Range(bus) \subseteq Range(bus')
      /\ p = Mock /\ h.msg = "TestingToolConfigured" => Queues(bus', "suite_start")
      /\ p = Mock /\ h.msg = "TestCaseReady" => Queues(bus', "tc_start")
      /\ h.msg = "StepExecute" => Queues(bus', Script[h.tc][h.step])
<1> SUFFICES Goal
  BY <1>3 DEF h
<1>8. CASE p = Mock /\ MockStartsSuite
  <2>1. /\ h.msg = "TestingToolConfigured" /\ UNCHANGED stopped
        /\ Publish(Command("suite_start", NoTC, NoNode))
    BY <1>8 DEF MockStartsSuite, Takes, StaysOn, h
  <2>2. QED
    BY <1>1, <1>6, <2>1, Queueing
<1>9. CASE p = Mock /\ MockStartsTestcase
  <2>1. /\ h.msg = "TestCaseReady" /\ UNCHANGED stopped
        /\ Publish(Command("tc_start", NoTC, NoNode))
    BY <1>9 DEF MockStartsTestcase, Takes, StaysOn, h
  <2>2. QED
    BY <1>1, <1>6, <2>1, Queueing
<1>10. CASE p = Mock /\ MockVerifies
  <2>1. /\ h.msg = "StepExecute" /\ UNCHANGED stopped
        /\ Publish(Command("verify", NoTC, NoNode))
    BY <1>10 DEF MockVerifies, Takes, StaysOn, h
  <2>2. Script[h.tc][h.step] = "verify"
    BY <1>5, <1>10, <2>1 DEF ActsOn, TypeOf, Mock, Log
  <2>3. QED
    BY <1>1, <1>6, <2>1, <2>2, Queueing
<1>11. CASE p = Log /\ LogSeesReport
  <2>1. h.msg = "TestSuiteReport" /\ UNCHANGED <<bus, stopped>>
    BY <1>11 DEF LogSeesReport, Takes, h
  <2>2. QED
    BY <1>7, <2>1
<1>12. CASE p \in automated /\ IutSkips(p)
  <2>1. /\ h.msg = "TestCaseReady" /\ UNCHANGED stopped
        /\ Publish(Command("tc_skip", h.tc, NoNode))
    BY <1>12 DEF IutSkips, Takes, StaysOn, h
  <2>2. p # Mock /\ p # Log
    BY <1>1, <1>12
  <2>3. h.tc \in TestCases
    BY <1>1, <1>5, <1>12, <2>1, <2>2, SetupAssumption DEF ActsOn
  <2>4. LET c == Command("tc_skip", h.tc, NoNode) IN c \in Commands /\ CommandOK(c)
    BY <2>3 DEF Command, Commands, CommandOK
  <2>5. QED
    BY <1>1, <2>1, <2>2, <2>4, Queueing
<1>13. CASE p \in automated /\ IutConfigures(p)
  <2>1. /\ h.msg = "ConfigurationExecute" /\ UNCHANGED stopped
        /\ \/ Publish(Command("configured", NoTC, p))
           \/ Publish(Command("unaddressed", NoTC, p))
           \/ UNCHANGED bus
    BY <1>13 DEF IutConfigures, Takes, StaysOn, h
  <2>2. \A reply \in {"configured", "unaddressed"} :
          LET c == Command(reply, NoTC, p) IN c \in Commands /\ CommandOK(c)
    BY <1>1, <1>13 DEF Command, Commands, CommandOK
  <2>3. QED
    BY <1>1, <1>7, <2>1, <2>2, Queueing
<1>14. CASE p \in automated /\ IutExecutes(p)
  <2>1. /\ h.msg = "StepExecute" /\ UNCHANGED stopped
        /\ Publish(Command(Script[h.tc][h.step], NoTC, p))
    BY <1>14 DEF IutExecutes, Takes, StaysOn, TypeOf, h
  <2>2. Script[h.tc][h.step] \in {"stimuli", "verify"} /\ p \in Agents
    BY <1>1, <1>5, <1>14, <2>1 DEF Answerable
  <2>3. QED
    BY <1>1, <1>6, <2>1, <2>2, Queueing
<1>15. ~Stops(p)
  <2>1. h.msg # "TestingToolTerminate"
    BY <1>4 DEF Message, Notices
  <2>2. QED
    BY <2>1 DEF Stops, Takes, h
<1>16. QED
  BY <1>8, <1>9, <1>10, <1>11, <1>12, <1>13, <1>14, <1>15 DEF PartyStep

\* While the coordinator stands still, what it is owed stays owed if whatever
\* leaves a mailbox leaves its reaction on the bus.
LEMMA PartyKeeps ==
  ASSUME GoingOn, NEW p \in Agents \cup {Mock, Log}, PartyStep(p), ~IutFails(p),
         driver' # "done", alive'
  PROVE  GoingOn'
<1> DEFINE h == Head(mailbox[p])
<1>1. /\ IInv /\ BusOK /\ MailOK /\ driver # "done"
      /\ UNCHANGED <<vars, automated, tuns, driver, stopped>>
      /\ p \in Parties /\ mailbox[p] # <<>>
      /\ mailbox' = [mailbox EXCEPT ![p] = Tail(@)]
      /\ BusOK' /\ Range(bus) \subseteq Range(bus')
      /\ p = Mock /\ h.msg = "TestingToolConfigured" => Queues(bus', "suite_start")
      /\ p = Mock /\ h.msg = "TestCaseReady" => Queues(bus', "tc_start")
      /\ h.msg = "StepExecute" => Queues(bus', Script[h.tc][h.step])
  BY PartyReacts DEF GoingOn
<1>2. OwedConfig /\ OwedStart /\ OwedReady /\ OwedStep
  BY <1>1, OwedParts DEF OwedInParts, GoingOn, vars
<1>3. /\ h \in Range(mailbox[p]) /\ mailbox'[p] \in Seq(Message)
      /\ Range(mailbox[p]) = {h} \cup Range(mailbox'[p])
  BY <1>1, RangeOfTail DEF MailOK
<1> HIDE DEF h
<1>4. \A q \in Parties \ {p} : mailbox'[q] = mailbox[q]
  BY <1>1 DEF MailOK
<1>5. /\ Parties' = Parties /\ Mock \in Parties
      /\ \A q, m : ActsOn(q, m)' <=> ActsOn(q, m)
      /\ UNCHANGED <<alive, fsm, current, tc, selection, nodes, sessionReport, out>>
  BY <1>1 DEF Parties, ActsOn, vars
<1>6. IInv'
  BY <1>1, StepOK
<1>7. MailOK'
  BY <1>1, <1>3, <1>4, <1>5 DEF MailOK, Answerable
<1>8. \A name : Queues(bus, name) => Queues(bus', name)
  BY <1>1 DEF Queues
<1>9. ASSUME NEW q \in Parties, NEW name, NEW t, NEW i, Holds(mailbox[q], name, t, i)
      PROVE  \/ Holds(mailbox'[q], name, t, i)
             \/ q = p /\ h.msg = name /\ h.tc = t /\ h.step = i
  BY <1>3, <1>4, <1>9 DEF Holds
<1>10. OwedConfig' /\ OwedStart' /\ OwedReady'
  BY <1>1, <1>2, <1>5, <1>8, <1>9 DEF OwedConfig, OwedStart, OwedReady
<1>11. OwedStep'
  <2> DEFINE i == tc[current].pos
             q == Executor(current, i)
  <2> SUFFICES ASSUME fsm = "waiting_for_step_executed", Attended(current, i)
               PROVE  \/ q \in stopped
                      \/ Holds(mailbox'[q], "StepExecute", current, i)
                      \/ Queues(bus', Script[current][i])
    BY <1>1, <1>5 DEF OwedStep, Executor, Attended
  <2>1. q \in Parties
    BY <1>1, StepIsAnswerable DEF StepHasAnswer
  <2>2. \/ q \in stopped
        \/ Holds(mailbox[q], "StepExecute", current, i)
        \/ Queues(bus, Script[current][i])
    BY <1>2 DEF OwedStep
  <2> HIDE DEF i, q
  <2>3. QED
    BY <1>1, <1>8, <1>9, <2>1, <2>2
<1>12. QED
  BY <1>1, <1>6, <1>7, <1>10, <1>11, NextOwedParts DEF OwedInParts, GoingOn

\* An IUT that fails takes with it what it was to react to, and nothing else.
LEMMA FailureKeeps ==
  ASSUME GoingOn, NEW n \in automated, IutFails(n), driver' # "done", alive'
  PROVE  GoingOn'
<1>1. /\ mailbox' = [mailbox EXCEPT ![n] = <<>>]
      /\ stopped' = stopped \cup {n}
      /\ UNCHANGED <<alive, fsm, current, tc, selection, nodes, sessionReport, out>>
      /\ UNCHANGED <<automated, bus, tuns, driver>>
  BY DEF IutFails, vars
<1>2. IInv /\ BusOK /\ MailOK /\ OwedConfig /\ OwedStart /\ OwedReady /\ OwedStep
  BY <1>1, OwedParts DEF OwedInParts, GoingOn
<1>3. IInv' /\ BusOK'
  <2>1. UNCHANGED vars
    BY <1>1 DEF vars
  <2>2. QED
    BY <1>1, <1>2, <2>1, StepOK DEF BusOK, CommandOK
<1>4. /\ n \in Parties /\ n # Mock /\ Mock \in Parties
      /\ Parties' = Parties /\ \A q, m : ActsOn(q, m)' <=> ActsOn(q, m)
  BY <1>1, <1>2, SetupAssumption DEF Parties, ActsOn, MailOK
<1>5. /\ mailbox'[n] = <<>> /\ DOMAIN mailbox' = Parties
      /\ \A q \in Parties \ {n} : mailbox'[q] = mailbox[q]
  BY <1>1, <1>2, <1>4 DEF MailOK
<1>6. MailOK'
  <2>1. <<>> \in Seq(Message) /\ Range(<<>>) = {}
    BY RangeSent
  <2>2. QED
    BY <1>1, <1>2, <1>4, <1>5, <2>1 DEF MailOK, Answerable
<1>7. OwedConfig' /\ OwedStart' /\ OwedReady'
  BY <1>1, <1>2, <1>4, <1>5 DEF OwedConfig, OwedStart, OwedReady
<1>8. OwedStep'
  <2> DEFINE i == tc[current].pos
             q == Executor(current, i)
  <2> SUFFICES ASSUME fsm = "waiting_for_step_executed", Attended(current, i)
               PROVE  \/ q \in stopped'
                      \/ Holds(mailbox'[q], "StepExecute", current, i)
                      \/ Queues(bus, Script[current][i])
    BY <1>1 DEF OwedStep, Executor, Attended
  <2>1. q \in Parties
    BY <1>2, StepIsAnswerable DEF StepHasAnswer
  <2>2. \/ q \in stopped
        \/ Holds(mailbox[q], "StepExecute", current, i)
        \/ Queues(bus, Script[current][i])
    BY <1>2 DEF OwedStep
  <2> HIDE DEF i, q
  <2>3. QED
    BY <1>1, <1>5, <2>1, <2>2
<1>9. QED
  BY <1>1, <1>3, <1>6, <1>7, <1>8, NextOwedParts DEF OwedInParts, GoingOn

\* An agent or the driver adds to the bus.
LEMMA OtherStepsKeep ==
  ASSUME GoingOn, driver # "done", driver' # "done", alive, alive',
         (\E a \in Agents : AgentAnnounces(a)) \/ DriverStep \/ UNCHANGED sessionVars
  PROVE  GoingOn'
<1>1. IInv /\ BusOK /\ MailOK /\ OwedConfig /\ OwedStart /\ OwedReady /\ OwedStep
  BY OwedParts DEF OwedInParts, GoingOn
<1>2. ASSUME BusOK', Range(bus) \subseteq Range(bus'), tuns' \subseteq Agents,
             UNCHANGED <<vars, automated, mailbox, stopped>>,
             driver' = driver \/ Queues(bus', "configuration")
      PROVE  GoingOn'
  <2>1. /\ Parties' = Parties /\ \A q, m : ActsOn(q, m)' <=> ActsOn(q, m)
        /\ UNCHANGED <<alive, fsm, current, tc, selection, nodes, sessionReport, out>>
    BY <1>2 DEF Parties, ActsOn, vars
  <2>2. IInv'
    BY <1>1, <1>2, StepOK
  <2>3. MailOK'
    BY <1>1, <1>2, <2>1 DEF MailOK, Answerable
  <2>4. \A name : Queues(bus, name) => Queues(bus', name)
    BY <1>2 DEF Queues
  <2>5. OwedConfig' /\ OwedStart' /\ OwedReady'
    BY <1>1, <1>2, <2>1, <2>4 DEF OwedConfig, OwedStart, OwedReady
  <2>6. OwedStep'
    BY <1>1, <1>2, <2>1, <2>4 DEF OwedStep, Executor, Attended
  <2>7. QED
    BY <1>2, <2>2, <2>3, <2>5, <2>6, NextOwedParts DEF OwedInParts, GoingOn
<1>3. ASSUME NEW a \in Agents, AgentAnnounces(a) PROVE GoingOn'
  <2>1. LET c == Command("configured", NoTC, a) IN c \in Commands /\ CommandOK(c)
    BY DEF Command, Commands, CommandOK
  <2>2. Publish(Command("configured", NoTC, a)) /\ tuns' = tuns \ {a}
    BY <1>3 DEF AgentAnnounces
  <2>3. UNCHANGED <<vars, automated, mailbox, driver, stopped>>
    BY <1>3 DEF AgentAnnounces
  <2>4. QED
    BY <1>1, <1>2, <2>1, <2>2, <2>3, Queueing DEF MailOK
<1>4. CASE DriverStep
  <2>1. CheckStatus /\ Publish(Command("configuration", NoTC, NoNode)) /\ UNCHANGED mailbox
    BY <1>4 DEF DriverStep, CheckStatus, SeeReport, GiveUp, EndSession
  <2>2. LET c == Command("configuration", NoTC, NoNode)
        IN  c \in Commands /\ CommandOK(c) /\ c.cmd = "configuration"
    BY DEF Command, Commands, CommandOK
  <2>3. UNCHANGED <<vars, automated, tuns, mailbox, stopped>>
    BY <2>1 DEF CheckStatus
  <2>4. QED
    BY <1>1, <1>2, <2>1, <2>2, <2>3, Queueing DEF MailOK
<1>5. CASE UNCHANGED sessionVars
  BY <1>1, <1>2, <1>5 DEF sessionVars, parties, BusOK, CommandOK, MailOK
<1>6. QED
  BY <1>3, <1>4, <1>5

-----------------------------------------------------------------------------
(* Theorems *)

LEMMA SessionStepOK == SessionInv /\ [SessionNext]_sessionVars => SessionInv'
<1> SUFFICES ASSUME SessionInv, [SessionNext]_sessionVars, driver' # "done", alive'
             PROVE  GoingOn'
  BY DEF SessionInv
<1>1. driver # "done" /\ alive
  BY DEF SessionNext, sessionVars, vars, parties, CoordinatorStep, AgentAnnounces, PartyStep,
     MockStartsSuite, MockStartsTestcase, MockVerifies, LogSeesReport, IutSkips, IutConfigures,
     IutExecutes, IutFails, Stops, Takes, DriverStep, CheckStatus, SeeReport, GiveUp
<1>2. GoingOn
  BY <1>1 DEF SessionInv
<1>3. ASSUME NEW p \in Agents \cup {Mock, Log}, PartyStep(p) PROVE GoingOn'
  <2>1. ASSUME IutFails(p) PROVE p \in automated
    <3>1. p \in Agents /\ Mock \notin Agents /\ Log \notin Agents
      BY <2>1, SetupAssumption DEF IutFails
    <3>2. \/ p \in automated
          \/ Stops(p)
      BY <1>3, <3>1 DEF PartyStep
    <3>3. ~Stops(p)
      BY <2>1 DEF IutFails, Stops, Takes
    <3>4. QED
      BY <3>2, <3>3
  <2>2. QED
    BY <1>2, <1>3, <2>1, FailureKeeps, PartyKeeps
<1>4. QED
  BY <1>1, <1>2, <1>3, CoordinatorKeeps, OtherStepsKeep DEF SessionNext

\* While the session goes on and the coordinator lives, it keeps its invariant,
\* what is under way for it names what exists, and everybody has only messages to
\* react to.
THEOREM SessionInvariance == SessionSpec => []SessionInv
BY SessionInitInv, SessionStepOK, PTL DEF SessionSpec

\* Whatever is late, repeated or left over from a test case before: until the
\* driver ends the session, a coordinator that lives waits for nothing that is
\* not on its way (the event handlers of UserMock and AutomatedIUT), but for a
\* step of an IUT that an exception of its own has ended.
THEOREM NobodyWaitsInVain == SessionSpec => []WaitingMeansOwed
<1>1. SessionInv => WaitingMeansOwed
  BY DEF SessionInv, GoingOn, WaitingMeansOwed
<1>2. QED
  BY <1>1, SessionInvariance, PTL
=============================================================================
