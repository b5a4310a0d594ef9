---------------------------- MODULE CaptureProofs ---------------------------
(***************************************************************************)
(* Theorems about CaptureSession: when the sniffer is idle.                *)
(***************************************************************************)
EXTENDS CaptureSession, CoordinatorProofs

\* No message m in p.
Quiet(m, p) == \A k \in 1..Len(p) : p[k].msg # m

LEMMA CallsQuiet == \A m : Calls(m) <=> ~Quiet(m, out')
BY DEF Calls, Quiet

LEMMA QuietConcat ==
  ASSUME NEW p \in Seq(Message), NEW q \in Seq(Message), NEW m
  PROVE  Quiet(m, p \o q) <=> Quiet(m, p) /\ Quiet(m, q)
<1>1. /\ Len(p \o q) = Len(p) + Len(q) /\ Len(p) \in Nat /\ Len(q) \in Nat
      /\ \A i \in 1..Len(p) + Len(q) :
           (p \o q)[i] = IF i <= Len(p) THEN p[i] ELSE q[i - Len(p)]
  BY ConcatProperties
<1>2. ASSUME Quiet(m, p), Quiet(m, q), NEW i \in 1..Len(p) + Len(q)
      PROVE  (p \o q)[i].msg # m
  <2>1. CASE i <= Len(p)
    <3>1. i \in 1..Len(p)
      BY <1>1, <2>1
    <3>2. QED
      BY <1>1, <1>2, <2>1, <3>1 DEF Quiet
  <2>2. CASE ~(i <= Len(p))
    <3>1. i - Len(p) \in 1..Len(q)
      BY <1>1, <2>2
    <3>2. QED
      BY <1>1, <1>2, <2>2, <3>1 DEF Quiet
  <2>3. QED
    BY <2>1, <2>2
<1>3. ASSUME Quiet(m, p \o q), NEW i \in 1..Len(p) PROVE p[i].msg # m
  <2>1. i \in 1..Len(p) + Len(q) /\ i <= Len(p)
    BY <1>1
  <2>2. QED
    BY <1>1, <1>3, <2>1 DEF Quiet
<1>4. ASSUME Quiet(m, p \o q), NEW i \in 1..Len(q) PROVE q[i].msg # m
  <2>1. i + Len(p) \in 1..Len(p) + Len(q) /\ ~(i + Len(p) <= Len(p)) /\ (i + Len(p)) - Len(p) = i
    BY <1>1
  <2>2. QED
    BY <1>1, <1>4, <2>1 DEF Quiet
<1>5. QED
  BY <1>1, <1>2, <1>3, <1>4 DEF Quiet

LEMMA QuietSent ==
  ASSUME NEW m, NEW n, NEW t
  PROVE  Quiet(m, Sent(n, t)) <=> m # n
BY DEF Quiet, Sent

LEMMA QuietStep ==
  ASSUME NEW m, NEW t, NEW i
  PROVE  Quiet(m, StepSent(t, i)) <=> m # "StepExecute"
BY DEF Quiet, StepSent

\* The calls to the sniffer and the analyser that matter here.
Tracked == {"SniffingStart", "SniffingStop", "InteropTestCaseAnalyze"}

LEMMA QuietEmpty == <<>> \in Seq(Message) /\ \A m : Quiet(m, <<>>)
BY DEF Quiet

LEMMA QuietReentry == \A m \in Tracked : Quiet(m, ReentryNotices)
<1>1. \A m : Quiet(m, <<>>)
  BY QuietEmpty
<1>2. QED
  BY <1>1, QuietSent, QuietStep DEF ReentryNotices, Tracked

-----------------------------------------------------------------------------
(* What the coordinator's steps call *)

\* Preparing the next test case adds none of these calls to what was sent before.
LEMMA PrepareCalls ==
  ASSUME IInv', NEW s, NEW wanted, NEW sent \in Seq(Message), NEW m \in Tracked,
         PrepareNextTestcase(s, wanted, sent)
  PROVE  Calls(m) <=> ~Quiet(m, sent)
<1>1. PICK n \in {"ConfigurationExecute", "TestSuiteReport"}, t \in {current', NoTC} :
        out' = sent \o Sent(n, t)
  BY DEF PrepareNextTestcase
<1>2. t \in TestCases \cup {NoTC}
  BY <1>1 DEF IInv, TypeOK
<1>3. Sent(n, t) \in Seq(Message)
  BY <1>2, SentType DEF Notices
<1>4. Quiet(m, Sent(n, t))
  BY QuietSent DEF Tracked
<1>5. QED
  BY <1>1, <1>3, <1>4, QuietConcat, CallsQuiet

\* Finishing a test case stops the sniffer and does not start it.
LEMMA FinishCalls ==
  ASSUME IInv, IInv', current \in TestCases, NEW s, NEW captured \in BOOLEAN, NEW tat,
         FinishTestcase(s, captured, tat)
  PROVE  Calls("SniffingStop") /\ ~Calls("SniffingStart")
<1> DEFINE analysis == IF captured THEN Sent("InteropTestCaseAnalyze", current) ELSE <<>>
           a == Sent("SniffingStop", NoTC)
           b == Sent("SniffingGetCapture", current)
           d == Sent("TestCaseFinished", current)
           e == Sent("TestCaseVerdict", current)
           sent == a \o b \o analysis \o d \o e
<1>1. a \in Seq(Message) /\ b \in Seq(Message) /\ d \in Seq(Message) /\ e \in Seq(Message)
  BY SentType DEF Notices
<1>2. analysis \in Seq(Message) /\ Quiet("SniffingStart", analysis)
  <2>1. <<>> \in Seq(Message) /\ Quiet("SniffingStart", <<>>)
    BY DEF Quiet
  <2>2. QED
    BY <2>1, SentType, QuietSent DEF Notices
<1> HIDE DEF analysis
<1>3. /\ Quiet("SniffingStart", a) /\ Quiet("SniffingStart", b)
      /\ Quiet("SniffingStart", d) /\ Quiet("SniffingStart", e)
      /\ ~Quiet("SniffingStop", a)
  BY QuietSent
<1> HIDE DEF a, b, d, e
<1>4. /\ a \o b \in Seq(Message) /\ a \o b \o analysis \in Seq(Message)
      /\ a \o b \o analysis \o d \in Seq(Message) /\ sent \in Seq(Message)
  BY <1>1, <1>2, ConcatType
<1>5. Quiet("SniffingStart", sent) /\ ~Quiet("SniffingStop", sent)
  BY <1>1, <1>2, <1>3, <1>4, QuietConcat
<1>6. \E u : PrepareNextTestcase(u, NoTC, sent)
  BY DEF FinishTestcase, analysis, a, b, d, e
<1> HIDE DEF sent
<1>7. QED
  BY <1>4, <1>5, <1>6, PrepareCalls DEF Tracked

\* So does requesting the next step.
LEMMA ExecuteCalls ==
  ASSUME IInv, current \in TestCases, NEW s, NEW before \in Seq(Message),
         NEW after \in Seq(Message), NEW m \in Tracked,
         DOMAIN s = TestCases, s[current].pos \in Nat,
         ExecuteNextStep(s, before, after)
  PROVE  Calls(m) <=> ~(Quiet(m, before) /\ Quiet(m, after))
<1> DEFINE i == Least(StepsLeft(current, s[current]))
<1>1. out' = before \o StepSent(current, i) \o after
  BY DEF ExecuteNextStep
<1>2. i \in Nat
  <2>1. StepsLeft(current, s[current]) \in SUBSET Nat /\ StepsLeft(current, s[current]) # {}
    BY ScriptType DEF StepsLeft, ExecuteNextStep
  <2>2. QED
    BY <2>1, LeastIsLeast
<1> HIDE DEF i
<1>3. StepSent(current, i) \in Seq(Message) /\ Quiet(m, StepSent(current, i))
  BY <1>2, SentType, QuietStep DEF Tracked
<1>4. before \o StepSent(current, i) \in Seq(Message)
  BY <1>3, ConcatType
<1>5. QED
  BY <1>1, <1>3, <1>4, QuietConcat, CallsQuiet

LEMMA StartCalls ==
  ASSUME IInv, StartTestcase
  PROVE  /\ Calls("SniffingStart")
         /\ ~Calls("SniffingStop") /\ ~Calls("InteropTestCaseAnalyze")
<1> DEFINE p == Sent("SniffingStart", current)
           q == IF current \in Lossy THEN Sent("RoutingStartLossyLink", NoTC) ELSE <<>>
           r == Sent("TestCaseStarted", current)
<1>1. current \in TestCases
  BY DEF StartTestcase, IInv, TypeOK
<1>2. p \in Seq(Message) /\ q \in Seq(Message) /\ r \in Seq(Message)
  BY <1>1, SentType, QuietEmpty DEF Notices
<1>3. /\ ~Quiet("SniffingStart", p)
      /\ \A m \in {"SniffingStop", "InteropTestCaseAnalyze"} :
           Quiet(m, p) /\ Quiet(m, q) /\ Quiet(m, r)
  BY QuietSent, QuietEmpty
<1>4. ExecuteNextStep(tc, p \o q, r)
  BY DEF StartTestcase
<1> HIDE DEF p, q, r
<1>5. /\ p \o q \in Seq(Message)
      /\ \A m \in Tracked : Quiet(m, p \o q) <=> Quiet(m, p) /\ Quiet(m, q)
  BY <1>2, ConcatType, QuietConcat
<1>6. DOMAIN tc = TestCases /\ tc[current].pos \in Nat
  BY <1>1, ScriptType DEF IInv, TypeOK, TestCase
<1>7. \A m \in Tracked : Calls(m) <=> ~(Quiet(m, p \o q) /\ Quiet(m, r))
  BY <1>1, <1>2, <1>4, <1>5, <1>6, ExecuteCalls
<1>8. QED
  BY <1>3, <1>5, <1>7 DEF Tracked

LEMMA StepCalls ==
  ASSUME IInv, NEW a \in Answers, NEW captured \in BOOLEAN,
         NEW tat \in TatVerdicts \cup {Unusable}, StepExecuted(a, captured, tat), Next
  PROVE  /\ ~Calls("SniffingStart")
         /\ fsm' = "waiting_for_step_executed" =>
              current' = current /\ ~Calls("SniffingStop")
<1> DEFINE s == [tc EXCEPT ![current] = StepFinished(a, current, @)]
<1>1. IInv' /\ current \in TestCases
  BY StepOK DEF StepExecuted, IInv, FsmAgreesWithTestcase, TypeOK
<1>2. DOMAIN s = TestCases /\ s[current].pos \in Nat
  BY <1>1, ScriptType DEF IInv, TypeOK, TestCase, StepFinished
<1>3. ExecuteNextStep(s, <<>>, <<>>) \/ FinishTestcase(s, captured, tat) \/ FailToFinish(s)
  BY DEF StepExecuted
<1> HIDE DEF s
<1>4. CASE ExecuteNextStep(s, <<>>, <<>>)
  <2>1. \A m \in Tracked : ~Calls(m)
    BY <1>1, <1>2, <1>4, QuietEmpty, ExecuteCalls
  <2>2. QED
    BY <1>4, <2>1 DEF ExecuteNextStep, Tracked
<1>5. CASE FinishTestcase(s, captured, tat)
  BY <1>1, <1>5, FinishCalls DEF FinishTestcase, PrepareNextTestcase
<1>6. CASE FailToFinish(s)
  BY <1>6, QuietEmpty, CallsQuiet DEF FailToFinish
<1>7. QED
  BY <1>3, <1>4, <1>5, <1>6

\* A last answer whose capture or analysis ends the process stopped the sniffer.
LEMMA UnreadableCalls ==
  ASSUME IInv, NEW a \in Answers, NEW captured \in BOOLEAN, AnswerUnreadable(a, captured)
  PROVE  /\ Calls("SniffingStop") /\ ~Calls("SniffingStart")
         /\ fsm = "waiting_for_step_executed" /\ ~alive'
<1> DEFINE b == Sent("SniffingStop", NoTC)
           g == Sent("SniffingGetCapture", current)
           e == IF captured THEN Sent("InteropTestCaseAnalyze", current) ELSE <<>>
<1>1. current \in TestCases \cup {NoTC}
  BY DEF IInv, TypeOK
<1>2. b \in Seq(Message) /\ g \in Seq(Message) /\ e \in Seq(Message)
  BY <1>1, SentType, QuietEmpty DEF Notices
<1>3. /\ ~Quiet("SniffingStop", b)
      /\ Quiet("SniffingStart", b) /\ Quiet("SniffingStart", g) /\ Quiet("SniffingStart", e)
  BY QuietSent, QuietEmpty
<1>4. Dies(b \o g \o e) /\ fsm = "waiting_for_step_executed"
  BY DEF AnswerUnreadable
<1> HIDE DEF b, g, e
<1>5. ~Quiet("SniffingStop", b \o g \o e) /\ Quiet("SniffingStart", b \o g \o e)
  <2>1. b \o g \in Seq(Message)
    BY <1>2, ConcatType
  <2>2. QED
    BY <1>2, <1>3, <2>1, QuietConcat
<1>6. out' = b \o g \o e /\ alive' = FALSE
  BY <1>4 DEF Dies
<1>7. QED
  BY <1>4, <1>5, <1>6, CallsQuiet

\* Starts and analyses are called for by the events that drive an execution.
LEMMA OthersAreQuiet ==
  ASSUME IInv, Next, NEW m \in {"SniffingStart", "InteropTestCaseAnalyze"}, Calls(m)
  PROVE  \/ StartTestcase
         \/ \E a \in Answers, captured \in BOOLEAN, tat \in TatVerdicts \cup {Unusable} :
              StepExecuted(a, captured, tat)
         \/ \E a \in Answers, captured \in BOOLEAN : AnswerUnreadable(a, captured)
<1>1. IInv' /\ ~Quiet(m, out') /\ m \in Tracked
  BY StepOK, CallsQuiet DEF Tracked
<1>2. ASSUME NEW s, NEW wanted, PrepareNextTestcase(s, wanted, <<>>) PROVE FALSE
  BY <1>1, <1>2, QuietEmpty, PrepareCalls
<1>3. ~\E p \in Requested : ConfigureTestsuite(p[1], p[2])
  BY <1>1, QuietSent DEF ConfigureTestsuite
<1>4. ~StartTestsuite
  <2>1. /\ Sent("AgentTunStart", NoTC) \in Seq(Message)
        /\ Quiet(m, Sent("AgentTunStart", NoTC))
    BY SentType, QuietSent DEF Notices
  <2>2. ReentryNotices \in Seq(Message)
    BY ReentryNoticesType DEF IInv
  <2>3. LET sent == Sent("AgentTunStart", NoTC) \o ReentryNotices
        IN  sent \in Seq(Message) /\ Quiet(m, sent)
    BY <1>1, <2>1, <2>2, QuietReentry, QuietConcat, ConcatType
  <2>4. QED
    BY <1>1, <2>3, PrepareCalls DEF StartTestsuite
<1>5. ~\E a \in Agents : IutConfigurationExecuted(a)
  BY <1>1, QuietEmpty, QuietSent, QuietReentry DEF IutConfigurationExecuted
<1>6. ~(\/ IutConfigurationWithoutAddress \/ IutConfigurationTimeout
        \/ StartWithoutTestcase \/ SkipWithoutId \/ UnreadableValue)
  BY <1>1, QuietEmpty, QuietSent, QuietReentry DEF IutConfigurationWithoutAddress,
     IutConfigurationTimeout, StartWithoutTestcase, SkipWithoutId, UnreadableValue, Dies
<1>7. ~RestartTestcase
  BY <1>2 DEF RestartTestcase
<1>8. ~\E id \in TestCases \cup {NoTC, UnknownTC} : SelectTestcase(id)
  BY <1>2 DEF SelectTestcase
<1>9. ~\E id \in TestCases \cup {NoTC} : SkipCurrentTestcase(id)
  <2>1. /\ Sent("SniffingStop", NoTC) \in Seq(Message)
        /\ Quiet(m, Sent("SniffingStop", NoTC))
    BY SentType, QuietSent DEF Notices
  <2>2. QED
    BY <1>1, QuietEmpty, <2>1, PrepareCalls DEF SkipCurrentTestcase
<1>10. ~((\E id \in TestCases : SkipOtherTestcase(id)) \/ SkipUnknownTestcase)
  BY <1>1, QuietEmpty, QuietReentry DEF SkipOtherTestcase, SkipUnknownTestcase, Dies
<1>11. QED
  BY <1>3, <1>4, <1>5, <1>6, <1>7, <1>8, <1>9, <1>10 DEF Next

\* Only the start of a test case starts the sniffer.
LEMMA OnlyStartStarts ==
  ASSUME IInv, Next, Calls("SniffingStart")
  PROVE  StartTestcase /\ ~Calls("SniffingStop")
BY OthersAreQuiet, StepCalls, StartCalls, UnreadableCalls

\* Only the last answer to an execution has its capture analysed.
LEMMA OnlyStepsAnalyse ==
  ASSUME IInv, Next, Calls("InteropTestCaseAnalyze")
  PROVE  fsm = "waiting_for_step_executed" /\ ~Calls("SniffingStart")
BY OthersAreQuiet, StepCalls, StartCalls, UnreadableCalls DEF StepExecuted

\* ... and the sniffer is told to stop before that.
LEMMA OnlyAfterStop ==
  ASSUME IInv, Next, Calls("InteropTestCaseAnalyze")
  PROVE  Calls("SniffingStop")
<1> SUFFICES ASSUME ~Calls("SniffingStop") PROVE FALSE
  OBVIOUS
<1>1. PICK a \in Answers, captured \in BOOLEAN, tat \in TatVerdicts \cup {Unusable} :
        StepExecuted(a, captured, tat)
  BY OthersAreQuiet, StartCalls, UnreadableCalls
<1> DEFINE s == [tc EXCEPT ![current] = StepFinished(a, current, @)]
<1>2. IInv' /\ current \in TestCases
  BY <1>1, StepOK DEF StepExecuted, IInv, FsmAgreesWithTestcase, TypeOK
<1>3. DOMAIN s = TestCases /\ s[current].pos \in Nat
  BY <1>2, ScriptType DEF IInv, TypeOK, TestCase, StepFinished
<1>4. ExecuteNextStep(s, <<>>, <<>>) \/ FinishTestcase(s, captured, tat) \/ FailToFinish(s)
  BY <1>1 DEF StepExecuted
<1> HIDE DEF s
<1>5. ~ExecuteNextStep(s, <<>>, <<>>)
  BY <1>2, <1>3, QuietEmpty, ExecuteCalls DEF Tracked
<1>6. ~FailToFinish(s)
  BY QuietEmpty, CallsQuiet DEF FailToFinish
<1>7. QED
  BY <1>2, <1>4, <1>5, <1>6, FinishCalls

\* An execution begins with the start of its test case ...
LEMMA ExecutionsBegin ==
  ASSUME Next, fsm # "waiting_for_step_executed", fsm' = "waiting_for_step_executed"
  PROVE  StartTestcase
BY DEF Next, ConfigureTestsuite, StartTestsuite, IutConfigurationExecuted,
   IutConfigurationWithoutAddress, IutConfigurationTimeout, PrepareNextTestcase,
   StartWithoutTestcase, StepExecuted, AnswerUnreadable, RestartTestcase, SelectTestcase,
   SkipCurrentTestcase, SkipOtherTestcase, SkipUnknownTestcase, SkipWithoutId,
   UnreadableValue, Dies

\* ... and as long as it goes on, in a process that has not ended, nothing touches
\* the sniffer.
LEMMA ExecutionsGoOn ==
  ASSUME IInv, Next, fsm = "waiting_for_step_executed", fsm' = fsm, alive'
  PROVE  current' = current /\ ~Calls("SniffingStart") /\ ~Calls("SniffingStop")
<1>1. CASE \E a \in Answers, captured \in BOOLEAN, tat \in TatVerdicts \cup {Unusable} :
             StepExecuted(a, captured, tat)
  BY <1>1, StepCalls
<1>2. ASSUME out' = ReentryNotices \/ out' = <<>>
      PROVE  ~Calls("SniffingStart") /\ ~Calls("SniffingStop")
  BY <1>2, QuietEmpty, QuietReentry, CallsQuiet DEF Tracked
<1>3. CASE \E a \in Agents : IutConfigurationExecuted(a)
  BY <1>2, <1>3 DEF IutConfigurationExecuted
<1>4. ~FatalEvents /\ ~SkipUnknownTestcase
  BY FatalEventsEnd DEF Ended, SkipUnknownTestcase, Dies
<1>5. CASE \E id \in TestCases : SkipOtherTestcase(id)
  BY <1>2, <1>5 DEF SkipOtherTestcase
<1>6. QED
  BY <1>1, <1>3, <1>4, <1>5 DEF Next, FatalEvents, ConfigureTestsuite, StartTestsuite,
     IutConfigurationTimeout, PrepareNextTestcase, StartTestcase,
     RestartTestcase, SelectTestcase, SkipCurrentTestcase

\* An execution ends by a stop or an interruption.
LEMMA ExecutionsEnd ==
  ASSUME IInv, Next, fsm = "waiting_for_step_executed",
         fsm' \notin {"waiting_for_step_executed", "preparing_next_step"}
  PROVE  Calls("SniffingStop") \/ Interrupts
<1>1. IInv' /\ current \in TestCases /\ tc[current].state = "executing"
  BY StepOK DEF IInv, FsmAgreesWithTestcase, TypeOK
<1>2. CASE \E a \in Answers, captured \in BOOLEAN, tat \in TatVerdicts \cup {Unusable} :
             StepExecuted(a, captured, tat)
  <2>1. PICK a \in Answers, captured \in BOOLEAN, tat \in TatVerdicts \cup {Unusable} :
          StepExecuted(a, captured, tat)
    BY <1>2
  <2>2. FinishTestcase([tc EXCEPT ![current] = StepFinished(a, current, @)], captured, tat)
    BY <2>1 DEF StepExecuted, ExecuteNextStep, FailToFinish
  <2>3. QED
    BY <1>1, <2>2, FinishCalls
<1>3. ASSUME NEW id \in TestCases \cup {NoTC}, SkipCurrentTestcase(id), id # NoTC
      PROVE  Calls("SniffingStop")
  <2>1. Sent("SniffingStop", NoTC) \in Seq(Message) /\ ~Quiet("SniffingStop", Sent("SniffingStop", NoTC))
    BY SentType, QuietSent DEF Notices
  <2>2. \E s : PrepareNextTestcase(s, NoTC, Sent("SniffingStop", NoTC))
    BY <1>1, <1>3 DEF SkipCurrentTestcase
  <2>3. QED
    BY <1>1, <2>1, <2>2, PrepareCalls DEF Tracked
<1>4. ASSUME NEW id \in TestCases \cup {NoTC, UnknownTC}, SelectTestcase(id) PROVE Interrupts
  BY <1>4 DEF Interrupts
<1>5. RestartTestcase => Interrupts
  BY DEF Interrupts
<1>6. SkipCurrentTestcase(NoTC) => Interrupts
  BY DEF Interrupts
<1>7. \/ \E a \in Answers, captured \in BOOLEAN, tat \in TatVerdicts \cup {Unusable} :
           StepExecuted(a, captured, tat)
      \/ RestartTestcase
      \/ \E id \in TestCases \cup {NoTC, UnknownTC} : SelectTestcase(id)
      \/ \E id \in TestCases \cup {NoTC} : SkipCurrentTestcase(id)
  <2>1. ~FatalEvents
    BY FatalEventsEnd DEF Ended
  <2>2. QED
    BY <2>1 DEF Next, FatalEvents, ConfigureTestsuite, StartTestsuite,
       IutConfigurationExecuted, IutConfigurationTimeout, StartTestcase,
       SkipOtherTestcase, SkipUnknownTestcase, Dies
<1>8. QED
  BY <1>2, <1>3, <1>4, <1>5, <1>6, <1>7

LEMMA DummyStateIsFinal ==
  ASSUME Next, fsm = "preparing_next_step"
  PROVE  fsm' = "preparing_next_step"
BY DEF Next, ConfigureTestsuite, StartTestsuite, IutConfigurationExecuted,
   IutConfigurationWithoutAddress, IutConfigurationTimeout, StartTestcase,
   StartWithoutTestcase, StepExecuted, AnswerUnreadable, RestartTestcase, SelectTestcase,
   SkipCurrentTestcase, SkipOtherTestcase, SkipUnknownTestcase, SkipWithoutId,
   UnreadableValue, Ongoing, NotStarted

-----------------------------------------------------------------------------
SessionInv == IInv /\ IdleBetweenExecutions

LEMMA SessionInitOK == SessionInit => SessionInv
BY InitOK DEF SessionInit, SessionInv, IdleBetweenExecutions, sniffer!SnifferInit

LEMMA SessionStepOK == SessionInv /\ [SessionNext]_sessionVars => SessionInv'
<1> SUFFICES ASSUME SessionInv, [SessionNext]_sessionVars PROVE SessionInv'
  OBVIOUS
<1>1. [Next]_vars
  BY DEF SessionNext, CoordinatorStep, DumperStep, sessionVars
<1>2. IInv'
  BY <1>1, StepOK DEF SessionInv
<1>3. ASSUME Next, ServeStart PROVE IdleBetweenExecutions'
  <2>1. StartTestcase
    BY <1>3, OnlyStartStarts DEF SessionInv, ServeStart
  <2>2. QED
    BY <2>1 DEF StartTestcase, ExecuteNextStep, IdleBetweenExecutions
<1>4. ASSUME Next, ServeStop PROVE IdleBetweenExecutions'
  BY <1>4 DEF ServeStop, IdleBetweenExecutions, sniffer!Stop
<1>5. ASSUME Next, ServeNothing PROVE IdleBetweenExecutions'
  BY <1>5, ExecutionsEnd, DummyStateIsFinal DEF SessionInv, ServeNothing, IdleBetweenExecutions
<1>6. ASSUME DumperStep PROVE IdleBetweenExecutions'
  BY <1>6 DEF DumperStep, SessionInv, IdleBetweenExecutions, vars, sniffer!DumperReady,
     sniffer!DumperRecords, sniffer!DumperExits
<1>7. ASSUME UNCHANGED sessionVars PROVE IdleBetweenExecutions'
  BY <1>7 DEF sessionVars, vars, SessionInv, IdleBetweenExecutions
<1>8. QED
  BY <1>2, <1>3, <1>4, <1>5, <1>6, <1>7 DEF SessionNext, CoordinatorStep, SessionInv

\* Whatever the users do, nothing records between executions unless one was
\* interrupted or the sniffer could not be stopped.
THEOREM SnifferIsIdle == SessionSpec => []IdleBetweenExecutions
<1>1. SessionInv => IdleBetweenExecutions
  BY DEF SessionInv
<1>2. QED
  BY <1>1, SessionInitOK, SessionStepOK, PTL DEF SessionSpec

\* A start is refused only after an interruption or a failed stop.
THEOREM RefusalsAreExplained == SessionSpec => RefusedOnlyWhenDisturbed
<1>1. SessionInv /\ [SessionNext]_sessionVars
        => [CoordinatorStep /\ Calls("SniffingStart") /\ ~reply' => disturbed]_sessionVars
  <2> SUFFICES ASSUME SessionInv, CoordinatorStep, Calls("SniffingStart"), ~reply'
               PROVE  disturbed
    OBVIOUS
  <2>1. StartTestcase /\ ServeStart
    BY OnlyStartStarts DEF CoordinatorStep, ServeStop, ServeNothing, SessionInv
  <2>2. dumper # "none"
    BY <2>1 DEF ServeStart, sniffer!Start
  <2>3. QED
    BY <2>1, <2>2 DEF StartTestcase, SessionInv, IdleBetweenExecutions
<1>2. QED
  BY <1>1, SessionInitOK, SessionStepOK, PTL DEF SessionSpec, RefusedOnlyWhenDisturbed

-----------------------------------------------------------------------------
\* During an execution whose recording was taken up, in a live process, the subprocess is there and
\* records the current test case: it has yet to open the file, or the file fits.
RecordsCurrent ==
  alive /\ fsm = "waiting_for_step_executed" /\ accepted =>
    /\ dumper # "none"
    /\ target = {current}
    /\ dumper = "starting" \/ Fits

LEMMA RecordsStepOK ==
  IInv /\ RecordsCurrent /\ [SessionNext]_sessionVars => RecordsCurrent'
<1> SUFFICES ASSUME IInv, RecordsCurrent, [SessionNext]_sessionVars,
                    alive', fsm' = "waiting_for_step_executed", accepted'
             PROVE  /\ dumper' # "none"
                    /\ target' = {current'}
                    /\ dumper' = "starting" \/ Fits'
  BY DEF RecordsCurrent
<1>1. CASE CoordinatorStep /\ fsm # "waiting_for_step_executed"
  <2>1. StartTestcase
    BY <1>1, ExecutionsBegin DEF CoordinatorStep
  <2>2. ServeStart
    BY <1>1, <2>1, StartCalls DEF CoordinatorStep, ServeStop, ServeNothing
  <2>3. dumper = "none"
    BY <2>2 DEF ServeStart, sniffer!Start
  <2>4. QED
    BY <2>1, <2>2, <2>3 DEF ServeStart, sniffer!Start, StartTestcase, ExecuteNextStep
<1>2. CASE CoordinatorStep /\ fsm = "waiting_for_step_executed"
  <2>1. current' = current /\ ~Calls("SniffingStart") /\ ~Calls("SniffingStop")
    BY <1>2, ExecutionsGoOn DEF CoordinatorStep
  <2>2. ServeNothing
    BY <1>2, <2>1 DEF CoordinatorStep, ServeStart, ServeStop
  <2>3. QED
    BY <1>2, <2>1, <2>2, OnlyTheLivingAct DEF CoordinatorStep, ServeNothing, RecordsCurrent, Fits
<1>3. CASE DumperStep
  <2>1. /\ fsm = "waiting_for_step_executed" /\ accepted /\ current' = current
        /\ dumper # "none" /\ target = {current} /\ (dumper = "starting" \/ Fits)
    BY <1>3 DEF DumperStep, vars, RecordsCurrent
  <2>2. current \in TestCases
    BY <2>1 DEF IInv, FsmAgreesWithTestcase, TypeOK
  <2>3. CASE sniffer!DumperReady /\ stale' = stale \ target
    BY <2>1, <2>2, <2>3 DEF sniffer!DumperReady, Fits
  <2>4. Sending \in target
    BY <2>1 DEF Sending
  <2>5. CASE sniffer!DumperExits /\ UNCHANGED stale
    BY <2>1, <2>5 DEF sniffer!DumperExits, Fits
  <2>6. QED
    BY <1>3, <2>3, <2>4, <2>5 DEF DumperStep
<1>4. CASE UNCHANGED sessionVars
  BY <1>4 DEF sessionVars, vars, RecordsCurrent, Fits
<1>5. QED
  BY <1>1, <1>2, <1>3, <1>4 DEF SessionNext

\* Whatever was sent and whatever went wrong before: a recording that was taken up
\* and stopped holds one execution of one test case.
THEOREM CapturesFit == SessionSpec => AcceptedCaptureFits
<1>1. SessionInit => IInv /\ RecordsCurrent
  BY InitOK DEF SessionInit, RecordsCurrent
<1>2. IInv /\ [SessionNext]_sessionVars => IInv'
  BY StepOK DEF SessionNext, CoordinatorStep, DumperStep, sessionVars
<1>3. IInv /\ RecordsCurrent /\ [SessionNext]_sessionVars
        => [CoordinatorStep /\ Calls("InteropTestCaseAnalyze") /\ accepted /\ reply'
              => Fits]_sessionVars
  <2> SUFFICES ASSUME IInv, RecordsCurrent, CoordinatorStep,
                      Calls("InteropTestCaseAnalyze"), accepted, reply'
               PROVE  Fits
    OBVIOUS
  <2>1. fsm = "waiting_for_step_executed" /\ ~Calls("SniffingStart")
    BY OnlyStepsAnalyse DEF CoordinatorStep
  <2>2. Calls("SniffingStop")
    BY OnlyAfterStop DEF CoordinatorStep
  <2>3. dumper # "starting"
    BY <2>1, <2>2 DEF CoordinatorStep, ServeStart, ServeStop, ServeNothing, sniffer!Stop
  <2>4. QED
    BY <2>1, <2>3, OnlyTheLivingAct DEF RecordsCurrent, CoordinatorStep
<1>4. QED
  BY <1>1, <1>2, <1>3, RecordsStepOK, PTL DEF SessionSpec, AcceptedCaptureFits
=============================================================================
