--------------------------- MODULE UiSessionProofs -------------------------
(***************************************************************************)
(* Theorems about UiSession: whatever users click, and however late, for   *)
(* every test suite and any number of open requests.                       *)
(***************************************************************************)
EXTENDS UiSession, CoordinatorProofs

-----------------------------------------------------------------------------
(* The table of open requests *)

LEMMA SameCardinality == \A S : table!Cardinality(S) = Cardinality(S)
BY DEF table!Cardinality, Cardinality

\* What is published is counted.
LEMMA CountFacts ==
  ASSUME NEW p \in Seq(Message), NEW r
  PROVE  table!Count(p, r) \in Nat /\ (table!Count(p, r) > 0 <=> r \in Range(p))
<1> DEFINE K == {k \in 1..Len(p) : p[k] = r}
<1>1. table!Count(p, r) = Cardinality(K)
  BY SameCardinality DEF table!Count
<1>2. IsFiniteSet(K)
  <2>1. Len(p) \in Nat
    OBVIOUS
  <2>2. IsFiniteSet(1..Len(p)) /\ K \in SUBSET (1..Len(p))
    BY <2>1, FS_Interval
  <2>3. QED
    BY <2>2, FS_Subset
<1>3. Cardinality(K) \in Nat /\ (Cardinality(K) = 0 <=> K = {})
  BY <1>2, FS_CardinalityType, FS_EmptySet
<1>4. K # {} <=> r \in Range(p)
  BY RangeEquality
<1> HIDE DEF K
<1>5. QED
  BY <1>1, <1>3, <1>4

OpenOK == open \in [Requests -> Nat]

LEMMA AskFacts ==
  ASSUME OpenOK, NEW p \in Seq(Message), table!Ask(p)
  PROVE  /\ OpenOK'
         /\ \A q \in Requests : open'[q] >= open[q] /\ (q \in Range(p) => open'[q] > 0)
<1>1. \A q \in Requests : open'[q] = open[q] + table!Count(p, q) /\ open[q] \in Nat
  BY DEF OpenOK, table!Ask
<1>2. \A q \in Requests :
        table!Count(p, q) \in Nat /\ (q \in Range(p) => table!Count(p, q) > 0)
  BY CountFacts
<1>3. open' = [q \in Requests |-> open'[q]]
  BY DEF table!Ask
<1>4. QED
  BY <1>1, <1>2, <1>3 DEF OpenOK

LEMMA CloseFacts ==
  ASSUME OpenOK, NEW r \in Requests, NEW p \in Seq(Message), table!Close(r, p)
  PROVE  /\ OpenOK'
         /\ \A q \in Requests : /\ q # r => open'[q] >= open[q]
                                /\ q \in Range(p) => open'[q] > 0
<1>1. /\ \A q \in Requests :
           open'[q] = (IF q = r THEN open[q] - 1 ELSE open[q]) + table!Count(p, q)
      /\ open[r] > 0
      /\ \A q \in Requests : open[q] \in Nat
  BY DEF OpenOK, table!Close
<1>2. \A q \in Requests :
        table!Count(p, q) \in Nat /\ (q \in Range(p) => table!Count(p, q) > 0)
  BY CountFacts
<1>3. open' = [q \in Requests |-> open'[q]]
  BY DEF table!Close
<1>4. QED
  BY <1>1, <1>2, <1>3 DEF OpenOK

LEMMA RequestFacts ==
  /\ \A t \in TestCases : Ready(t) \in Requests
  /\ \A t \in TestCases : \A i \in UserSteps(t) : Step(t, i) \in Requests
  /\ \A r \in Requests : r.tc \in TestCases
BY DEF Requests, Ready, Step, VerdictOf

\* The request for the step that the machine waits for.
StepHasRequest ==
  IInv /\ fsm = "waiting_for_step_executed" =>
    StepAsked \in Requests /\ StepAsked = Step(current, tc[current].pos)

LEMMA StepIsRequest == StepHasRequest
<1> SUFFICES ASSUME IInv, fsm = "waiting_for_step_executed"
             PROVE  StepAsked \in Requests /\ StepAsked = Step(current, tc[current].pos)
  BY DEF StepHasRequest
<1>1. tc[current].pos \in UserSteps(current) /\ current \in TestCases
  BY CurrentStep DEF UserSteps
<1>2. QED
  BY <1>1, RequestFacts DEF StepAsked, Step, Msg

LEMMA NextStepIsRequest == StepHasRequest'
BY StepIsRequest, PTL

-----------------------------------------------------------------------------
(* The inductive invariant *)

\* While the machine waits for a step, that step was the last to be asked for.
AskedIsCurrent == fsm = "waiting_for_step_executed" => asked = StepAsked

\* Users who answered the last request only have answered all before it.
PromptAnswered ==
  prompt /\ fsm = "waiting_for_step_executed" =>
    \A i \in Steps(current) : i < tc[current].pos => tc[current].steps[i] # "executing"

UiInv ==
  /\ IInv
  /\ OpenOK
  /\ prompt \in BOOLEAN
  /\ WaitingMeansAsked
  /\ AskedIsCurrent
  /\ PromptAnswered
  /\ PromptUsersNeverWedge

LEMMA UiInitInv == SessionInit => UiInv
<1> SUFFICES ASSUME SessionInit PROVE UiInv
  OBVIOUS
<1>1. IInv
  BY InitOK DEF SessionInit
<1>2. OpenOK
  BY DEF SessionInit, table!OpenInit, OpenOK
<1>3. QED
  BY <1>1, <1>2 DEF SessionInit, Init, UiInv, WaitingMeansAsked, AskedIsCurrent,
     PromptAnswered, PromptUsersNeverWedge

-----------------------------------------------------------------------------
(* Steps *)

\* What a reply does to the coordinator.
Answering(r) ==
  /\ r.msg = "StepExecute"
  /\ \E a \in Answers, captured \in BOOLEAN, tat \in TatVerdicts \cup {Unusable} :
       AnswerType(a) = Script[r.tc][r.step] /\ StepExecuted(a, captured, tat)

LEMMA ReplyDoes ==
  ASSUME NEW r \in Requests, UserReplies(r)
  PROVE  OtherEvents \/ StartTestcase \/ Answering(r) \/ Dropped
<1>1. r.tc \in TestCases
  BY RequestFacts
<1>2. QED
  BY <1>1 DEF UserReplies, StartClicked, SkipClicked, RestartClicked, StepAnswered,
     Ignored, OtherEvents, FatalEvents, Answering, Dropped

UiStep == (\E r \in Requests : UserReplies(r)) \/ OtherEvent

LEMMA IInvStep ==
  ASSUME IInv, UiStep
  PROVE  IInv' /\ (Next \/ Dropped)
<1>1. ASSUME NEW r \in Requests, UserReplies(r) PROVE Next \/ Dropped
  BY <1>1, ReplyDoes, OthersKeepWaiting DEF Next, Answering
<1>2. OtherEvent => Next
  BY DEF OtherEvent, Next
<1>3. Next \/ Dropped
  BY <1>1, <1>2 DEF UiStep
<1>4. QED
  BY <1>3, StepOK, DroppedOK

\* Nothing ends the process while it waits for a step.
LEMMA StaysAlive ==
  ASSUME UiStep, Next, fsm' = "waiting_for_step_executed"
  PROVE  alive'
<1>1. \A s, wanted, sent : ~PrepareNextTestcase(s, wanted, sent)
  BY DEF PrepareNextTestcase
<1>2. alive
  BY OnlyTheLivingAct
<1>3. StartTestcase => alive' = alive
  BY DEF StartTestcase, ExecuteNextStep
<1>4. ASSUME NEW a, NEW captured, NEW tat, StepExecuted(a, captured, tat) PROVE alive' = alive
  BY <1>1, <1>4 DEF StepExecuted, ExecuteNextStep, FinishTestcase, FailToFinish
<1>5. ~StartWithoutTestcase
  BY DEF StartWithoutTestcase, Dies
<1>6. ASSUME NEW r \in Requests, UserReplies(r) PROVE alive' = alive
  BY <1>1, <1>3, <1>4, <1>5, <1>6 DEF UserReplies, StartClicked, SkipClicked, RestartClicked,
     StepAnswered, Ignored, SkipCurrentTestcase, SkipOtherTestcase, SelectTestcase
<1>7. OtherEvent => alive' = alive
  BY <1>1 DEF OtherEvent, ConfigureTestsuite, StartTestsuite, IutConfigurationExecuted,
     IutConfigurationTimeout
<1>8. QED
  BY <1>2, <1>6, <1>7 DEF UiStep

\* What is open stays open unless it is replied to, and what is published opens.
LEMMA OpenStep ==
  ASSUME UiInv, UiStep
  PROVE  /\ OpenOK'
         /\ \A q \in Requests : ~UserReplies(q) => open'[q] >= open[q]
         /\ \A q \in Requests : q \in Range(out') => open'[q] > 0
<1>1. out' \in Seq(Message)
  BY IInvStep DEF UiInv, IInv, TypeOK
<1>2. OpenOK
  BY DEF UiInv
<1>3. ASSUME NEW r \in Requests, UserReplies(r)
      PROVE  /\ OpenOK'
             /\ \A q \in Requests : /\ q # r => open'[q] >= open[q]
                                    /\ q \in Range(out') => open'[q] > 0
  BY <1>1, <1>2, <1>3, CloseFacts DEF UserReplies
<1>4. CASE OtherEvent
  BY <1>1, <1>2, <1>4, AskFacts DEF OtherEvent
<1>5. QED
  BY <1>3, <1>4 DEF UiStep

\* A reply to the request for the current test case or step never falls flat.
LEMMA ReadyLeaves ==
  ASSUME current \in TestCases, fsm = "waiting_for_testcase_start", UserReplies(Ready(current))
  PROVE  fsm' # "waiting_for_testcase_start"
<1>1. \A s, wanted, sent : PrepareNextTestcase(s, wanted, sent) => fsm' # fsm
  BY DEF PrepareNextTestcase
<1>2. \A s, before, after : ExecuteNextStep(s, before, after) => fsm' # fsm
  BY DEF ExecuteNextStep
<1>3. StartClicked(Ready(current)) \/ SkipClicked(Ready(current))
  BY DEF UserReplies, RestartClicked, StepAnswered, Ready
<1>4. QED
  BY <1>1, <1>2, <1>3, NoTCType DEF StartClicked, SkipClicked, StartTestcase,
     StartWithoutTestcase, SkipCurrentTestcase, SkipOtherTestcase, Ignored, Ready, Ongoing

LEMMA StepReplied ==
  ASSUME fsm = "waiting_for_step_executed", NEW r \in Requests, r.msg = "StepExecute",
         UserReplies(r)
  PROVE  Answering(r)
BY DEF UserReplies, StartClicked, SkipClicked, RestartClicked, StepAnswered, Ignored, Answering

LEMMA WaitingStep ==
  ASSUME UiInv, UiStep
  PROVE  WaitingMeansAsked'
<1>1. IInv /\ IInv' /\ (Next \/ Dropped)
  BY IInvStep DEF UiInv
<1>2. ASSUME fsm' = "waiting_for_testcase_start", current' # NoTC
      PROVE  open'[Ready(current')] > 0
  <2>1. current' \in TestCases /\ Ready(current') \in Requests
    BY <1>1, <1>2, RequestFacts DEF IInv, TypeOK
  <2>2. CASE out' = Sent("TestCaseReady", current')
    <3>1. Ready(current') \in Range(out')
      BY <2>2, RangeSent DEF Ready, Msg
    <3>2. QED
      BY <2>1, <3>1, OpenStep
  <2>3. CASE fsm = "waiting_for_testcase_start" /\ current' = current
    <3>1. open[Ready(current)] > 0 /\ open[Ready(current)] \in Nat
      BY <1>2, <2>1, <2>3 DEF UiInv, WaitingMeansAsked, OpenOK
    <3>2. ~UserReplies(Ready(current))
      BY <1>2, <2>1, <2>3, ReadyLeaves
    <3>3. open'[Ready(current)] >= open[Ready(current)]
      BY <2>1, <2>3, <3>2, OpenStep
    <3>4. open'[Ready(current)] \in Nat
      BY <2>1, <2>3, OpenStep DEF OpenOK
    <3>5. QED
      BY <2>3, <3>1, <3>3, <3>4
  <2>4. QED
    BY <1>1, <1>2, <2>2, <2>3, ReadyAnnounced DEF Dropped
<1>3. ASSUME fsm' = "waiting_for_step_executed"
      PROVE  open'[Step(current', tc'[current'].pos)] > 0
  <2>1. /\ StepAsked' \in Requests
        /\ StepAsked' = Step(current', tc'[current'].pos)
    BY <1>1, <1>3, NextStepIsRequest DEF StepHasRequest
  <2>2. CASE Next
    <3>1. alive' /\ AsksRight'
      BY <1>1, <1>3, <2>2, StaysAlive, EventsAskRight
    <3>2. StepAsked' \in Range(out')
      BY <1>3, <3>1 DEF AsksRight, ToAsk, Asks, Asking
    <3>3. QED
      BY <2>1, <3>2, OpenStep
  <2>3. CASE ~Next
    <3>1. fsm = "waiting_for_step_executed" /\ StepAsked' = StepAsked
      BY <1>1, <1>3, <2>3 DEF Dropped, StepAsked
    <3>2. open[StepAsked] > 0
      BY <1>1, <3>1, StepIsRequest DEF StepHasRequest, UiInv, WaitingMeansAsked
    <3>3. ~UserReplies(StepAsked)
      <4>1. StepAsked.msg = "StepExecute" /\ StepAsked \in Requests
        BY <2>1, <3>1 DEF StepAsked, Msg
      <4>2. Answering(StepAsked) => Next
        BY DEF Answering, Next
      <4>3. QED
        BY <2>3, <3>1, <4>1, <4>2, StepReplied
    <3>4. /\ open'[StepAsked] >= open[StepAsked]
          /\ open[StepAsked] \in Nat /\ open'[StepAsked] \in Nat
      BY <2>1, <3>1, <3>3, OpenStep DEF OpenOK, UiInv
    <3>5. QED
      BY <2>1, <3>1, <3>2, <3>4
  <2>4. QED
    BY <2>2, <2>3
<1>4. QED
  BY <1>2, <1>3 DEF WaitingMeansAsked

LEMMA AskedStep ==
  ASSUME UiInv, UiStep
  PROVE  AskedIsCurrent'
<1> SUFFICES ASSUME fsm' = "waiting_for_step_executed" PROVE asked' = StepAsked'
  BY DEF AskedIsCurrent
<1>1. IInv /\ IInv' /\ (Next \/ Dropped)
  BY IInvStep DEF UiInv
<1>2. asked' = AskedLast
  BY DEF UiStep, UserReplies, OtherEvent
<1> DEFINE new == {r \in Requests : r.msg = "StepExecute" /\ table!Count(out', r) > 0}
<1>3. new = Asks(out') \cap Requests
  <2>1. \A r : table!Count(out', r) > 0 <=> r \in Range(out')
    BY <1>1, CountFacts DEF IInv, TypeOK
  <2>2. QED
    BY <2>1 DEF Asks, Asking
<1>4. AskedLast = IF new = {} THEN asked ELSE CHOOSE r \in new : TRUE
  BY DEF AskedLast
<1>5. StepAsked' \in Requests
  BY <1>1, NextStepIsRequest DEF StepHasRequest
<1> HIDE DEF new
<1>6. CASE Next
  <2>1. Asks(out') = {StepAsked'}
    BY <1>1, <1>6, StaysAlive, EventsAskRight DEF AsksRight, ToAsk, Asks
  <2>2. new = {StepAsked'}
    BY <1>3, <1>5, <2>1
  <2>3. QED
    BY <1>2, <1>4, <2>2
<1>7. CASE ~Next
  <2>1. /\ Dropped /\ fsm = "waiting_for_step_executed"
        /\ StepAsked' = StepAsked
    BY <1>1, <1>7 DEF Dropped, StepAsked
  <2>2. new = {}
    BY <1>3, <2>1, AsksSent DEF Dropped
  <2>3. QED
    BY <1>2, <1>4, <2>1, <2>2 DEF UiInv, AskedIsCurrent
<1>8. QED
  BY <1>6, <1>7

\* When a test case starts, no step of it waits for an answer; when prompt users
\* answer, it is the step the machine waits for, so none before the next does.
LEMMA PromptStep ==
  ASSUME UiInv, UiStep
  PROVE  prompt' \in BOOLEAN /\ PromptAnswered' /\ PromptUsersNeverWedge'
<1>1. /\ IInv /\ TypeOK /\ prompt \in BOOLEAN
      /\ AskedIsCurrent /\ PromptAnswered /\ PromptUsersNeverWedge
  BY DEF UiInv, IInv
<1>2. prompt' \in BOOLEAN /\ (prompt' => prompt)
  <2>1. ASSUME NEW r \in Requests, UserReplies(r) PROVE prompt' \in BOOLEAN /\ (prompt' => prompt)
    <3>1. prompt' = (prompt /\ (r.msg = "StepExecute" => r = asked))
      BY <2>1 DEF UserReplies
    <3>2. QED
      BY <3>1, Zenon
  <2>2. OtherEvent => prompt' = prompt
    BY DEF OtherEvent
  <2>3. QED
    BY <1>1, <2>1, <2>2 DEF UiStep
<1> SUFFICES ASSUME prompt' PROVE PromptAnswered' /\ PromptUsersNeverWedge'
  BY <1>2 DEF PromptAnswered, PromptUsersNeverWedge
<1>3. prompt
  BY <1>2
<1>4. CASE OtherEvents \/ Dropped
  <2>1. /\ fsm' = "waiting_for_step_executed" =>
              /\ fsm = "waiting_for_step_executed"
              /\ UNCHANGED current
              /\ tc'[current] = tc[current]
        /\ fsm' = "preparing_next_step" => fsm = "preparing_next_step"
    BY <1>1, <1>4, OthersKeepWaiting DEF Dropped
  <2>2. QED
    BY <1>1, <1>3, <2>1 DEF PromptAnswered, PromptUsersNeverWedge
<1>5. CASE StartTestcase
  <2>1. /\ current \in TestCases /\ DOMAIN tc = TestCases
        /\ tc[current] \in TestCase(current) /\ CaseOK(current, tc[current])
        /\ tc[current].state = "configuring"
    BY <1>1, <1>5 DEF StartTestcase, IInv, TypeOK, NotStarted, FsmAgreesWithTestcase
  <2>2. \A j \in Steps(current) : tc[current].steps[j] # "executing"
    BY <2>1, ScriptType DEF CaseOK, Fresh, FreshSteps
  <2>3. PICK before, after : ExecuteNextStep(tc, before, after)
    BY <1>5 DEF StartTestcase
  <2>4. /\ UNCHANGED current /\ fsm' = "waiting_for_step_executed"
        /\ tc'[current].pos \in Steps(current)
        /\ \A j \in Steps(current) :
             j # tc'[current].pos => tc'[current].steps[j] = tc[current].steps[j]
    BY <1>1, <2>1, <2>3, NextRequest DEF ExecuteNextStep
  <2>5. QED
    BY <2>1, <2>2, <2>4, ScriptType DEF PromptAnswered, PromptUsersNeverWedge, Steps
<1>6. ASSUME NEW r \in Requests, UserReplies(r), Answering(r)
      PROVE  PromptAnswered' /\ PromptUsersNeverWedge'
  <2> DEFINE c == tc[current]
  <2>1. PICK a \in Answers, captured \in BOOLEAN, tat \in TatVerdicts \cup {Unusable} :
          AnswerType(a) = Script[r.tc][r.step] /\ StepExecuted(a, captured, tat)
    BY <1>6 DEF Answering
  <2>2. /\ current \in TestCases
        /\ c \in TestCase(current) /\ InOrder(current, c)
        /\ c.state = "executing"
        /\ c.pos \in Steps(current) /\ c.steps[c.pos] = "executing"
    BY <1>1, <2>1, CurrentStep DEF StepExecuted
  <2>3. r = StepAsked
    BY <1>1, <1>6, <2>1 DEF UserReplies, Answering, AskedIsCurrent, StepExecuted
  <2>4. Matches(a, current, c)
    BY <2>1, <2>3 DEF StepAsked, Msg, Matches
  <2> DEFINE d == StepFinished(a, current, c)
             s == [tc EXCEPT ![current] = d]
  <2>5. /\ d \in TestCase(current) /\ d.pos = c.pos /\ d.state = "executing"
        /\ InOrder(current, d)
        /\ d.steps[d.pos] = "finished"
    BY <2>2, <2>4, StepFinishedOK
  <2>6. \A j \in Steps(current) : j <= d.pos => d.steps[j] # "executing"
    <3>1. \A j \in Steps(current) : j # c.pos => d.steps[j] = c.steps[j]
      BY <2>2, <2>5 DEF StepFinished, TestCase
    <3>2. \A j \in Steps(current) : j < c.pos => c.steps[j] # "executing"
      BY <1>1, <1>3, <2>1 DEF PromptAnswered, StepExecuted
    <3>3. \A j \in Steps(current) : j \in Nat
      BY <2>2, ScriptType
    <3>4. c.pos \in Nat
      BY <2>2, <3>3
    <3>5. QED
      BY <2>5, <3>1, <3>2, <3>3, <3>4
  <2>7. DOMAIN s = TestCases /\ s[current] = d
    BY <1>1, <2>2 DEF TypeOK
  <2>8. ExecuteNextStep(s, <<>>, <<>>) \/ FinishTestcase(s, captured, tat) \/ FailToFinish(s)
    BY <2>1 DEF StepExecuted
  <2> HIDE DEF s, d
  <2>9. CASE ExecuteNextStep(s, <<>>, <<>>)
    <3>1. /\ UNCHANGED current /\ fsm' = "waiting_for_step_executed"
          /\ \A j \in Steps(current) :
               j # tc'[current].pos => tc'[current].steps[j] = d.steps[j]
      BY <1>1, <2>2, <2>5, <2>7, <2>9, NextRequest DEF ExecuteNextStep
    <3>2. \A j \in Steps(current) : d.steps[j] # "executing"
      BY <2>2, <2>5, <2>6, ScriptType DEF InOrder
    <3>3. \A j \in Steps(current) : j < tc'[current].pos => j # tc'[current].pos
      BY <2>2, ScriptType
    <3>4. QED
      BY <3>1, <3>2, <3>3 DEF PromptAnswered, PromptUsersNeverWedge
  <2>10. CASE FinishTestcase(s, captured, tat)
    BY <2>10 DEF FinishTestcase, PrepareNextTestcase, PromptAnswered, PromptUsersNeverWedge
  <2>11. ~FailToFinish(s)
    <3>1. DOMAIN d.steps = Steps(current)
      BY <2>5 DEF TestCase
    <3>2. \A j \in Steps(current) : j > d.pos => j \in StepsLeft(current, d) \/ d.steps[j] = "postponed"
      BY DEF StepsLeft
    <3>3. \A j \in Steps(current) : j <= d.pos => d.steps[j] \notin {"None", "executing"}
      BY <2>5, <2>6 DEF InOrder
    <3>4. \A j \in Steps(current) : j > d.pos \/ j <= d.pos
      BY <2>2, <2>5, ScriptType
    <3>5. StepsLeft(current, d) = {} => AllStepsFinished(d)
      BY <3>1, <3>2, <3>3, <3>4 DEF AllStepsFinished
    <3>6. QED
      BY <2>7, <3>5 DEF FailToFinish
  <2>12. QED
    BY <2>8, <2>9, <2>10, <2>11
<1>7. CASE OtherEvent
  BY <1>4, <1>7 DEF OtherEvent, OtherEvents
<1>8. QED
  BY <1>4, <1>5, <1>6, <1>7, ReplyDoes DEF UiStep

LEMMA UiStepOK == UiInv /\ [SessionNext]_sessionVars => UiInv'
<1>1. ASSUME UiInv, UiStep PROVE UiInv'
  BY <1>1, IInvStep, OpenStep, WaitingStep, AskedStep, PromptStep DEF UiInv
<1>2. ASSUME UiInv, UNCHANGED sessionVars PROVE UiInv'
  <2>1. UNCHANGED vars /\ UNCHANGED <<fsm, current, tc, open, asked, prompt>>
    BY <1>2 DEF sessionVars, vars
  <2>2. IInv'
    BY <1>2, <2>1, StepOK DEF UiInv
  <2>3. QED
    BY <1>2, <2>1, <2>2 DEF UiInv, OpenOK, WaitingMeansAsked, AskedIsCurrent, PromptAnswered,
       PromptUsersNeverWedge, StepAsked
<1>3. QED
  BY <1>1, <1>2 DEF SessionNext, UiStep

-----------------------------------------------------------------------------
(* Theorems *)

THEOREM UiInvariance == SessionSpec => []UiInv
BY UiInitInv, UiStepOK, PTL DEF SessionSpec

\* Whatever was replied late, twice or in vain before, the request for what the
\* coordinator waits for is on the screen.
THEOREM WaitersWereAsked == SessionSpec => []WaitingMeansAsked
<1>1. UiInv => WaitingMeansAsked
  BY DEF UiInv
<1>2. QED
  BY <1>1, UiInvariance, PTL

\* Answering the last request for a step only is enough to keep the machine out
\* of its dummy state, whichever other buttons are pressed and when.
THEOREM PromptUsersAreSafe == SessionSpec => []PromptUsersNeverWedge
<1>1. UiInv => PromptUsersNeverWedge
  BY DEF UiInv
<1>2. QED
  BY <1>1, UiInvariance, PTL
=============================================================================
