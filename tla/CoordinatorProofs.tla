-------------------------- MODULE CoordinatorProofs ------------------------
(***************************************************************************)
(* Theorems about Coordinator, for every test suite, every set of agents   *)
(* and every irregular input.                                              *)
(***************************************************************************)
EXTENDS Coordinator, FiniteSetTheorems, SequenceTheorems, TLAPS

-----------------------------------------------------------------------------
(* Operators of the model *)

\* Every set of naturals that is not empty has a least element, which is what
\* next_testcase and next_step hand out.
LEMMA LeastIsLeast ==
  ASSUME NEW S \in SUBSET Nat, S # {}
  PROVE  Least(S) \in S /\ \A j \in S : Least(S) <= j
<1> DEFINE T == {0..n : n \in S}
<1>1. T \subseteq FiniteSubsetsOf(Nat) /\ T # {}
  <2>1. ASSUME NEW n \in S PROVE 0..n \in FiniteSubsetsOf(Nat)
    <3>1. n \in Int /\ 0 \in Int /\ 0..n \subseteq Nat
      OBVIOUS
    <3>2. IsFiniteSet(0..n)
      BY <3>1, FS_Interval
    <3>3. QED
      BY <3>1, <3>2 DEF FiniteSubsetsOf
  <2>2. QED
    BY <2>1
<1>2. PICK x \in T : \A y \in T : <<y, x>> \notin StrictSubsetOrdering(Nat)
  BY <1>1, FS_StrictSubsetOrderingWellFounded, WFMin
<1>3. PICK i \in S : x = 0..i
  BY <1>2
<1>4. ASSUME NEW j \in S PROVE i <= j
  <2>1. SUFFICES ASSUME j < i PROVE FALSE
    BY S \subseteq Nat
  <2>2. 0..j \in T /\ <<0..j, x>> \in StrictSubsetOrdering(Nat)
    <3>1. 0..j \subseteq 0..i /\ i \in 0..i /\ i \notin 0..j
      BY <2>1, S \subseteq Nat
    <3>2. QED
      BY <1>3, <3>1 DEF StrictSubsetOrdering
  <2>3. QED
    BY <1>2, <2>2
<1>5. QED
  BY <1>4 DEF Least

LEMMA RankValues ==
  /\ Rank["none"] = 0 /\ Rank["pass"] = 1 /\ Rank["inconclusive"] = 2
  /\ Rank["fail"] = 3 /\ Rank["aborted"] = 4 /\ Rank["error"] = 5
BY DEF Rank, VerdictValues

\* The worst of a set of verdicts is one of them, or none, and no member is
\* worse (the loop of generate_testcase_report).
LEMMA WorstIsWorst ==
  ASSUME NEW S \in SUBSET VerdictValues
  PROVE  /\ Worst(S) \in S \cup {"none"}
         /\ \A v \in S : Supersedes(v, Worst(S))
<1>1. S \cup {"none"} \subseteq VerdictValues
  BY DEF VerdictValues
<1>2. \E v \in S \cup {"none"} : \A w \in S \cup {"none"} : Rank[v] >= Rank[w]
  <2>1. CASE "error" \in S
    BY <1>1, <2>1, RankValues DEF VerdictValues
  <2>2. CASE "error" \notin S /\ "aborted" \in S
    BY <1>1, <2>2, RankValues DEF VerdictValues
  <2>3. CASE {"error", "aborted"} \cap S = {} /\ "fail" \in S
    BY <1>1, <2>3, RankValues DEF VerdictValues
  <2>4. CASE {"error", "aborted", "fail"} \cap S = {} /\ "inconclusive" \in S
    BY <1>1, <2>4, RankValues DEF VerdictValues
  <2>5. CASE {"error", "aborted", "fail", "inconclusive"} \cap S = {}
    BY <1>1, <2>5, RankValues DEF VerdictValues
  <2>6. QED
    BY <2>1, <2>2, <2>3, <2>4, <2>5
<1>3. /\ Worst(S) \in S \cup {"none"}
      /\ \A w \in S \cup {"none"} : Rank[Worst(S)] >= Rank[w]
  BY <1>2 DEF Worst
<1>4. QED
  BY <1>3 DEF Supersedes

LEMMA ScriptType ==
  ASSUME NEW t \in TestCases
  PROVE  /\ Len(Script[t]) \in Nat
         /\ \A i \in Steps(t) : Script[t][i] \in StepTypes
         /\ Steps(t) \subseteq Nat \ {0}
BY ScriptAssumption DEF Steps

LEMMA SentType ==
  /\ \A m \in Notices, t \in TestCases \cup {NoTC} : Sent(m, t) \in Seq(Message)
  /\ \A t \in TestCases, i \in Nat : StepSent(t, i) \in Seq(Message)
BY DEF Sent, StepSent, Message, Notices

LEMMA ConcatType ==
  ASSUME NEW p \in Seq(Message), NEW q \in Seq(Message)
  PROVE  p \o q \in Seq(Message)
BY ConcatProperties

-----------------------------------------------------------------------------
(* The inductive invariant *)

\* What holds of a test case in each of its states once the suite has started.
CaseOK(t, c) ==
  /\ c \in TestCase(t)
  /\ c.state \in {"None", "configuring"} => Fresh(t, c)
  /\ c.state \in {"executing", "ready_for_analysis"} => InOrder(t, c)
  /\ c.state = "finished" => Earned(t, c)

\* The test cases when none of them is under way.
AtRest(s) ==
  /\ DOMAIN s = TestCases
  /\ \A t \in TestCases : CaseOK(t, s[t]) /\ s[t].state \in {"None", "skipped", "finished"}

\* A test case is lost only by skipping one that does not exist.
CurrentKept == "unknown_testcase" \notin Irregular /\ fsm \in Ongoing => current # NoTC

IInv ==
  /\ TypeOK
  /\ fsm \in NotStarted => \A t \in TestCases : tc[t].state \in {"None", "skipped"}
  /\ fsm \notin NotStarted => \A t \in TestCases : CaseOK(t, tc[t])
  /\ OnlyCurrentUnderWay
  /\ FsmAgreesWithTestcase
  /\ NothingForgotten
  /\ CurrentKept
  /\ Survives
  /\ NeverWedged

-----------------------------------------------------------------------------
(* The methods of a test case keep what holds of it *)

LEMMA ReinitOK ==
  ASSUME NEW t \in TestCases, NEW c \in TestCase(t)
  PROVE  CaseOK(t, Reinit(t, c)) /\ Reinit(t, c).state = "None"
<1>1. FreshSteps(t) \in [Steps(t) -> StepStates]
  BY DEF FreshSteps, StepStates
<1>2. [i \in Steps(t) |-> "none"] \in [Steps(t) -> {"none", "pass", "fail"}]
  OBVIOUS
<1>3. Reinit(t, c) \in TestCase(t) /\ Reinit(t, c).state = "None"
  <2>1. 0 \in 0..Len(Script[t])
    BY ScriptType
  <2>2. QED
    BY <1>1, <1>2, <2>1 DEF Reinit, TestCase, TcStates
<1>4. Fresh(t, Reinit(t, c))
  BY DEF Reinit, TestCase, Fresh
<1>5. QED
  BY <1>3, <1>4 DEF CaseOK

LEMMA SkippedOK ==
  ASSUME NEW t \in TestCases, NEW c \in TestCase(t)
  PROVE  CaseOK(t, Skipped(c)) /\ Skipped(c).state = "skipped"
<1>1. Skipped(c) \in TestCase(t) /\ Skipped(c).state = "skipped"
  BY DEF Skipped, TestCase, TcStates, StepStates
<1>2. QED
  BY <1>1 DEF CaseOK

LEMMA ReportedOK ==
  ASSUME NEW t \in TestCases, NEW c \in TestCase(t)
  PROVE  /\ Reported(c) \in TestCase(t)
         /\ Reported(c).state = c.state
         /\ Reported(c).report \in VerdictValues
         /\ CaseOK(t, c) => CaseOK(t, Reported(c))
<1>1. /\ Reported(c) \in TestCase(t)
      /\ Reported(c).state = c.state
      /\ Reported(c).report \in VerdictValues
  BY DEF Reported, TestCase, Reports, NoReport, VerdictValues
<1>2. c.report \in VerdictValues => Reported(c) = c
  BY DEF Reported, NoReport, VerdictValues
<1>3. /\ Fresh(t, c) => Fresh(t, Reported(c))
      /\ InOrder(t, c) => InOrder(t, Reported(c))
  BY DEF Reported, Fresh, InOrder, TestCase
<1>4. Earned(t, c) => Earned(t, Reported(c))
  BY <1>2 DEF Earned
<1>5. QED
  BY <1>1, <1>3, <1>4 DEF CaseOK

\* A step's answer leaves the steps in order; one of the right type ends it.
LEMMA StepFinishedOK ==
  ASSUME NEW t \in TestCases, NEW c \in TestCase(t), NEW a \in Answers,
         c.state = "executing", InOrder(t, c),
         c.pos \in Steps(t), c.steps[c.pos] = "executing"
  PROVE  LET d == StepFinished(a, t, c) IN
         /\ d \in TestCase(t)
         /\ d.state = "executing" /\ d.pos = c.pos
         /\ InOrder(t, d)
         /\ Matches(a, t, c) => d.steps[d.pos] = "finished"
<1> DEFINE d == StepFinished(a, t, c)
<1>1. CASE ~Matches(a, t, c)
  BY <1>1 DEF StepFinished
<1>2. CASE Matches(a, t, c)
  <2> DEFINE r == StepResult(a, c.partial[c.pos])
  <2>1. d = [c EXCEPT !.steps[c.pos] = "finished", !.partial[c.pos] = r]
    BY <1>2 DEF StepFinished
  <2>2. c.partial[c.pos] \in {"none", "pass", "fail"}
    BY DEF TestCase
  <2>3. r \in {"none", "pass", "fail"}
    BY <2>2 DEF StepResult
  <2>4. Script[t][c.pos] = "verify" => a \in {"verify true", "verify false"}
    BY <1>2 DEF Matches, AnswerType, Answers
  <2>5. Script[t][c.pos] = "verify" => r # "none"
    <3>1. ASSUME a = "verify true" PROVE r # "none"
      <4>1. r = IF Supersedes(c.partial[c.pos], "pass") THEN "pass" ELSE c.partial[c.pos]
        BY <3>1 DEF StepResult
      <4>2. QED
        BY <2>2, <4>1, RankValues DEF Supersedes
    <3>2. ASSUME a = "verify false" PROVE r # "none"
      <4>1. r = IF Supersedes(c.partial[c.pos], "fail") THEN "fail" ELSE c.partial[c.pos]
        BY <3>2 DEF StepResult
      <4>2. QED
        BY <2>2, <4>1, RankValues DEF Supersedes
    <3>3. QED
      BY <2>4, <3>1, <3>2
  <2>6. d \in TestCase(t) /\ d.state = "executing" /\ d.pos = c.pos
    <3>1. /\ d.state = c.state /\ d.pos = c.pos /\ d.report = c.report
          /\ d.steps = [c.steps EXCEPT ![c.pos] = "finished"]
          /\ d.partial = [c.partial EXCEPT ![c.pos] = r]
          /\ d = [state |-> d.state, pos |-> d.pos, steps |-> d.steps,
                  partial |-> d.partial, report |-> d.report]
      BY <2>1 DEF TestCase
    <3>2. /\ d.steps \in [Steps(t) -> StepStates]
          /\ d.partial \in [Steps(t) -> {"none", "pass", "fail"}]
      BY <2>3, <3>1 DEF TestCase, StepStates
    <3>3. QED
      BY <3>1, <3>2 DEF TestCase
  <2>7. /\ \A i \in Steps(t) \ {c.pos} : d.steps[i] = c.steps[i] /\ d.partial[i] = c.partial[i]
        /\ d.steps[c.pos] = "finished" /\ d.partial[c.pos] = r
    BY <2>1 DEF TestCase
  <2>8. InOrder(t, d)
    BY <2>5, <2>6, <2>7, ScriptType DEF InOrder
  <2>9. QED
    BY <2>6, <2>7, <2>8
<1>3. QED
  BY <1>1, <1>2

-----------------------------------------------------------------------------
(* The chains of nested triggers establish the invariant *)

LEMMA NextTestcaseOK ==
  ASSUME NEW s
  PROVE  /\ NextTestcase(s) \in TestCases \cup {NoTC}
         /\ NextTestcase(s) # NoTC => s[NextTestcase(s)].state = "None"
         /\ NextTestcase(s) = NoTC => \A t \in TestCases : s[t].state # "None"
<1>1. TestCases \subseteq Nat /\ NoTC \notin TestCases
  BY ScriptAssumption DEF TestCases, NoTC
<1>2. CASE Idle(s) = {}
  BY <1>2 DEF NextTestcase, Idle
<1>3. CASE Idle(s) # {}
  <2>1. Idle(s) \in SUBSET Nat
    BY <1>1 DEF Idle
  <2>2. Least(Idle(s)) \in Idle(s)
    BY <1>3, <2>1, LeastIsLeast
  <2>3. QED
    BY <1>1, <1>3, <2>2 DEF NextTestcase, Idle
<1>4. QED
  BY <1>2, <1>3

LEMMA PrepareOK ==
  ASSUME TypeOK, Survives,
         NEW s, AtRest(s),
         NEW wanted \in TestCases \cup {NoTC},
         wanted # NoTC => s[wanted].state = "None",
         NEW sent \in Seq(Message),
         PrepareNextTestcase(s, wanted, sent)
  PROVE  IInv'
<1> DEFINE t == IF wanted = NoTC THEN NextTestcase(s) ELSE wanted
<1>1. /\ t \in TestCases \cup {NoTC}
      /\ t # NoTC => s[t].state = "None"
      /\ t = NoTC => \A u \in TestCases : s[u].state # "None"
  BY NextTestcaseOK
<1>2. current' = t /\ UNCHANGED <<alive, selection, nodes>>
  BY DEF PrepareNextTestcase
<1>3. NoTC \notin TestCases
  BY DEF TestCases, NoTC
<1>4. DOMAIN s = TestCases /\ \A u \in TestCases : CaseOK(u, s[u])
  BY DEF AtRest
<1>5. \A u \in TestCases : s[u].state \in {"None", "skipped", "finished"}
  BY DEF AtRest
<1>6. CASE t # NoTC
  <2>1. /\ fsm' = "waiting_for_iut_configuration_executed"
        /\ tc' = [s EXCEPT ![t].state = "configuring"]
        /\ out' = sent \o Sent("ConfigurationExecute", t)
        /\ sessionReport' = sessionReport
    BY <1>6 DEF PrepareNextTestcase
  <2>2. t \in TestCases /\ s[t].state = "None"
    BY <1>1, <1>6
  <2>3. /\ DOMAIN tc' = TestCases
        /\ tc'[t] = [s[t] EXCEPT !.state = "configuring"]
        /\ \A u \in TestCases \ {t} : tc'[u] = s[u]
    BY <1>4, <2>1, <2>2
  <2>4. CaseOK(t, tc'[t]) /\ tc'[t].state = "configuring" /\ tc'[t].pos = 0
    <3>1. s[t] \in TestCase(t) /\ Fresh(t, s[t])
      BY <1>4, <2>2 DEF CaseOK
    <3>2. tc'[t] \in TestCase(t) /\ tc'[t].state = "configuring"
      BY <2>3, <3>1 DEF TestCase, TcStates
    <3>3. Fresh(t, tc'[t])
      BY <2>3, <3>1 DEF TestCase, Fresh
    <3>4. QED
      BY <3>2, <3>3 DEF CaseOK, Fresh
  <2>5. \A u \in TestCases : CaseOK(u, tc'[u])
    BY <1>4, <2>3, <2>4
  <2>6. out' \in Seq(Message)
    <3>1. Sent("ConfigurationExecute", t) \in Seq(Message)
      BY <2>2, SentType DEF Notices
    <3>2. QED
      BY <2>1, <3>1, ConcatType
  <2>7. TypeOK'
    BY <1>2, <2>1, <2>2, <2>3, <2>5, <2>6 DEF TypeOK, CaseOK, FsmStates, Ongoing
  <2>8. OnlyCurrentUnderWay'
    BY <1>2, <1>5, <2>3 DEF OnlyCurrentUnderWay
  <2>9. FsmAgreesWithTestcase'
    BY <1>2, <2>1, <2>4 DEF FsmAgreesWithTestcase, NotStarted
  <2>10. CurrentKept' /\ NothingForgotten' /\ Survives' /\ NeverWedged'
    BY <1>2, <1>6, <2>1 DEF CurrentKept, NothingForgotten, Survives, NeverWedged
  <2>11. QED
    BY <2>1, <2>5, <2>7, <2>8, <2>9, <2>10 DEF IInv, NotStarted
<1>7. CASE t = NoTC
  <2>1. /\ fsm' = "testsuite_finished"
        /\ tc' = [u \in TestCases |-> Reported(s[u])]
        /\ sessionReport' = [u \in TestCases |-> Reported(s[u]).report]
        /\ out' = sent \o Sent("TestSuiteReport", NoTC)
    BY <1>7 DEF PrepareNextTestcase
  <2>2. /\ DOMAIN tc' = TestCases
        /\ \A u \in TestCases : tc'[u] = Reported(s[u]) /\ sessionReport'[u] = tc'[u].report
    BY <2>1
  <2>3. \A u \in TestCases : s[u] \in TestCase(u) /\ s[u].state \in {"skipped", "finished"}
    BY <1>1, <1>4, <1>5, <1>7 DEF CaseOK
  <2>4. \A u \in TestCases : /\ CaseOK(u, tc'[u])
                             /\ tc'[u].state \in {"skipped", "finished"}
                             /\ tc'[u].report \in VerdictValues
    BY <1>4, <2>2, <2>3, ReportedOK
  <2>5. out' \in Seq(Message)
    <3>1. Sent("TestSuiteReport", NoTC) \in Seq(Message)
      BY SentType DEF Notices
    <3>2. QED
      BY <2>1, <3>1, ConcatType
  <2>6. sessionReport' \in [TestCases -> Reports]
    BY <2>1, <2>2, <2>4 DEF Reports
  <2>7. TypeOK'
    BY <1>2, <1>7, <2>1, <2>2, <2>4, <2>5, <2>6 DEF TypeOK, CaseOK, FsmStates
  <2>8. OnlyCurrentUnderWay' /\ NothingForgotten'
    BY <2>2, <2>4 DEF OnlyCurrentUnderWay, NothingForgotten
  <2>9. FsmAgreesWithTestcase' /\ CurrentKept' /\ NeverWedged'
    BY <1>2, <1>7, <2>1 DEF FsmAgreesWithTestcase, CurrentKept, NeverWedged, Ongoing
  <2>10. Survives'
    BY <1>2 DEF Survives
  <2>11. QED
    BY <2>1, <2>4, <2>7, <2>8, <2>9, <2>10 DEF IInv, NotStarted
<1>8. QED
  BY <1>6, <1>7

\* No step up to the current one still waits for an answer, unless an answer
\* was of the wrong type.
Answered(t, c) ==
  "wrong_answer" \notin Irregular => \A i \in Steps(t) : i <= c.pos => c.steps[i] # "executing"

\* The test cases when the current one asks for its next step.
BetweenSteps(s) ==
  /\ DOMAIN s = TestCases
  /\ \A t \in TestCases : CaseOK(t, s[t])
  /\ \A t \in TestCases \ {current} : s[t].state \in {"None", "skipped", "finished"}
  /\ current \in TestCases
  /\ InOrder(current, s[current])
  /\ Answered(current, s[current])

LEMMA StepRequestedType ==
  ASSUME NEW t \in TestCases, NEW c \in TestCase(t), NEW i \in Steps(t)
  PROVE  LET d == StepRequested(c, i) IN
         /\ d \in TestCase(t)
         /\ d.state = "executing" /\ d.pos = i /\ d.partial = c.partial
         /\ d.steps[i] = "executing"
         /\ \A j \in Steps(t) \ {i} : d.steps[j] = c.steps[j]
<1> DEFINE d == StepRequested(c, i)
           f == [c.steps EXCEPT ![i] = "executing"]
<1>1. d = [c EXCEPT !.state = "executing", !.pos = i, !.steps = f]
  BY DEF TestCase, StepRequested
<1>2. f \in [Steps(t) -> StepStates]
  BY DEF TestCase, StepStates
<1>3. f[i] = "executing" /\ \A j \in Steps(t) \ {i} : f[j] = c.steps[j]
  BY DEF TestCase
<1>4. i \in 0..Len(Script[t])
  BY ScriptType DEF Steps
<1> HIDE DEF d, f
<1>5. d \in TestCase(t) /\ d.state = "executing" /\ d.pos = i
        /\ d.partial = c.partial /\ d.steps = f
  BY <1>1, <1>2, <1>4 DEF TestCase, TcStates
<1>6. QED
  BY <1>3, <1>5 DEF d

LEMMA ExecuteOK ==
  ASSUME TypeOK, Survives,
         NEW s, BetweenSteps(s),
         NEW before \in Seq(Message), NEW after \in Seq(Message),
         ExecuteNextStep(s, before, after)
  PROVE  IInv'
<1> DEFINE t == current
           left == StepsLeft(t, s[t])
           i == Least(left)
           c == s[t]
           d == StepRequested(c, i)
<1>1. /\ left # {}
      /\ fsm' = "waiting_for_step_executed"
      /\ tc' = [s EXCEPT ![t] = StepRequested(@, i)]
      /\ out' = before \o StepSent(t, i) \o after
      /\ UNCHANGED <<alive, current, selection, nodes, sessionReport>>
  BY DEF ExecuteNextStep
<1>2. t \in TestCases /\ c \in TestCase(t) /\ InOrder(t, c) /\ Answered(t, c)
  BY DEF BetweenSteps, CaseOK
<1>3. Steps(t) \subseteq Nat \ {0} /\ c.pos \in Nat
  BY <1>2, ScriptType DEF TestCase
<1>4. i \in left /\ \A j \in left : i <= j
  <2>1. left \in SUBSET Nat
    BY <1>3 DEF StepsLeft
  <2>2. QED
    BY <1>1, <2>1, LeastIsLeast
<1>5. i \in Steps(t) /\ i > c.pos /\ c.steps[i] # "postponed"
  BY <1>4 DEF StepsLeft
<1>6. \A j \in Steps(t) : j > c.pos /\ j < i => c.steps[j] = "postponed"
  <2> SUFFICES ASSUME NEW j \in Steps(t), j > c.pos, j < i PROVE c.steps[j] = "postponed"
    OBVIOUS
  <2>1. j \notin left
    BY <1>3, <1>4, <1>5
  <2>2. QED
    BY <2>1 DEF StepsLeft
<1>7. /\ DOMAIN tc' = TestCases
      /\ tc'[t] = d
      /\ \A u \in TestCases \ {t} : tc'[u] = s[u]
  BY <1>1, <1>2 DEF BetweenSteps
<1> HIDE DEF c, i
<1>9. /\ d \in TestCase(t)
      /\ d.state = "executing" /\ d.pos = i /\ d.partial = c.partial
      /\ d.steps[i] = "executing"
      /\ \A j \in Steps(t) \ {i} : d.steps[j] = c.steps[j]
  BY <1>2, <1>5, StepRequestedType
<1> USE DEF c
<1>11. InOrder(t, d)
  <2> SUFFICES ASSUME NEW j \in Steps(t)
      PROVE  /\ d.steps[j] = "postponed" <=> Script[t][j] \in Postponable
             /\ j > i => d.steps[j] \in {"None", "postponed"}
             /\ j <= i => d.steps[j] # "None"
             /\ j < i /\ "wrong_answer" \notin Irregular => d.steps[j] # "executing"
             /\ Script[t][j] = "verify" /\ d.steps[j] = "finished" => d.partial[j] # "none"
    BY <1>9 DEF InOrder
  <2>1. CASE j = i
    BY <1>2, <1>3, <1>5, <1>9, <2>1 DEF InOrder
  <2>2. CASE j # i
    <3>1. d.steps[j] = c.steps[j] /\ d.partial[j] = c.partial[j]
      BY <1>9, <2>2
    <3>2. /\ c.steps[j] = "postponed" <=> Script[t][j] \in Postponable
          /\ j > c.pos => c.steps[j] \in {"None", "postponed"}
          /\ j <= c.pos => c.steps[j] # "None"
          /\ Script[t][j] = "verify" /\ c.steps[j] = "finished" => c.partial[j] # "none"
      BY <1>2 DEF InOrder
    <3>3. j <= c.pos /\ "wrong_answer" \notin Irregular => c.steps[j] # "executing"
      BY <1>2 DEF Answered
    <3>4. j > i => j > c.pos
      BY <1>3, <1>5
    <3>5. j < i /\ j > c.pos => c.steps[j] = "postponed"
      BY <1>6
    <3>6. j \in Nat /\ i \in Nat /\ c.pos \in Nat
      BY <1>3, <1>5
    <3>7. QED
      BY <2>2, <3>1, <3>2, <3>3, <3>4, <3>5, <3>6
  <2>3. QED
    BY <2>1, <2>2
<1>12. \A u \in TestCases : CaseOK(u, tc'[u])
  BY <1>2, <1>7, <1>9, <1>11 DEF BetweenSteps, CaseOK
<1>13. out' \in Seq(Message)
  <2>1. StepSent(t, i) \in Seq(Message)
    BY <1>2, <1>3, <1>5, SentType
  <2>2. QED
    BY <1>1, <2>1, ConcatType
<1>14. TypeOK'
  BY <1>1, <1>2, <1>7, <1>12, <1>13 DEF TypeOK, CaseOK, FsmStates, Ongoing
<1>15. OnlyCurrentUnderWay'
  BY <1>1, <1>7 DEF BetweenSteps, OnlyCurrentUnderWay
<1>16. FsmAgreesWithTestcase'
  <2>1. current # NoTC /\ i > 0
    BY <1>2, <1>3, <1>5 DEF TestCases, NoTC
  <2>2. QED
    <3>1. /\ current' = t /\ current' # NoTC
          /\ tc'[t].state = "executing"
          /\ tc'[t].pos > 0
          /\ tc'[t].steps[tc'[t].pos] = "executing"
      BY <1>1, <1>7, <1>9, <2>1
    <3>2. QED
      BY <1>1, <3>1 DEF FsmAgreesWithTestcase, NotStarted
<1>17. CurrentKept' /\ NothingForgotten' /\ Survives' /\ NeverWedged'
  BY <1>1, <1>2 DEF CurrentKept, NothingForgotten, Survives, NeverWedged, TestCases, NoTC
<1>18. QED
  BY <1>1, <1>12, <1>14, <1>15, <1>16, <1>17 DEF IInv, NotStarted

\* A verdict is one, and no better than any answer it is made from.
LEMMA CaseVerdictOK ==
  ASSUME NEW t \in TestCases, NEW c \in TestCase(t),
         NEW captured \in BOOLEAN, NEW tat \in TatVerdicts \cup {Unusable}
  PROVE  /\ CaseVerdict(t, c, captured, tat) \in VerdictValues \ {"none"}
         /\ \A v \in VerifyVerdicts(t, c) : Supersedes(v, CaseVerdict(t, c, captured, tat))
<1>1. VerifyVerdicts(t, c) \subseteq VerdictValues
  BY DEF VerifyVerdicts, TestCase, VerdictValues
<1>2. CASE captured /\ tat # Unusable
  <2> DEFINE V == VerifyVerdicts(t, c) \cup {tat}
  <2>1. tat \in VerdictValues \ {"none"}
    BY <1>2, InputAssumption
  <2>2. V \in SUBSET VerdictValues
    BY <1>1, <2>1
  <2>3. /\ Worst(V) \in V \cup {"none"}
        /\ \A v \in V : Supersedes(v, Worst(V))
    BY <2>2, WorstIsWorst
  <2>4. Worst(V) # "none"
    BY <2>1, <2>3, RankValues DEF Supersedes, VerdictValues
  <2>5. QED
    BY <1>2, <2>2, <2>3, <2>4 DEF CaseVerdict, VerdictValues
<1>3. CASE ~(captured /\ tat # Unusable)
  <2>1. CaseVerdict(t, c, captured, tat) = "error"
    BY <1>3 DEF CaseVerdict
  <2>2. \A v \in VerdictValues : Supersedes(v, "error")
    BY RankValues DEF Supersedes, VerdictValues
  <2>3. QED
    BY <1>1, <2>1, <2>2 DEF VerdictValues
<1>4. QED
  BY <1>2, <1>3

LEMMA FinishOK ==
  ASSUME TypeOK, Survives,
         NEW s, BetweenSteps(s),
         NEW captured \in BOOLEAN, NEW tat \in TatVerdicts \cup {Unusable},
         FinishTestcase(s, captured, tat)
  PROVE  IInv'
<1> DEFINE t == current
           c == s[t]
           done == [s EXCEPT ![t].state = "finished", ![t].pos = Len(Script[t]),
                             ![t].report = CaseVerdict(t, c, captured, tat)]
           analysis == IF captured THEN Sent("InteropTestCaseAnalyze", t) ELSE <<>>
           sent == Sent("SniffingStop", NoTC) \o Sent("SniffingGetCapture", t) \o analysis
                     \o Sent("TestCaseFinished", t) \o Sent("TestCaseVerdict", t)
           d == done[t]
<1>1. /\ StepsLeft(t, c) = {}
      /\ AllStepsFinished(c)
      /\ PrepareNextTestcase(done, NoTC, sent)
  BY DEF FinishTestcase
<1>2. t \in TestCases /\ c \in TestCase(t) /\ InOrder(t, c)
  BY DEF BetweenSteps, CaseOK
<1>3. /\ DOMAIN done = TestCases
      /\ d = [c EXCEPT !.state = "finished", !.pos = Len(Script[t]),
                       !.report = CaseVerdict(t, c, captured, tat)]
      /\ \A u \in TestCases \ {t} : done[u] = s[u]
  BY <1>2 DEF BetweenSteps
<1>4. /\ CaseVerdict(t, c, captured, tat) \in VerdictValues \ {"none"}
      /\ \A v \in VerifyVerdicts(t, c) : Supersedes(v, CaseVerdict(t, c, captured, tat))
  BY <1>2, CaseVerdictOK
<1>5. d \in TestCase(t) /\ d.state = "finished"
  <2>1. Len(Script[t]) \in 0..Len(Script[t])
    BY <1>2, ScriptType
  <2>2. QED
    BY <1>2, <1>3, <1>4, <2>1 DEF TestCase, TcStates, Reports
<1>6. \A i \in Steps(t) : Script[t][i] \notin Postponable => c.steps[i] = "finished"
  <2> SUFFICES ASSUME NEW i \in Steps(t), Script[t][i] \notin Postponable
      PROVE  c.steps[i] = "finished"
    OBVIOUS
  <2>1. c.steps[i] \in StepStates /\ c.steps[i] # "postponed"
    BY <1>2 DEF TestCase, InOrder
  <2>2. c.steps[i] \notin {"None", "executing"}
    BY <1>1, <1>2 DEF AllStepsFinished, TestCase
  <2>3. QED
    BY <2>1, <2>2 DEF StepStates
<1>7. Earned(t, d)
  <2>1. d.steps = c.steps /\ d.partial = c.partial /\ d.report = CaseVerdict(t, c, captured, tat)
    BY <1>2, <1>3 DEF TestCase
  <2>2. ASSUME NEW i \in Steps(t), Script[t][i] = "verify"
        PROVE  c.partial[i] # "none" /\ c.partial[i] \in VerifyVerdicts(t, c)
    <3>1. c.steps[i] = "finished"
      BY <1>6, <2>2 DEF Postponable
    <3>2. QED
      BY <1>2, <2>2, <3>1 DEF InOrder, VerifyVerdicts
  <2>3. QED
    BY <1>4, <1>6, <2>1, <2>2 DEF Earned
<1>8. AtRest(done)
  BY <1>2, <1>3, <1>5, <1>7 DEF AtRest, BetweenSteps, CaseOK
<1>9. sent \in Seq(Message)
  <2>1. /\ Sent("SniffingStop", NoTC) \in Seq(Message)
        /\ Sent("SniffingGetCapture", t) \in Seq(Message)
        /\ Sent("InteropTestCaseAnalyze", t) \in Seq(Message)
        /\ Sent("TestCaseFinished", t) \in Seq(Message)
        /\ Sent("TestCaseVerdict", t) \in Seq(Message)
        /\ <<>> \in Seq(Message)
    BY <1>2, SentType DEF Notices
  <2>2. analysis \in Seq(Message)
    BY <2>1
  <2>3. Sent("SniffingStop", NoTC) \o Sent("SniffingGetCapture", t) \in Seq(Message)
    BY <2>1, ConcatType
  <2>4. Sent("SniffingStop", NoTC) \o Sent("SniffingGetCapture", t) \o analysis \in Seq(Message)
    BY <2>2, <2>3, ConcatType
  <2>5. Sent("SniffingStop", NoTC) \o Sent("SniffingGetCapture", t) \o analysis
          \o Sent("TestCaseFinished", t) \in Seq(Message)
    BY <2>1, <2>4, ConcatType
  <2>6. QED
    BY <2>1, <2>5, ConcatType
<1>10. QED
  <2> HIDE DEF done, sent
  <2>1. QED
    BY <1>1, <1>8, <1>9, PrepareOK

LEMMA FailOK ==
  ASSUME TypeOK, Survives,
         NEW s, BetweenSteps(s), FailToFinish(s)
  PROVE  IInv'
<1> DEFINE t == current
           c == s[t]
           d == [c EXCEPT !.state = "ready_for_analysis", !.pos = Len(Script[t])]
<1>1. /\ StepsLeft(t, c) = {}
      /\ ~AllStepsFinished(c)
      /\ fsm' = "preparing_next_step"
      /\ tc' = [s EXCEPT ![t].state = "ready_for_analysis", ![t].pos = Len(Script[t])]
      /\ out' = <<>>
      /\ UNCHANGED <<alive, current, selection, nodes, sessionReport>>
  BY DEF FailToFinish
<1>2. t \in TestCases /\ c \in TestCase(t) /\ InOrder(t, c) /\ Answered(t, c)
  BY DEF BetweenSteps, CaseOK
<1>3. Len(Script[t]) \in Nat /\ Steps(t) \subseteq Nat /\ c.pos \in Nat
  BY <1>2, ScriptType DEF TestCase
<1>4. /\ DOMAIN tc' = TestCases
      /\ tc'[t] = d
      /\ \A u \in TestCases \ {t} : tc'[u] = s[u]
  BY <1>1, <1>2 DEF BetweenSteps
<1>5. /\ d \in TestCase(t) /\ d.state = "ready_for_analysis" /\ d.pos = Len(Script[t])
      /\ d.steps = c.steps /\ d.partial = c.partial
  <2>1. Len(Script[t]) \in 0..Len(Script[t])
    BY <1>3
  <2>2. QED
    BY <1>2, <2>1 DEF TestCase, TcStates
<1>6. \A i \in Steps(t) : i > c.pos => c.steps[i] = "postponed"
  BY <1>1 DEF StepsLeft
<1>7. InOrder(t, d)
  <2> SUFFICES ASSUME NEW i \in Steps(t)
      PROVE  /\ c.steps[i] = "postponed" <=> Script[t][i] \in Postponable
             /\ i > Len(Script[t]) => c.steps[i] \in {"None", "postponed"}
             /\ i <= Len(Script[t]) => c.steps[i] # "None"
             /\ i < Len(Script[t]) /\ "wrong_answer" \notin Irregular => c.steps[i] # "executing"
             /\ Script[t][i] = "verify" /\ c.steps[i] = "finished" => c.partial[i] # "none"
    BY <1>5 DEF InOrder
  <2>1. i \in Nat /\ i <= Len(Script[t])
    BY <1>3 DEF Steps
  <2>2. CASE i > c.pos
    BY <1>2, <1>3, <1>6, <2>1, <2>2 DEF InOrder
  <2>3. CASE i <= c.pos
    BY <1>2, <1>3, <2>1, <2>3 DEF InOrder, Answered
  <2>4. QED
    BY <1>3, <2>1, <2>2, <2>3
<1>8. \A u \in TestCases : CaseOK(u, tc'[u])
  BY <1>2, <1>4, <1>5, <1>7 DEF BetweenSteps, CaseOK
<1>9. TypeOK'
  BY <1>1, <1>2, <1>4, <1>8 DEF TypeOK, CaseOK, FsmStates
<1>10. OnlyCurrentUnderWay'
  BY <1>1, <1>4 DEF BetweenSteps, OnlyCurrentUnderWay
<1>11. FsmAgreesWithTestcase'
  <2>1. current # NoTC
    BY <1>2 DEF TestCases, NoTC
  <2>2. QED
    BY <1>1, <1>4, <1>5, <2>1 DEF FsmAgreesWithTestcase, NotStarted, AllStepsFinished
<1>12. "wrong_answer" \in Irregular
  <2>1. SUFFICES ASSUME "wrong_answer" \notin Irregular PROVE AllStepsFinished(c)
    BY <1>1
  <2>2. ASSUME NEW i \in Steps(t) PROVE c.steps[i] \notin {"None", "executing"}
    BY <1>2, <1>3, <1>6, <2>1 DEF InOrder, Answered
  <2>3. QED
    BY <1>2, <2>2 DEF AllStepsFinished, TestCase
<1>13. CurrentKept' /\ NothingForgotten' /\ Survives' /\ NeverWedged'
  BY <1>1, <1>12 DEF CurrentKept, NothingForgotten, Survives, NeverWedged, Ongoing
<1>14. QED
  BY <1>1, <1>8, <1>9, <1>10, <1>11, <1>13 DEF IInv, NotStarted

-----------------------------------------------------------------------------
(* Every event keeps the invariant *)

LEMMA NoTCType == NoTC \notin TestCases
BY DEF NoTC, TestCases

LEMMA ReentryNoticesType ==
  ASSUME TypeOK, FsmAgreesWithTestcase
  PROVE  ReentryNotices \in Seq(Message)
<1>1. /\ \A m \in {"TestingToolConfigured", "TestSuiteStarted", "TestSuiteReport"} :
           Sent(m, NoTC) \in Seq(Message)
      /\ <<>> \in Seq(Message)
  BY SentType DEF Notices
<1>2. fsm = "waiting_for_step_executed" => StepSent(current, tc[current].pos) \in Seq(Message)
  <2> SUFFICES ASSUME fsm = "waiting_for_step_executed"
      PROVE  StepSent(current, tc[current].pos) \in Seq(Message)
    OBVIOUS
  <2>1. current \in TestCases
    BY NoTCType DEF TypeOK, FsmAgreesWithTestcase
  <2>2. tc[current].pos \in Nat
    BY <2>1, ScriptType DEF TypeOK, TestCase
  <2>3. QED
    BY <2>1, <2>2, SentType
<1>3. QED
  BY <1>1, <1>2 DEF ReentryNotices

LEMMA InitOK == Init => IInv
<1> SUFFICES ASSUME Init PROVE IInv
  OBVIOUS
<1>1. /\ DOMAIN tc = TestCases
      /\ \A t \in TestCases :
           tc[t] = [state |-> "None", pos |-> 0, steps |-> [i \in Steps(t) |-> "None"],
                    partial |-> [i \in Steps(t) |-> "none"], report |-> NoReport]
  BY DEF Init
<1>2. ASSUME NEW t \in TestCases PROVE tc[t] \in TestCase(t)
  <2>1. 0 \in 0..Len(Script[t])
    BY ScriptType
  <2>2. /\ [i \in Steps(t) |-> "None"] \in [Steps(t) -> StepStates]
        /\ [i \in Steps(t) |-> "none"] \in [Steps(t) -> {"none", "pass", "fail"}]
    BY DEF StepStates
  <2>3. QED
    BY <1>1, <2>1, <2>2 DEF TestCase, TcStates, Reports
<1>3. TypeOK
  BY <1>1, <1>2 DEF Init, TypeOK, FsmStates, NotStarted, Reports
<1>4. QED
  BY <1>1, <1>3, NoTCType DEF Init, IInv, NotStarted, Ongoing, OnlyCurrentUnderWay,
       FsmAgreesWithTestcase, NothingForgotten, CurrentKept, Survives, NeverWedged

\* An event that only makes the coordinator publish.
LEMMA PublishOK ==
  ASSUME IInv, UNCHANGED <<alive, fsm, current, tc, selection, sessionReport>>,
         nodes' \subseteq Agents, out' \in Seq(Message)
  PROVE  IInv'
BY DEF IInv, TypeOK, OnlyCurrentUnderWay, FsmAgreesWithTestcase, NothingForgotten,
       CurrentKept, Survives, NeverWedged

LEMMA DiesOK ==
  ASSUME IInv, NEW p \in Seq(Message), Dies(p), Irregular \cap Fatal # {}
  PROVE  IInv'
<1>1. alive' = FALSE /\ out' = p
  BY DEF Dies
<1>2. UNCHANGED <<fsm, current, tc, selection, nodes, sessionReport>>
  BY DEF Dies
<1>3. Survives'
  BY DEF Survives
<1>4. TypeOK'
  BY <1>1, <1>2 DEF IInv, TypeOK
<1>5. QED
  BY <1>2, <1>3, <1>4 DEF IInv, OnlyCurrentUnderWay, FsmAgreesWithTestcase,
       NothingForgotten, CurrentKept, NeverWedged

LEMMA ConfigureTestsuiteOK ==
  ASSUME IInv, NEW listed \in SUBSET TestCases, NEW folded \in SUBSET TestCases,
         ConfigureTestsuite(listed, folded)
  PROVE  IInv'
<1>1. /\ fsm = "waiting_for_testsuite_config" /\ fsm' = "waiting_for_testsuite_start"
      /\ selection' = listed \cup folded
      /\ tc' = [t \in TestCases |-> IF t \in listed THEN tc[t] ELSE Skipped(tc[t])]
      /\ out' = Sent("TestingToolConfigured", NoTC)
      /\ UNCHANGED <<alive, current, nodes, sessionReport>>
  BY DEF ConfigureTestsuite
<1>2. \A t \in TestCases : tc[t] \in TestCase(t) /\ tc[t].state \in {"None", "skipped"}
  BY <1>1 DEF IInv, TypeOK, NotStarted
<1>3. DOMAIN tc' = TestCases
  BY <1>1
<1>4. \A t \in TestCases : tc'[t] \in TestCase(t) /\ tc'[t].state \in {"None", "skipped"}
  BY <1>1, <1>2, SkippedOK DEF CaseOK
<1>5. out' \in Seq(Message)
  BY <1>1, SentType DEF Notices
<1>6. TypeOK'
  BY <1>1, <1>3, <1>4, <1>5 DEF IInv, TypeOK, FsmStates, NotStarted
<1>7. current' = NoTC
  BY <1>1 DEF IInv, FsmAgreesWithTestcase, NotStarted
<1>8. QED
  BY <1>1, <1>4, <1>6, <1>7 DEF IInv, NotStarted, Ongoing, OnlyCurrentUnderWay,
       FsmAgreesWithTestcase, NothingForgotten, CurrentKept, Survives, NeverWedged

LEMMA StartTestsuiteOK ==
  ASSUME IInv, StartTestsuite
  PROVE  IInv'
<1> DEFINE s == [t \in TestCases |-> LET c == Reinit(t, tc[t])
                                     IN IF t \in selection THEN c ELSE Skipped(c)]
           sent == Sent("AgentTunStart", NoTC) \o ReentryNotices
<1>1. PrepareNextTestcase(s, NoTC, sent)
  BY DEF StartTestsuite
<1>2. ASSUME NEW t \in TestCases
      PROVE  CaseOK(t, s[t]) /\ s[t].state \in {"None", "skipped", "finished"}
  <2>1. CaseOK(t, Reinit(t, tc[t])) /\ Reinit(t, tc[t]).state = "None"
    BY ReinitOK DEF IInv, TypeOK
  <2>2. CaseOK(t, Skipped(Reinit(t, tc[t]))) /\ Skipped(Reinit(t, tc[t])).state = "skipped"
    BY <2>1, SkippedOK DEF CaseOK
  <2>3. QED
    BY <2>1, <2>2
<1>3. AtRest(s)
  BY <1>2 DEF AtRest
<1>4. sent \in Seq(Message)
  BY SentType, ReentryNoticesType, ConcatType DEF IInv, Notices
<1>5. QED
  <2> HIDE DEF s, sent
  <2>1. QED
    BY <1>1, <1>3, <1>4, PrepareOK DEF IInv

LEMMA IutConfigurationExecutedOK ==
  ASSUME IInv, NEW a \in Agents, IutConfigurationExecuted(a)
  PROVE  IInv'
<1>1. nodes' \subseteq Agents /\ UNCHANGED <<current, selection>>
  BY DEF IutConfigurationExecuted, IInv, TypeOK
<1>2. ReentryNotices \in Seq(Message)
  BY ReentryNoticesType DEF IInv
<1>3. CASE /\ fsm = "waiting_for_iut_configuration_executed"
           /\ fsm' = "waiting_for_testcase_start"
           /\ alive' = (current # NoTC)
           /\ out' = IF current = NoTC THEN <<>> ELSE Sent("TestCaseReady", current)
           /\ UNCHANGED <<tc, sessionReport>>
  <2>1. current # NoTC => Sent("TestCaseReady", current) \in Seq(Message)
    BY SentType DEF IInv, TypeOK, Notices
  <2>2. TypeOK'
    BY <1>1, <1>3, <2>1 DEF IInv, TypeOK, FsmStates, Ongoing
  <2>3. CurrentKept' /\ Survives'
    <3>1. "unknown_testcase" \in Fatal
      BY DEF Fatal, IrregularInputs
    <3>2. "unknown_testcase" \notin Irregular => current # NoTC
      BY <1>3 DEF IInv, CurrentKept, Ongoing
    <3>3. CurrentKept'
      BY <1>1, <3>2 DEF CurrentKept
    <3>4. Irregular \cap Fatal = {} => current # NoTC
      BY <3>1, <3>2
    <3>5. QED
      BY <1>3, <3>3, <3>4 DEF Survives
  <2>4. QED
    BY <1>1, <1>3, <2>2, <2>3 DEF IInv, NotStarted, OnlyCurrentUnderWay,
         FsmAgreesWithTestcase, NothingForgotten, NeverWedged
<1>4. CASE out' = ReentryNotices /\ UNCHANGED <<alive, fsm, tc, sessionReport>>
  BY <1>1, <1>2, <1>4, PublishOK
<1>5. CASE /\ fsm = "testsuite_finished"
           /\ tc' = [u \in TestCases |-> Reported(tc[u])]
           /\ sessionReport' = [u \in TestCases |-> Reported(tc[u]).report]
           /\ out' = ReentryNotices
           /\ UNCHANGED <<alive, fsm>>
  <2>1. \A u \in TestCases : /\ CaseOK(u, tc[u])
                             /\ tc[u].state \in {"finished", "skipped"}
    BY <1>5 DEF IInv, NotStarted, NothingForgotten
  <2>2. \A u \in TestCases : /\ CaseOK(u, Reported(tc[u]))
                             /\ Reported(tc[u]).state \in {"finished", "skipped"}
                             /\ Reported(tc[u]).report \in VerdictValues
    BY <2>1, ReportedOK DEF CaseOK
  <2>3. /\ DOMAIN tc' = TestCases
        /\ \A u \in TestCases : tc'[u] = Reported(tc[u]) /\ sessionReport'[u] = tc'[u].report
    BY <1>5
  <2>4. sessionReport' \in [TestCases -> Reports]
    BY <1>5, <2>2 DEF Reports
  <2>5. TypeOK'
    BY <1>1, <1>2, <1>5, <2>2, <2>3, <2>4 DEF IInv, TypeOK, CaseOK
  <2>6. OnlyCurrentUnderWay' /\ NothingForgotten'
    BY <2>2, <2>3 DEF OnlyCurrentUnderWay, NothingForgotten
  <2>7. QED
    BY <1>1, <1>5, <2>2, <2>3, <2>5, <2>6 DEF IInv, NotStarted, Ongoing,
         FsmAgreesWithTestcase, CurrentKept, Survives, NeverWedged
<1>6. QED
  BY <1>3, <1>4, <1>5 DEF IutConfigurationExecuted

LEMMA IutConfigurationTimeoutOK ==
  ASSUME IInv, IutConfigurationTimeout
  PROVE  IInv'
<1>1. /\ fsm = "waiting_for_iut_configuration_executed"
      /\ fsm' = "waiting_for_testcase_start"
      /\ out' = IF current = NoTC THEN <<>> ELSE Sent("TestCaseReady", current)
      /\ UNCHANGED <<alive, current, tc, selection, nodes, sessionReport>>
  BY DEF IutConfigurationTimeout
<1>2. current # NoTC => Sent("TestCaseReady", current) \in Seq(Message)
  BY SentType DEF IInv, TypeOK, Notices
<1>3. TypeOK'
  BY <1>1, <1>2 DEF IInv, TypeOK, FsmStates, Ongoing
<1>4. QED
  BY <1>1, <1>3 DEF IInv, NotStarted, Ongoing, OnlyCurrentUnderWay,
       FsmAgreesWithTestcase, NothingForgotten, CurrentKept, Survives, NeverWedged

LEMMA StartTestcaseOK ==
  ASSUME IInv, StartTestcase
  PROVE  IInv'
<1> DEFINE before == Sent("SniffingStart", current)
                       \o (IF current \in Lossy THEN Sent("RoutingStartLossyLink", NoTC) ELSE <<>>)
           after == Sent("TestCaseStarted", current)
<1>1. /\ fsm \in {"waiting_for_testcase_start", "waiting_for_iut_configuration_executed"}
      /\ current \in TestCases
      /\ ExecuteNextStep(tc, before, after)
  BY DEF StartTestcase, IInv, TypeOK
<1>2. /\ \A t \in TestCases : CaseOK(t, tc[t])
      /\ \A t \in TestCases \ {current} : tc[t].state \in {"None", "skipped", "finished"}
      /\ tc[current].state = "configuring"
      /\ DOMAIN tc = TestCases
  BY <1>1, NoTCType DEF IInv, TypeOK, NotStarted, OnlyCurrentUnderWay, FsmAgreesWithTestcase
<1>3. Fresh(current, tc[current])
  BY <1>1, <1>2 DEF CaseOK
<1>4. \A i \in Steps(current) :
        /\ i > 0
        /\ tc[current].steps[i] = IF Script[current][i] \in Postponable THEN "postponed" ELSE "None"
  BY <1>1, <1>3, ScriptType DEF Fresh, FreshSteps
<1>5. InOrder(current, tc[current]) /\ Answered(current, tc[current])
  BY <1>1, <1>3, <1>4, ScriptType DEF Fresh, InOrder, Answered
<1>6. BetweenSteps(tc)
  BY <1>1, <1>2, <1>5 DEF BetweenSteps
<1>7. before \in Seq(Message) /\ after \in Seq(Message)
  <2>1. /\ Sent("SniffingStart", current) \in Seq(Message)
        /\ Sent("RoutingStartLossyLink", NoTC) \in Seq(Message)
        /\ after \in Seq(Message)
        /\ <<>> \in Seq(Message)
    BY <1>1, SentType DEF Notices
  <2>2. QED
    BY <2>1, ConcatType
<1>8. QED
  <2> HIDE DEF before, after
  <2>1. QED
    BY <1>1, <1>6, <1>7, ExecuteOK DEF IInv

LEMMA StepExecutedOK ==
  ASSUME IInv, NEW a \in Answers, NEW captured \in BOOLEAN,
         NEW tat \in TatVerdicts \cup {Unusable}, StepExecuted(a, captured, tat)
  PROVE  IInv'
<1> DEFINE s == [tc EXCEPT ![current] = StepFinished(a, current, @)]
           c == tc[current]
           d == s[current]
<1>1. /\ fsm = "waiting_for_step_executed"
      /\ Matches(a, current, c) \/ "wrong_answer" \in Irregular
      /\ \/ ExecuteNextStep(s, <<>>, <<>>)
         \/ FinishTestcase(s, captured, tat)
         \/ FailToFinish(s)
  BY DEF StepExecuted
<1>2. /\ current \in TestCases
      /\ c.state = "executing"
      /\ c.pos > 0
      /\ c.steps[c.pos] = "executing"
  BY <1>1, NoTCType DEF IInv, TypeOK, FsmAgreesWithTestcase
<1>3. /\ DOMAIN tc = TestCases
      /\ \A t \in TestCases : CaseOK(t, tc[t])
      /\ \A t \in TestCases \ {current} : tc[t].state \in {"None", "skipped", "finished"}
  BY <1>1 DEF IInv, TypeOK, NotStarted, OnlyCurrentUnderWay
<1>4. c \in TestCase(current) /\ InOrder(current, c) /\ c.pos \in Steps(current)
  <2>1. c \in TestCase(current) /\ InOrder(current, c)
    BY <1>2, <1>3 DEF CaseOK
  <2>2. c.pos \in 0..Len(Script[current]) /\ Len(Script[current]) \in Nat
    BY <1>2, <2>1, ScriptType DEF TestCase
  <2>3. QED
    BY <1>2, <2>1, <2>2 DEF Steps
<1>5. /\ DOMAIN s = TestCases
      /\ d = StepFinished(a, current, c)
      /\ \A t \in TestCases \ {current} : s[t] = tc[t]
  BY <1>2, <1>3
<1>6. /\ d \in TestCase(current)
      /\ d.state = "executing" /\ d.pos = c.pos
      /\ InOrder(current, d)
      /\ Matches(a, current, c) => d.steps[d.pos] = "finished"
  BY <1>2, <1>4, <1>5, StepFinishedOK
<1>7. Answered(current, d)
  <2> SUFFICES ASSUME "wrong_answer" \notin Irregular,
                      NEW i \in Steps(current), i <= d.pos
               PROVE  d.steps[i] # "executing"
    BY DEF Answered
  <2>1. i \in Nat /\ d.pos \in Nat
    BY <1>2, <1>4, <1>6, ScriptType
  <2>2. CASE i = d.pos
    BY <1>1, <1>6, <2>2
  <2>3. CASE i < d.pos
    BY <1>6, <2>3 DEF InOrder
  <2>4. QED
    BY <2>1, <2>2, <2>3
<1>8. BetweenSteps(s)
  <2>1. \A t \in TestCases : CaseOK(t, s[t])
    BY <1>3, <1>5, <1>6 DEF CaseOK
  <2>2. QED
    BY <1>2, <1>3, <1>5, <1>6, <1>7, <2>1 DEF BetweenSteps
<1>9. TypeOK /\ Survives
  BY DEF IInv
<1>10. QED
  <2> HIDE DEF s
  <2>1. CASE ExecuteNextStep(s, <<>>, <<>>)
    <3>1. <<>> \in Seq(Message)
      OBVIOUS
    <3>2. QED
      BY <1>8, <1>9, <2>1, <3>1, ExecuteOK
  <2>2. CASE FinishTestcase(s, captured, tat)
    BY <1>8, <1>9, <2>2, FinishOK
  <2>3. CASE FailToFinish(s)
    BY <1>8, <1>9, <2>3, FailOK
  <2>4. QED
    BY <1>1, <2>1, <2>2, <2>3

\* What the events of an ongoing suite find: only the current test case is not
\* at rest.
LEMMA OngoingCases ==
  ASSUME IInv, fsm \in Ongoing
  PROVE  /\ DOMAIN tc = TestCases
         /\ current \in TestCases \cup {NoTC}
         /\ \A t \in TestCases : CaseOK(t, tc[t]) /\ tc[t] \in TestCase(t)
         /\ \A t \in TestCases \ {current} : tc[t].state \in {"None", "skipped", "finished"}
BY DEF IInv, TypeOK, CaseOK, Ongoing, NotStarted, OnlyCurrentUnderWay

LEMMA RestartTestcaseOK ==
  ASSUME IInv, RestartTestcase
  PROVE  IInv'
<1> DEFINE s == [tc EXCEPT ![current] = Reinit(current, @)]
<1>1. fsm \in Ongoing /\ current # NoTC /\ PrepareNextTestcase(s, current, <<>>)
  BY DEF RestartTestcase
<1>2. current \in TestCases
  BY <1>1, OngoingCases
<1>3. /\ DOMAIN s = TestCases
      /\ s[current] = Reinit(current, tc[current])
      /\ \A t \in TestCases \ {current} : s[t] = tc[t]
  BY <1>1, <1>2, OngoingCases
<1>4. CaseOK(current, s[current]) /\ s[current].state = "None"
  BY <1>1, <1>2, <1>3, OngoingCases, ReinitOK
<1>5. AtRest(s)
  BY <1>1, <1>3, <1>4, OngoingCases DEF AtRest
<1>6. <<>> \in Seq(Message) /\ TypeOK /\ Survives
  BY DEF IInv
<1>7. QED
  <2> HIDE DEF s
  <2>1. QED
    BY <1>1, <1>2, <1>4, <1>5, <1>6, PrepareOK

LEMMA SelectTestcaseOK ==
  ASSUME IInv, NEW id \in TestCases \cup {NoTC, UnknownTC}, SelectTestcase(id)
  PROVE  IInv'
<1> DEFINE s == [t \in TestCases |-> IF t = current THEN Reinit(t, tc[t]) ELSE tc[t]]
           wanted == CASE id = NoTC -> current
                       [] id = UnknownTC -> NoTC
                       [] OTHER -> id
           r == [t \in TestCases |-> IF t = wanted THEN Reinit(t, s[t]) ELSE s[t]]
<1>1. fsm \in Ongoing /\ PrepareNextTestcase(r, wanted, <<>>)
  BY DEF SelectTestcase
<1>2. wanted \in TestCases \cup {NoTC}
  BY <1>1, OngoingCases
<1>3. ASSUME NEW t \in TestCases
      PROVE  CaseOK(t, s[t]) /\ s[t] \in TestCase(t) /\ s[t].state \in {"None", "skipped", "finished"}
  <2>1. CASE t = current
    <3>1. s[t] = Reinit(t, tc[t])
      BY <2>1
    <3>2. QED
      BY <1>1, <3>1, OngoingCases, ReinitOK DEF CaseOK
  <2>2. CASE t # current
    <3>1. s[t] = tc[t]
      BY <2>2
    <3>2. QED
      BY <1>1, <2>2, <3>1, OngoingCases
  <2>3. QED
    BY <2>1, <2>2
<1> HIDE DEF s, wanted
<1>4. ASSUME NEW t \in TestCases
      PROVE  /\ CaseOK(t, r[t]) /\ r[t].state \in {"None", "skipped", "finished"}
             /\ t = wanted => r[t].state = "None"
  BY <1>3, ReinitOK
<1>5. AtRest(r)
  BY <1>4 DEF AtRest
<1>6. wanted # NoTC => r[wanted].state = "None"
  BY <1>2, <1>4
<1>7. <<>> \in Seq(Message) /\ TypeOK /\ Survives
  BY DEF IInv
<1>8. QED
  <2> HIDE DEF r
  <2>1. QED
    BY <1>1, <1>2, <1>5, <1>6, <1>7, PrepareOK

LEMMA SkipCurrentTestcaseOK ==
  ASSUME IInv, NEW id \in TestCases \cup {NoTC}, SkipCurrentTestcase(id)
  PROVE  IInv'
<1> DEFINE s == [tc EXCEPT ![current] = Skipped(@)]
           sent == IF id = current /\ tc[current].state = "executing"
                   THEN Sent("SniffingStop", NoTC) ELSE <<>>
<1>1. fsm \in Ongoing /\ current # NoTC /\ PrepareNextTestcase(s, NoTC, sent)
  BY DEF SkipCurrentTestcase
<1>2. current \in TestCases
  BY <1>1, OngoingCases
<1>3. /\ DOMAIN s = TestCases
      /\ s[current] = Skipped(tc[current])
      /\ \A t \in TestCases \ {current} : s[t] = tc[t]
  BY <1>1, <1>2, OngoingCases
<1>4. CaseOK(current, s[current]) /\ s[current].state = "skipped"
  BY <1>1, <1>2, <1>3, OngoingCases, SkippedOK
<1>5. AtRest(s)
  BY <1>1, <1>3, <1>4, OngoingCases DEF AtRest
<1>6. sent \in Seq(Message)
  BY SentType DEF Notices
<1>7. TypeOK /\ Survives
  BY DEF IInv
<1>8. QED
  <2> HIDE DEF s, sent
  <2>1. QED
    BY <1>1, <1>5, <1>6, <1>7, PrepareOK

LEMMA SkipOtherTestcaseOK ==
  ASSUME IInv, NEW id \in TestCases, SkipOtherTestcase(id)
  PROVE  IInv'
<1>1. /\ fsm \in Ongoing \cup {"waiting_for_testsuite_config"}
      /\ id # current
      /\ tc' = [tc EXCEPT ![id] = Skipped(@)]
      /\ out' = ReentryNotices
      /\ UNCHANGED <<alive, fsm, current, selection, nodes, sessionReport>>
  BY DEF SkipOtherTestcase
<1>2. /\ DOMAIN tc' = TestCases
      /\ tc'[id] = Skipped(tc[id])
      /\ \A t \in TestCases \ {id} : tc'[t] = tc[t]
  BY <1>1 DEF IInv, TypeOK
<1>3. CaseOK(id, tc'[id]) /\ tc'[id].state = "skipped"
  BY <1>2, SkippedOK DEF IInv, TypeOK
<1>4. out' \in Seq(Message)
  BY <1>1, ReentryNoticesType DEF IInv
<1>5. TypeOK'
  BY <1>1, <1>2, <1>3, <1>4 DEF IInv, TypeOK, CaseOK
<1>6. OnlyCurrentUnderWay'
  BY <1>1, <1>2, <1>3 DEF IInv, OnlyCurrentUnderWay
<1>7. FsmAgreesWithTestcase'
  <2>1. current # NoTC => current \in TestCases /\ tc'[current] = tc[current]
    BY <1>1, <1>2 DEF IInv, TypeOK
  <2>2. QED
    BY <1>1, <2>1 DEF IInv, FsmAgreesWithTestcase
<1>8. /\ fsm' \in NotStarted => \A t \in TestCases : tc'[t].state \in {"None", "skipped"}
      /\ fsm' \notin NotStarted => \A t \in TestCases : CaseOK(t, tc'[t])
  BY <1>1, <1>2, <1>3 DEF IInv
<1>9. NothingForgotten' /\ CurrentKept' /\ Survives' /\ NeverWedged'
  BY <1>1 DEF IInv, NothingForgotten, CurrentKept, Survives, NeverWedged, Ongoing
<1>10. QED
  BY <1>5, <1>6, <1>7, <1>8, <1>9 DEF IInv

\* The events that can only end the process.
FatalEvents ==
  \/ IutConfigurationWithoutAddress
  \/ StartWithoutTestcase
  \/ \E a \in Answers, captured \in BOOLEAN : AnswerUnreadable(a, captured)
  \/ SkipWithoutId
  \/ UnreadableValue

Ended == alive' = FALSE /\ UNCHANGED <<fsm, current, tc, selection, nodes, sessionReport>>

\* A process that has ended handles nothing.
LEMMA OnlyTheLivingAct ==
  ASSUME Next
  PROVE  alive
BY DEF Next, ConfigureTestsuite, StartTestsuite, IutConfigurationExecuted,
   IutConfigurationWithoutAddress, IutConfigurationTimeout, StartTestcase,
   StartWithoutTestcase, StepExecuted, AnswerUnreadable, RestartTestcase, SelectTestcase,
   SkipCurrentTestcase, SkipOtherTestcase, SkipUnknownTestcase, SkipWithoutId,
   UnreadableValue

\* They publish something and end it, and each is an irregular input or follows
\* one.
LEMMA FatalEventsEnd ==
  ASSUME IInv, FatalEvents
  PROVE  /\ Ended
         /\ \E p \in Seq(Message) : Dies(p)
         /\ Irregular \cap Fatal # {}
<1>1. \A p : Dies(p) => Ended
  BY DEF Dies, Ended
<1>2. /\ <<>> \in Seq(Message) /\ ReentryNotices \in Seq(Message)
      /\ {"unknown_testcase", "no_address", "no_testcase_id", "bad_value", "bad_reply"} \subseteq Fatal
  BY ReentryNoticesType DEF IInv, Fatal, IrregularInputs
<1>3. CASE IutConfigurationWithoutAddress
  BY <1>1, <1>2, <1>3 DEF IutConfigurationWithoutAddress
<1>4. CASE StartWithoutTestcase
  <2>1. "unknown_testcase" \in Irregular
    BY <1>4 DEF StartWithoutTestcase, IInv, CurrentKept, Ongoing
  <2>2. QED
    BY <1>1, <1>2, <1>4, <2>1 DEF StartWithoutTestcase
<1>5. ASSUME NEW a \in Answers, NEW captured \in BOOLEAN, AnswerUnreadable(a, captured)
      PROVE  Ended /\ (\E p \in Seq(Message) : Dies(p)) /\ "bad_reply" \in Irregular
  <2> DEFINE b == Sent("SniffingStop", NoTC)
             g == Sent("SniffingGetCapture", current)
             e == IF captured THEN Sent("InteropTestCaseAnalyze", current) ELSE <<>>
  <2>1. current \in TestCases \cup {NoTC}
    BY DEF IInv, TypeOK
  <2>2. b \in Seq(Message) /\ g \in Seq(Message) /\ e \in Seq(Message)
    BY <2>1, SentType, <1>2 DEF Notices
  <2>3. Dies(b \o g \o e) /\ "bad_reply" \in Irregular
    BY <1>5 DEF AnswerUnreadable
  <2> HIDE DEF b, g, e
  <2>4. b \o g \in Seq(Message) /\ b \o g \o e \in Seq(Message)
    BY <2>2, ConcatType
  <2>5. QED
    BY <1>1, <2>3, <2>4
<1>6. CASE SkipWithoutId \/ UnreadableValue
  BY <1>1, <1>2, <1>6 DEF SkipWithoutId, UnreadableValue
<1>7. QED
  BY <1>2, <1>3, <1>4, <1>5, <1>6 DEF FatalEvents

LEMMA FatalEventsOK ==
  ASSUME IInv, FatalEvents
  PROVE  IInv'
BY FatalEventsEnd, DiesOK

LEMMA SkipUnknownTestcaseOK ==
  ASSUME IInv, SkipUnknownTestcase
  PROVE  IInv'
<1>1. "unknown_testcase" \in Irregular
  BY DEF SkipUnknownTestcase
<1>2. CASE Dies(<<>>)
  <2>1. <<>> \in Seq(Message) /\ Irregular \cap Fatal # {}
    BY <1>1 DEF Fatal, IrregularInputs
  <2>2. QED
    BY <1>2, <2>1, DiesOK
<1>3. CASE /\ current # NoTC
           /\ fsm \in Ongoing \cup {"waiting_for_testsuite_config"}
           /\ fsm # "waiting_for_step_executed"
           /\ tc' = [tc EXCEPT ![current] = Skipped(@)]
           /\ current' = NoTC
           /\ out' = ReentryNotices
           /\ UNCHANGED <<alive, fsm, selection, nodes, sessionReport>>
  <2>1. fsm \in Ongoing /\ fsm \notin NotStarted /\ current \in TestCases
    BY <1>3 DEF IInv, TypeOK, FsmAgreesWithTestcase, NotStarted, Ongoing
  <2>2. /\ DOMAIN tc' = TestCases
        /\ tc'[current] = Skipped(tc[current])
        /\ \A t \in TestCases \ {current} : tc'[t] = tc[t]
    BY <1>3, <2>1 DEF IInv, TypeOK
  <2>3. CaseOK(current, tc'[current]) /\ tc'[current].state = "skipped"
    BY <2>1, <2>2, SkippedOK DEF IInv, TypeOK
  <2>4. \A t \in TestCases : CaseOK(t, tc'[t])
    BY <2>1, <2>2, <2>3 DEF IInv
  <2>5. out' \in Seq(Message)
    BY <1>3, ReentryNoticesType DEF IInv
  <2>6. TypeOK'
    BY <1>3, <2>2, <2>4, <2>5 DEF IInv, TypeOK, CaseOK
  <2>7. OnlyCurrentUnderWay'
    BY <1>3, <2>2, <2>3 DEF IInv, OnlyCurrentUnderWay
  <2>8. FsmAgreesWithTestcase' /\ NothingForgotten'
    BY <1>3, <2>1 DEF FsmAgreesWithTestcase, NothingForgotten, Ongoing
  <2>9. CurrentKept' /\ Survives' /\ NeverWedged'
    BY <1>1, <1>3 DEF IInv, CurrentKept, Survives, NeverWedged
  <2>10. QED
    BY <1>3, <2>1, <2>4, <2>6, <2>7, <2>8, <2>9 DEF IInv
<1>4. QED
  BY <1>2, <1>3 DEF SkipUnknownTestcase

LEMMA StepOK == IInv /\ [Next]_vars => IInv'
<1> SUFFICES ASSUME IInv, [Next]_vars PROVE IInv'
  OBVIOUS
<1>1. ASSUME NEW p \in Requested, ConfigureTestsuite(p[1], p[2]) PROVE IInv'
  <2>1. p[1] \in SUBSET TestCases /\ p[2] \in SUBSET TestCases
    BY DEF Requested
  <2>2. QED
    BY <1>1, <2>1, ConfigureTestsuiteOK
<1>2. CASE StartTestsuite
  BY <1>2, StartTestsuiteOK
<1>3. ASSUME NEW a \in Agents, IutConfigurationExecuted(a) PROVE IInv'
  BY <1>3, IutConfigurationExecutedOK
<1>4. CASE FatalEvents
  BY <1>4, FatalEventsOK
<1>5. CASE IutConfigurationTimeout
  BY <1>5, IutConfigurationTimeoutOK
<1>6. CASE StartTestcase
  BY <1>6, StartTestcaseOK
<1>8. ASSUME NEW a \in Answers, NEW captured \in BOOLEAN,
             NEW tat \in TatVerdicts \cup {Unusable}, StepExecuted(a, captured, tat)
      PROVE  IInv'
  BY <1>8, StepExecutedOK
<1>9. CASE RestartTestcase
  BY <1>9, RestartTestcaseOK
<1>10. ASSUME NEW id \in TestCases \cup {NoTC, UnknownTC}, SelectTestcase(id) PROVE IInv'
  BY <1>10, SelectTestcaseOK
<1>11. ASSUME NEW id \in TestCases \cup {NoTC}, SkipCurrentTestcase(id) PROVE IInv'
  BY <1>11, SkipCurrentTestcaseOK
<1>12. ASSUME NEW id \in TestCases, SkipOtherTestcase(id) PROVE IInv'
  BY <1>12, SkipOtherTestcaseOK
<1>13. CASE SkipUnknownTestcase
  BY <1>13, SkipUnknownTestcaseOK
<1>14. CASE UNCHANGED vars
  BY <1>14, PublishOK DEF vars, IInv, TypeOK
<1>15. QED
  BY <1>1, <1>2, <1>3, <1>4, <1>5, <1>6, <1>8, <1>9, <1>10, <1>11, <1>12, <1>13, <1>14
     DEF Next, FatalEvents

-----------------------------------------------------------------------------
(* Theorems *)

\* The invariant holds in every reachable state.
THEOREM Invariance == Spec => []IInv
BY InitOK, StepOK, PTL DEF Spec

\* The state of the coordinator keeps its type, whatever the events.
THEOREM TypeCorrect == Spec => []TypeOK
<1>1. IInv => TypeOK
  BY DEF IInv
<1>2. QED
  BY <1>1, Invariance, PTL

\* The machine and the current test case stay in step: the two nested state
\* machines of the coordinator never drift apart.
THEOREM InStep == Spec => []FsmAgreesWithTestcase
<1>1. IInv => FsmAgreesWithTestcase
  BY DEF IInv
<1>2. QED
  BY <1>1, Invariance, PTL

\* Whatever is selected, restarted or skipped, at most the current test case is
\* under way.
THEOREM OneAtATime == Spec => []OnlyCurrentUnderWay
<1>1. IInv => OnlyCurrentUnderWay
  BY DEF IInv
<1>2. QED
  BY <1>1, Invariance, PTL

\* The steps of a test case under way are walked in order and without gaps.
THEOREM StepsAreWalked == Spec => []StepsInOrder
<1>1. IInv => StepsInOrder
  <2> SUFFICES ASSUME IInv, NEW t \in TestCases,
                      tc[t].state \in {"executing", "ready_for_analysis"}
               PROVE  InOrder(t, tc[t])
    BY DEF StepsInOrder
  <2>1. fsm \notin NotStarted
    BY DEF IInv
  <2>2. QED
    BY <2>1 DEF IInv, CaseOK
<1>2. QED
  BY <1>1, Invariance, PTL

\* A test case about to run carries nothing over from an earlier execution.
THEOREM FreshStart == Spec => []NothingCarriedOver
<1>1. IInv => NothingCarriedOver
  BY DEF IInv, CaseOK, NothingCarriedOver
<1>2. QED
  BY <1>1, Invariance, PTL

\* Every verdict rests on an answer to each step that was asked for and is no
\* better than any of them.
THEOREM VerdictsAreEarned == Spec => []VerdictIsEarned
<1>1. IInv => VerdictIsEarned
  BY DEF IInv, CaseOK, VerdictIsEarned
<1>2. QED
  BY <1>1, Invariance, PTL

\* The suite ends with every test case finished or skipped and reported on.
THEOREM NoTestcaseForgotten == Spec => []NothingForgotten
<1>1. IInv => NothingForgotten
  BY DEF IInv
<1>2. QED
  BY <1>1, Invariance, PTL

\* Only an irregular input can end the process: an unknown test case, an absent
\* field, a value that cannot be read, from the users or from a service.
THEOREM RegularInputsAreSafe == Spec => []Survives
<1>1. IInv => Survives
  BY DEF IInv
<1>2. QED
  BY <1>1, Invariance, PTL

\* Only answers of the wrong type can leave the machine in the dummy state
\* preparing_next_step.
THEOREM RightAnswersNeverWedge == Spec => []NeverWedged
<1>1. IInv => NeverWedged
  BY DEF IInv
<1>2. QED
  BY <1>1, Invariance, PTL

-----------------------------------------------------------------------------
(* What an event publishes *)

Msg(m, t, i) == [msg |-> m, tc |-> t, step |-> i]

LEMMA RangeSent ==
  /\ Range(<<>>) = {}
  /\ \A m, t : Range(Sent(m, t)) = {Msg(m, t, 0)}
  /\ \A t, i : Range(StepSent(t, i)) = {Msg("StepExecute", t, i)}
BY DEF Range, Sent, StepSent, Msg

LEMMA RangeConcat ==
  ASSUME NEW p \in Seq(Message), NEW q \in Seq(Message)
  PROVE  Range(p \o q) = Range(p) \cup Range(q)
BY RangeConcatenation

\* The step requests among messages.
Asking(S) == {m \in S : m.msg = "StepExecute"}

LEMMA AskingFacts ==
  /\ Asking({}) = {}
  /\ \A S, T : Asking(S \cup T) = Asking(S) \cup Asking(T)
  /\ \A m, t, i : m # "StepExecute" => Asking({Msg(m, t, i)}) = {}
  /\ \A t, i : Asking({Msg("StepExecute", t, i)}) = {Msg("StepExecute", t, i)}
BY DEF Asking, Msg

LEMMA StepsAskedIs == TypeOK => StepsAsked = Asking(Range(out))
<1> SUFFICES ASSUME TypeOK PROVE StepsAsked = Asking(Range(out))
  OBVIOUS
<1>1. Range(out) = {out[k] : k \in 1..Len(out)}
  BY RangeEquality DEF TypeOK
<1>2. QED
  BY <1>1 DEF StepsAsked, Asking

\* A sequence of messages without step requests.
Asks(p) == Asking(Range(p))

LEMMA AsksConcat ==
  ASSUME NEW p \in Seq(Message), NEW q \in Seq(Message)
  PROVE  Asks(p \o q) = Asks(p) \cup Asks(q)
BY RangeConcat, AskingFacts DEF Asks

LEMMA AsksSent ==
  /\ <<>> \in Seq(Message) /\ Asks(<<>>) = {}
  /\ \A m, t : m # "StepExecute" => Asks(Sent(m, t)) = {}
  /\ \A t, i : Asks(StepSent(t, i)) = {Msg("StepExecute", t, i)}
BY RangeSent, AskingFacts DEF Asks

\* What the machine asks for in the state it is in.
StepAsked == Msg("StepExecute", current, tc[current].pos)

LEMMA AsksReentry ==
  Asks(ReentryNotices) = IF fsm = "waiting_for_step_executed" THEN {StepAsked} ELSE {}
BY AsksSent DEF ReentryNotices, StepAsked

ToAsk == IF fsm = "waiting_for_step_executed" THEN {StepAsked} ELSE {}

AsksRight == Asks(out) \subseteq ToAsk /\ (alive => Asks(out) = ToAsk)

LEMMA AsksRightSuffices == TypeOK /\ AsksRight => WaitsForWhatItAsked
<1>1. Awaited = ToAsk
  BY DEF Awaited, ToAsk, StepAsked, Msg
<1>2. QED
  BY <1>1, StepsAskedIs DEF AsksRight, WaitsForWhatItAsked, Asks

\* Dying, the machine repeats its request at most.
LEMMA FatalEventsAsk ==
  ASSUME IInv, FatalEvents
  PROVE  AsksRight'
<1>1. alive' = FALSE /\ ToAsk' = ToAsk
  BY FatalEventsEnd DEF Ended, ToAsk, StepAsked
<1>2. CASE out' = ReentryNotices
  BY <1>1, <1>2, AsksReentry DEF AsksRight, Asks, ToAsk
<1>3. CASE Asks(out') = {}
  BY <1>1, <1>3 DEF AsksRight, Asks
<1>4. ASSUME NEW a \in Answers, NEW captured \in BOOLEAN, AnswerUnreadable(a, captured)
      PROVE  Asks(out') = {}
  <2> DEFINE b == Sent("SniffingStop", NoTC)
             g == Sent("SniffingGetCapture", current)
             e == IF captured THEN Sent("InteropTestCaseAnalyze", current) ELSE <<>>
  <2>1. current \in TestCases \cup {NoTC}
    BY DEF IInv, TypeOK
  <2>2. /\ b \in Seq(Message) /\ g \in Seq(Message) /\ e \in Seq(Message)
        /\ Asks(b) = {} /\ Asks(g) = {} /\ Asks(e) = {}
    BY <2>1, SentType, AsksSent DEF Notices
  <2>3. out' = b \o g \o e
    BY <1>4 DEF AnswerUnreadable, Dies
  <2> HIDE DEF b, g, e
  <2>4. b \o g \in Seq(Message) /\ Asks(b \o g) = {}
    BY <2>2, ConcatType, AsksConcat
  <2>5. QED
    BY <2>2, <2>3, <2>4, AsksConcat
<1>5. QED
  BY <1>2, <1>3, <1>4, AsksSent DEF FatalEvents, IutConfigurationWithoutAddress,
     StartWithoutTestcase, SkipWithoutId, UnreadableValue, Dies

LEMMA PrepareAsks ==
  ASSUME IInv', NEW s, NEW wanted, NEW sent \in Seq(Message), Asks(sent) = {},
         PrepareNextTestcase(s, wanted, sent)
  PROVE  AsksRight'
<1>1. PICK n \in {"ConfigurationExecute", "TestSuiteReport"}, t \in {current', NoTC} :
        out' = sent \o Sent(n, t)
  BY DEF PrepareNextTestcase
<1>2. t \in TestCases \cup {NoTC}
  BY <1>1 DEF IInv, TypeOK
<1>3. Sent(n, t) \in Seq(Message) /\ Asks(Sent(n, t)) = {}
  BY <1>2, SentType, AsksSent DEF Notices
<1>4. Asks(out') = {}
  BY <1>1, <1>3, AsksConcat
<1>5. fsm' # "waiting_for_step_executed"
  BY DEF PrepareNextTestcase
<1>6. QED
  BY <1>4, <1>5 DEF AsksRight, ToAsk, Asks

LEMMA ExecuteAsks ==
  ASSUME TypeOK, current \in TestCases, NEW s, DOMAIN s = TestCases,
         s[current] \in TestCase(current), alive,
         NEW before \in Seq(Message), Asks(before) = {},
         NEW after \in Seq(Message), Asks(after) = {},
         ExecuteNextStep(s, before, after)
  PROVE  AsksRight'
<1> DEFINE i == Least(StepsLeft(current, s[current]))
<1>1. /\ out' = before \o StepSent(current, i) \o after
      /\ tc' = [s EXCEPT ![current] = StepRequested(@, i)]
      /\ alive' = alive /\ current' = current /\ fsm' = "waiting_for_step_executed"
  BY DEF ExecuteNextStep
<1>2. i \in Steps(current)
  <2>1. /\ StepsLeft(current, s[current]) \in SUBSET Nat
        /\ StepsLeft(current, s[current]) # {}
    BY ScriptType DEF StepsLeft, ExecuteNextStep
  <2>2. QED
    BY <2>1, LeastIsLeast DEF StepsLeft
<1> HIDE DEF i
<1>3. StepSent(current, i) \in Seq(Message)
  BY <1>2, ScriptType, SentType
<1>4. before \o StepSent(current, i) \in Seq(Message)
  BY <1>3, ConcatType
<1>5. Asks(out') = {Msg("StepExecute", current, i)}
  <2>1. Asks(out') = Asks(before \o StepSent(current, i)) \cup Asks(after)
    BY <1>1, <1>4, AsksConcat
  <2>2. Asks(before \o StepSent(current, i)) = Asks(before) \cup Asks(StepSent(current, i))
    BY <1>3, AsksConcat
  <2>3. QED
    BY <2>1, <2>2, AsksSent
<1>6. tc'[current].pos = i
  <2>1. tc'[current] = StepRequested(s[current], i)
    BY <1>1
  <2>2. QED
    BY <1>2, <2>1, StepRequestedType
<1>7. QED
  BY <1>1, <1>5, <1>6 DEF AsksRight, ToAsk, Asks, StepAsked

LEMMA FinishAsks ==
  ASSUME IInv, IInv', current \in TestCases, NEW s, NEW captured \in BOOLEAN, NEW tat,
         FinishTestcase(s, captured, tat)
  PROVE  AsksRight'
<1> DEFINE analysis == IF captured THEN Sent("InteropTestCaseAnalyze", current) ELSE <<>>
           a == Sent("SniffingStop", NoTC)
           b == Sent("SniffingGetCapture", current)
           d == Sent("TestCaseFinished", current)
           e == Sent("TestCaseVerdict", current)
           sent == a \o b \o analysis \o d \o e
<1>1. a \in Seq(Message) /\ b \in Seq(Message) /\ d \in Seq(Message) /\ e \in Seq(Message)
  BY SentType DEF Notices
<1>2. analysis \in Seq(Message) /\ Asks(analysis) = {}
  BY SentType, AsksSent DEF Notices
<1>3. Asks(a) = {} /\ Asks(b) = {} /\ Asks(d) = {} /\ Asks(e) = {}
  BY AsksSent
<1>4. \E u : PrepareNextTestcase(u, NoTC, sent)
  BY DEF FinishTestcase
<1> HIDE DEF analysis, a, b, d, e
<1>5. /\ a \o b \in Seq(Message) /\ a \o b \o analysis \in Seq(Message)
      /\ a \o b \o analysis \o d \in Seq(Message) /\ sent \in Seq(Message)
  BY <1>1, <1>2, ConcatType
<1>6. Asks(sent) = {}
  <2>1. ASSUME NEW p \in Seq(Message), NEW q \in Seq(Message), Asks(p) = {}, Asks(q) = {}
        PROVE  Asks(p \o q) = {}
    BY <2>1, AsksConcat
  <2>2. Asks(a \o b) = {}
    BY <1>1, <1>3, <2>1
  <2>3. Asks(a \o b \o analysis) = {}
    BY <1>2, <1>5, <2>1, <2>2
  <2>4. Asks(a \o b \o analysis \o d) = {}
    BY <1>1, <1>3, <1>5, <2>1, <2>3
  <2>5. QED
    BY <1>1, <1>3, <1>5, <2>1, <2>4
<1> HIDE DEF sent
<1>7. QED
  BY <1>4, <1>5, <1>6, PrepareAsks

\* The current test case while the machine waits for a step.
LEMMA CurrentStep ==
  ASSUME IInv, fsm = "waiting_for_step_executed"
  PROVE  LET c == tc[current] IN
         /\ current \in TestCases
         /\ c \in TestCase(current) /\ InOrder(current, c)
         /\ c.state = "executing"
         /\ c.pos \in Steps(current) /\ c.steps[c.pos] = "executing"
         /\ Script[current][c.pos] \in {"stimuli", "verify"}
<1>1. current \in TestCases
  BY DEF IInv, FsmAgreesWithTestcase, TypeOK
<1>2. /\ tc[current] \in TestCase(current) /\ CaseOK(current, tc[current])
      /\ tc[current].state = "executing" /\ tc[current].pos > 0
      /\ tc[current].steps[tc[current].pos] = "executing"
  BY <1>1 DEF IInv, NotStarted, TypeOK, FsmAgreesWithTestcase
<1>3. tc[current].pos \in Steps(current)
  <2>1. tc[current].pos \in 0..Len(Script[current])
    BY <1>2 DEF TestCase
  <2>2. QED
    BY <1>1, <1>2, <2>1, ScriptType DEF Steps
<1>4. InOrder(current, tc[current])
  BY <1>2 DEF CaseOK
<1>5. Script[current][tc[current].pos] \in {"stimuli", "verify"}
  BY <1>1, <1>2, <1>3, <1>4, ScriptType DEF InOrder, StepTypes, Postponable
<1>6. QED
  BY <1>1, <1>2, <1>3, <1>4, <1>5

\* Every event leaves the machine having asked for exactly what it waits for.
LEMMA EventsAskRight ==
  ASSUME IInv, Next
  PROVE  AsksRight'
<1>1. IInv' /\ alive
  BY StepOK DEF Next, ConfigureTestsuite, StartTestsuite, IutConfigurationExecuted,
     IutConfigurationWithoutAddress, IutConfigurationTimeout, StartTestcase,
     StartWithoutTestcase, StepExecuted, RestartTestcase, SelectTestcase,
     SkipCurrentTestcase, SkipOtherTestcase, SkipUnknownTestcase, AnswerUnreadable,
     SkipWithoutId, UnreadableValue
<1>2. CASE \E p \in Requested : ConfigureTestsuite(p[1], p[2])
  BY <1>2, AsksSent DEF ConfigureTestsuite, AsksRight, ToAsk, Asks
<1>3. CASE StartTestsuite
  <2>1. /\ Sent("AgentTunStart", NoTC) \in Seq(Message)
        /\ Asks(Sent("AgentTunStart", NoTC)) = {}
        /\ ReentryNotices \in Seq(Message)
    BY SentType, AsksSent, ReentryNoticesType DEF Notices, IInv
  <2>2. Asks(ReentryNotices) = {}
    BY <1>3, AsksReentry DEF StartTestsuite
  <2>3. LET sent == Sent("AgentTunStart", NoTC) \o ReentryNotices
        IN  sent \in Seq(Message) /\ Asks(sent) = {}
    BY <2>1, <2>2, AsksConcat, ConcatType
  <2>4. QED
    BY <1>1, <1>3, <2>3, PrepareAsks DEF StartTestsuite
<1>4. ASSUME NEW a \in Agents, IutConfigurationExecuted(a) PROVE AsksRight'
  <2>1. CASE fsm = "waiting_for_step_executed"
    <3>1. out' = ReentryNotices /\ UNCHANGED <<alive, fsm, tc, current>>
      BY <1>4, <2>1 DEF IutConfigurationExecuted
    <3>2. QED
      BY <1>1, <2>1, <3>1, AsksReentry DEF AsksRight, ToAsk, Asks, StepAsked
  <2>2. CASE fsm # "waiting_for_step_executed"
    <3>1. Asks(out') = {}
      BY <1>4, <2>2, AsksReentry, AsksSent DEF IutConfigurationExecuted
    <3>2. fsm' # "waiting_for_step_executed"
      BY <1>4, <2>2 DEF IutConfigurationExecuted
    <3>3. QED
      BY <3>1, <3>2 DEF AsksRight, ToAsk, Asks
  <2>3. QED
    BY <2>1, <2>2
<1>5. CASE Dies(<<>>)
  BY <1>5, AsksSent DEF Dies, AsksRight, ToAsk, Asks
<1>6. CASE IutConfigurationTimeout
  BY <1>6, AsksSent DEF IutConfigurationTimeout, AsksRight, ToAsk, Asks
<1>7. CASE StartTestcase
  <2> DEFINE p == Sent("SniffingStart", current)
             q == IF current \in Lossy THEN Sent("RoutingStartLossyLink", NoTC) ELSE <<>>
             r == Sent("TestCaseStarted", current)
  <2>1. current \in TestCases
    BY <1>7 DEF StartTestcase, IInv, TypeOK
  <2>2. p \in Seq(Message) /\ q \in Seq(Message) /\ r \in Seq(Message)
    BY <2>1, SentType, AsksSent DEF Notices
  <2>3. Asks(p) = {} /\ Asks(q) = {} /\ Asks(r) = {}
    BY AsksSent
  <2>4. ExecuteNextStep(tc, p \o q, r)
    BY <1>7 DEF StartTestcase
  <2> HIDE DEF p, q, r
  <2>5. p \o q \in Seq(Message) /\ Asks(p \o q) = {}
    BY <2>2, <2>3, ConcatType, AsksConcat
  <2>6. QED
    BY <1>1, <2>1, <2>2, <2>3, <2>4, <2>5, ExecuteAsks DEF IInv, TypeOK
<1>8. ASSUME NEW a \in Answers, NEW captured \in BOOLEAN,
             NEW tat \in TatVerdicts \cup {Unusable}, StepExecuted(a, captured, tat)
      PROVE  AsksRight'
  <2> DEFINE s == [tc EXCEPT ![current] = StepFinished(a, current, @)]
  <2>1. current \in TestCases
    BY <1>8 DEF StepExecuted, IInv, FsmAgreesWithTestcase, TypeOK
  <2>2. DOMAIN s = TestCases /\ s[current] \in TestCase(current)
    <3>1. /\ tc[current] \in TestCase(current) /\ tc[current].state = "executing"
          /\ InOrder(current, tc[current])
          /\ tc[current].pos \in Steps(current)
          /\ tc[current].steps[tc[current].pos] = "executing"
      BY <1>8, CurrentStep DEF StepExecuted
    <3>2. StepFinished(a, current, tc[current]) \in TestCase(current)
      BY <2>1, <3>1, StepFinishedOK
    <3>3. QED
      BY <2>1, <3>2 DEF IInv, TypeOK
  <2>3. ExecuteNextStep(s, <<>>, <<>>) \/ FinishTestcase(s, captured, tat) \/ FailToFinish(s)
    BY <1>8 DEF StepExecuted
  <2> HIDE DEF s
  <2>4. CASE ExecuteNextStep(s, <<>>, <<>>)
    BY <1>1, <2>1, <2>2, <2>4, AsksSent, ExecuteAsks DEF IInv
  <2>5. CASE FinishTestcase(s, captured, tat)
    BY <1>1, <2>1, <2>5, FinishAsks
  <2>6. CASE FailToFinish(s)
    BY <2>6, AsksSent DEF FailToFinish, AsksRight, ToAsk, Asks
  <2>7. QED
    BY <2>3, <2>4, <2>5, <2>6
<1>9. ASSUME NEW s, NEW wanted, PrepareNextTestcase(s, wanted, <<>>) PROVE AsksRight'
  BY <1>1, <1>9, AsksSent, PrepareAsks
<1>10. CASE RestartTestcase
  BY <1>9, <1>10 DEF RestartTestcase
<1>11. CASE \E id \in TestCases \cup {NoTC, UnknownTC} : SelectTestcase(id)
  BY <1>9, <1>11 DEF SelectTestcase
<1>12. CASE \E id \in TestCases \cup {NoTC} : SkipCurrentTestcase(id)
  <2>1. Sent("SniffingStop", NoTC) \in Seq(Message) /\ Asks(Sent("SniffingStop", NoTC)) = {}
    BY SentType, AsksSent DEF Notices
  <2>2. QED
    BY <1>1, <1>12, <2>1, AsksSent, PrepareAsks DEF SkipCurrentTestcase
<1>13. ASSUME NEW id \in TestCases, SkipOtherTestcase(id) PROVE AsksRight'
  <2>1. /\ out' = ReentryNotices /\ UNCHANGED <<alive, fsm, current>>
        /\ tc' = [tc EXCEPT ![id] = Skipped(@)] /\ id # current
    BY <1>13 DEF SkipOtherTestcase
  <2>2. fsm = "waiting_for_step_executed" => tc'[current] = tc[current]
    BY <2>1 DEF IInv, FsmAgreesWithTestcase, TypeOK
  <2>3. QED
    BY <1>1, <2>1, <2>2, AsksReentry DEF AsksRight, ToAsk, Asks, StepAsked
<1>14. CASE SkipUnknownTestcase
  <2>1. CASE fsm # "waiting_for_step_executed" /\ out' = ReentryNotices /\ fsm' = fsm
    BY <2>1, AsksReentry DEF AsksRight, ToAsk, Asks
  <2>2. QED
    BY <1>5, <1>14, <2>1 DEF SkipUnknownTestcase
<1>15. QED
  BY <1>2, <1>3, <1>4, <1>6, <1>7, <1>8, <1>10, <1>11, <1>12, <1>13, <1>14, FatalEventsAsk
     DEF Next, FatalEvents

\* The machine waits for exactly the step that the last event asked for, and
\* nothing asks for a step that is not waited for, not even a dying process.
THEOREM AskedForWhatItWaits == Spec => []WaitsForWhatItAsked
<1>1. Init => AsksRight
  BY AsksSent DEF Init, AsksRight, ToAsk
<1>2. IInv /\ AsksRight /\ [Next]_vars => AsksRight'
  <2>1. AsksRight /\ UNCHANGED vars => AsksRight'
    BY DEF vars, AsksRight, ToAsk, Asks, StepAsked
  <2>2. QED
    BY <2>1, EventsAskRight
<1>3. Spec => []AsksRight
  BY <1>1, <1>2, Invariance, PTL DEF Spec
<1>4. IInv /\ AsksRight => WaitsForWhatItAsked
  BY AsksRightSuffices DEF IInv
<1>5. QED
  BY <1>3, <1>4, Invariance, PTL

\* A message that the machine's state does not accept.
Dropped == out' = <<>> /\ UNCHANGED <<alive, fsm, current, tc, selection, nodes, sessionReport>>

LEMMA DroppedOK ==
  ASSUME IInv, Dropped
  PROVE  IInv'
BY PublishOK DEF Dropped, IInv, TypeOK

\* The events other than the start of a test case and an answer that is served.
OtherEvents ==
  \/ \E p \in Requested : ConfigureTestsuite(p[1], p[2])
  \/ StartTestsuite
  \/ \E a \in Agents : IutConfigurationExecuted(a)
  \/ IutConfigurationTimeout
  \/ FatalEvents
  \/ RestartTestcase
  \/ \E id \in TestCases \cup {NoTC, UnknownTC} : SelectTestcase(id)
  \/ \E id \in TestCases \cup {NoTC} : SkipCurrentTestcase(id)
  \/ \E id \in TestCases : SkipOtherTestcase(id)
  \/ SkipUnknownTestcase

\* They leave a machine that waits for a step and its test case alone, and never
\* lead into the dummy state.
LEMMA OthersKeepWaiting ==
  ASSUME IInv, OtherEvents
  PROVE  /\ Next
         /\ fsm' = "waiting_for_step_executed" =>
              /\ fsm = "waiting_for_step_executed"
              /\ UNCHANGED current
              /\ tc'[current] = tc[current]
         /\ fsm' = "preparing_next_step" => fsm = "preparing_next_step"
<1> DEFINE Keeps ==
             /\ fsm' = "waiting_for_step_executed" =>
                  /\ fsm = "waiting_for_step_executed"
                  /\ UNCHANGED current
                  /\ tc'[current] = tc[current]
             /\ fsm' = "preparing_next_step" => fsm = "preparing_next_step"
<1>1. ASSUME NEW s, NEW wanted, NEW sent, PrepareNextTestcase(s, wanted, sent)
      PROVE  Keeps
  BY <1>1 DEF PrepareNextTestcase
<1>2. Ended => Keeps
  BY DEF Ended
<1>3. ASSUME NEW id \in TestCases, SkipOtherTestcase(id) PROVE Keeps
  BY <1>3 DEF SkipOtherTestcase, IInv, TypeOK
<1>4. ASSUME NEW a \in Agents, IutConfigurationExecuted(a) PROVE Keeps
  BY <1>4 DEF IutConfigurationExecuted
<1>5. (\E p \in Requested : ConfigureTestsuite(p[1], p[2])) \/ IutConfigurationTimeout => Keeps
  BY DEF ConfigureTestsuite, IutConfigurationTimeout
<1>6. SkipUnknownTestcase => Keeps
  BY <1>2 DEF SkipUnknownTestcase, Dies, Ended
<1>7. \/ StartTestsuite \/ RestartTestcase
      \/ \E id \in TestCases \cup {NoTC, UnknownTC} : SelectTestcase(id)
      \/ \E id \in TestCases \cup {NoTC} : SkipCurrentTestcase(id)
      => Keeps
  BY <1>1 DEF StartTestsuite, RestartTestcase, SelectTestcase, SkipCurrentTestcase
<1> HIDE DEF Keeps
<1>8. Keeps
  BY <1>2, <1>3, <1>4, <1>5, <1>6, <1>7, FatalEventsEnd DEF OtherEvents
<1>9. QED
  BY <1>8 DEF Keeps, OtherEvents, FatalEvents, Next

\* A test case becomes ready by being announced.
LEMMA ReadyAnnounced ==
  ASSUME IInv, Next, fsm' = "waiting_for_testcase_start", current' # NoTC
  PROVE  \/ out' = Sent("TestCaseReady", current')
         \/ fsm = "waiting_for_testcase_start" /\ current' = current
<1>1. \A s, wanted, sent : ~PrepareNextTestcase(s, wanted, sent)
  BY DEF PrepareNextTestcase
<1>2. \A s, before, after : ~ExecuteNextStep(s, before, after)
  BY DEF ExecuteNextStep
<1>3. \A a, captured, tat : ~StepExecuted(a, captured, tat)
  BY <1>1, <1>2 DEF StepExecuted, FinishTestcase, FailToFinish
<1>4. FatalEvents => fsm = "waiting_for_testcase_start" /\ current' = current
  BY FatalEventsEnd DEF Ended
<1>5. QED
  BY <1>1, <1>2, <1>3, <1>4 DEF Next, FatalEvents, ConfigureTestsuite, StartTestsuite,
     IutConfigurationExecuted, IutConfigurationTimeout, StartTestcase, RestartTestcase,
     SelectTestcase, SkipCurrentTestcase, SkipOtherTestcase, SkipUnknownTestcase, Dies

\* Requesting the next step touches no other one.
LEMMA NextRequest ==
  ASSUME TypeOK, current \in TestCases, NEW s, DOMAIN s = TestCases,
         s[current] \in TestCase(current), NEW before, NEW after,
         ExecuteNextStep(s, before, after)
  PROVE  /\ tc'[current].pos \in Steps(current)
         /\ s[current].pos \in Nat
         /\ \A j \in Steps(current) :
              j # tc'[current].pos => tc'[current].steps[j] = s[current].steps[j]
         /\ UNCHANGED current
<1> DEFINE i == Least(StepsLeft(current, s[current]))
<1>1. tc' = [s EXCEPT ![current] = StepRequested(@, i)] /\ UNCHANGED current
  BY DEF ExecuteNextStep
<1>2. i \in Steps(current)
  <2>1. /\ StepsLeft(current, s[current]) \in SUBSET Nat
        /\ StepsLeft(current, s[current]) # {}
    BY ScriptType DEF StepsLeft, ExecuteNextStep
  <2>2. QED
    BY <2>1, LeastIsLeast DEF StepsLeft
<1> HIDE DEF i
<1>3. tc'[current] = StepRequested(s[current], i)
  BY <1>1
<1>4. s[current].pos \in Nat
  BY ScriptType DEF TestCase
<1>5. QED
  BY <1>1, <1>2, <1>3, <1>4, StepRequestedType

-----------------------------------------------------------------------------
(* What no step may do *)

Over == {"finished", "skipped"}

\* Preparing the next test case takes up no test case that is over and gives
\* reports only to test cases without one.
LEMMA PrepareKeeps ==
  ASSUME NEW s, DOMAIN s = TestCases, \A t \in TestCases : s[t] \in TestCase(t),
         NEW wanted \in TestCases \cup {NoTC},
         wanted # NoTC => s[wanted].state = "None",
         NEW sent,
         PrepareNextTestcase(s, wanted, sent),
         NEW u \in TestCases
  PROVE  /\ s[u].state \in Over => tc'[u].state = s[u].state
         /\ tc'[u].report # s[u].report => fsm' = "testsuite_finished" /\ s[u].report = NoReport
<1> DEFINE t == IF wanted = NoTC THEN NextTestcase(s) ELSE wanted
<1>1. t \in TestCases \cup {NoTC} /\ (t # NoTC => s[t].state = "None")
  BY NextTestcaseOK
<1>2. CASE t # NoTC
  <2>1. tc' = [s EXCEPT ![t].state = "configuring"]
    BY <1>2 DEF PrepareNextTestcase
  <2> HIDE DEF t
  <2>2. CASE u = t
    <3>1. tc'[u] = [s[u] EXCEPT !.state = "configuring"]
      BY <2>1, <2>2
    <3>2. s[u] \in TestCase(u) /\ s[u].state = "None"
      BY <1>1, <1>2, <2>2
    <3>3. QED
      BY <3>1, <3>2 DEF TestCase, Over
  <2>3. CASE u # t
    <3>1. tc'[u] = s[u]
      BY <2>1, <2>3
    <3>2. QED
      BY <3>1
  <2>4. QED
    BY <2>2, <2>3
<1>3. CASE t = NoTC
  <2>1. /\ fsm' = "testsuite_finished"
        /\ tc' = [v \in TestCases |-> Reported(s[v])]
    BY <1>3 DEF PrepareNextTestcase
  <2>2. tc'[u] = Reported(s[u]) /\ s[u] \in TestCase(u)
    BY <2>1
  <2>3. Reported(s[u]).state = s[u].state
    BY <2>2, ReportedOK
  <2>4. s[u].report # NoReport => Reported(s[u]) = s[u]
    BY DEF Reported
  <2>5. QED
    BY <2>1, <2>2, <2>3, <2>4
<1>4. QED
  BY <1>2, <1>3

\* What an event may do to the test case t.
Revived(t) == fsm \notin NotStarted /\ tc[t].state \in Over /\ tc'[t].state \notin Over
KeepsVerdict(t) ==
  tc'[t].report # tc[t].report =>
    \/ tc[t].state = "executing" /\ tc'[t].state = "finished"
    \/ fsm' = "testsuite_finished" /\ tc[t].report = NoReport
Keeps(t) == ~Revived(t) /\ KeepsVerdict(t)

LEMMA MethodsKeepReports ==
  ASSUME NEW t \in TestCases, NEW c \in TestCase(t)
  PROVE  Reinit(t, c).report = c.report /\ Skipped(c).report = c.report
BY DEF Reinit, Skipped, TestCase

LEMMA StartTestsuiteKeeps ==
  ASSUME IInv, StartTestsuite, NEW u \in TestCases
  PROVE  Keeps(u)
<1> DEFINE s == [t \in TestCases |-> LET c == Reinit(t, tc[t])
                                     IN IF t \in selection THEN c ELSE Skipped(c)]
           sent == Sent("AgentTunStart", NoTC) \o ReentryNotices
<1>1. PrepareNextTestcase(s, NoTC, sent) /\ fsm \in NotStarted
  BY DEF StartTestsuite, NotStarted
<1>2. ASSUME NEW t \in TestCases PROVE s[t] \in TestCase(t) /\ s[t].report = tc[t].report
  <2>1. tc[t] \in TestCase(t)
    BY DEF IInv, TypeOK
  <2>2. Reinit(t, tc[t]) \in TestCase(t) /\ Reinit(t, tc[t]).report = tc[t].report
    BY <2>1, ReinitOK, MethodsKeepReports DEF CaseOK
  <2>3. /\ Skipped(Reinit(t, tc[t])) \in TestCase(t)
        /\ Skipped(Reinit(t, tc[t])).report = tc[t].report
    BY <2>2, SkippedOK, MethodsKeepReports DEF CaseOK
  <2>4. QED
    BY <2>2, <2>3
<1>3. DOMAIN s = TestCases
  OBVIOUS
<1> HIDE DEF s, sent
<1>4. tc'[u].report # s[u].report => fsm' = "testsuite_finished" /\ s[u].report = NoReport
  BY <1>1, <1>2, <1>3, PrepareKeeps
<1>5. QED
  BY <1>1, <1>2, <1>4 DEF Keeps, KeepsVerdict, Revived

\* An event that changes the test cases to s and then prepares the next one.
LEMMA OngoingKeeps ==
  ASSUME NEW s, DOMAIN s = TestCases, \A t \in TestCases : s[t] \in TestCase(t),
         NEW wanted \in TestCases \cup {NoTC},
         wanted # NoTC => s[wanted].state = "None",
         NEW sent, PrepareNextTestcase(s, wanted, sent),
         NEW u \in TestCases,
         tc[u].state \in Over => s[u].state \in Over,
         s[u].report = tc[u].report
  PROVE  Keeps(u)
BY PrepareKeeps DEF Keeps, KeepsVerdict, Revived

LEMMA RestartTestcaseKeeps ==
  ASSUME IInv, RestartTestcase, NEW u \in TestCases
  PROVE  Keeps(u)
<1> DEFINE s == [tc EXCEPT ![current] = Reinit(current, @)]
<1>1. fsm \in Ongoing /\ current # NoTC /\ PrepareNextTestcase(s, current, <<>>)
  BY DEF RestartTestcase
<1>2. current \in TestCases
  BY <1>1, OngoingCases
<1>3. /\ DOMAIN s = TestCases
      /\ s[current] = Reinit(current, tc[current])
      /\ \A t \in TestCases \ {current} : s[t] = tc[t]
  BY <1>1, <1>2, OngoingCases
<1>4. /\ s[current] \in TestCase(current)
      /\ s[current].state = "None"
      /\ s[current].report = tc[current].report
  BY <1>1, <1>2, <1>3, OngoingCases, ReinitOK, MethodsKeepReports DEF CaseOK
<1>5. tc[current].state \notin Over
  BY <1>1, <1>2 DEF IInv, FsmAgreesWithTestcase, Ongoing, Over
<1>6. \A t \in TestCases : s[t] \in TestCase(t)
  BY <1>1, <1>3, <1>4, OngoingCases
<1>7. s[u].report = tc[u].report /\ (tc[u].state \in Over => s[u].state \in Over)
  BY <1>3, <1>4, <1>5
<1>8. QED
  <2> HIDE DEF s
  <2>1. QED
    BY <1>1, <1>2, <1>3, <1>4, <1>6, <1>7, OngoingKeeps

LEMMA SkipCurrentTestcaseKeeps ==
  ASSUME IInv, NEW id, SkipCurrentTestcase(id), NEW u \in TestCases
  PROVE  Keeps(u)
<1> DEFINE s == [tc EXCEPT ![current] = Skipped(@)]
           sent == IF id = current /\ tc[current].state = "executing"
                   THEN Sent("SniffingStop", NoTC) ELSE <<>>
<1>1. fsm \in Ongoing /\ current # NoTC /\ PrepareNextTestcase(s, NoTC, sent)
  BY DEF SkipCurrentTestcase
<1>2. current \in TestCases
  BY <1>1, OngoingCases
<1>3. /\ DOMAIN s = TestCases
      /\ s[current] = Skipped(tc[current])
      /\ \A t \in TestCases \ {current} : s[t] = tc[t]
  BY <1>1, <1>2, OngoingCases
<1>4. /\ s[current] \in TestCase(current)
      /\ s[current].state = "skipped"
      /\ s[current].report = tc[current].report
  BY <1>1, <1>2, <1>3, OngoingCases, SkippedOK, MethodsKeepReports DEF CaseOK
<1>5. \A t \in TestCases : s[t] \in TestCase(t)
  BY <1>1, <1>3, <1>4, OngoingCases
<1>6. s[u].report = tc[u].report /\ (tc[u].state \in Over => s[u].state \in Over)
  BY <1>3, <1>4 DEF Over
<1>7. QED
  <2> HIDE DEF s, sent
  <2>1. QED
    BY <1>1, <1>3, <1>5, <1>6, OngoingKeeps

\* Selecting id may revive id, and nothing else.
LEMMA SelectTestcaseKeeps ==
  ASSUME IInv, NEW id \in TestCases \cup {NoTC, UnknownTC}, SelectTestcase(id),
         NEW u \in TestCases
  PROVE  KeepsVerdict(u) /\ (u # id => Keeps(u))
<1> DEFINE s == [t \in TestCases |-> IF t = current THEN Reinit(t, tc[t]) ELSE tc[t]]
           wanted == CASE id = NoTC -> current
                       [] id = UnknownTC -> NoTC
                       [] OTHER -> id
           r == [t \in TestCases |-> IF t = wanted THEN Reinit(t, s[t]) ELSE s[t]]
<1>1. fsm \in Ongoing /\ PrepareNextTestcase(r, wanted, <<>>)
  BY DEF SelectTestcase
<1>2. wanted \in TestCases \cup {NoTC}
  BY <1>1, OngoingCases
<1>3. ASSUME NEW t \in TestCases
      PROVE  /\ s[t] \in TestCase(t)
             /\ s[t].report = tc[t].report
             /\ t # current => s[t] = tc[t]
  <2>1. CASE t = current
    <3>1. s[t] = Reinit(t, tc[t])
      BY <2>1
    <3>2. QED
      BY <1>1, <2>1, <3>1, OngoingCases, ReinitOK, MethodsKeepReports DEF CaseOK
  <2>2. CASE t # current
    BY <1>1, <2>2, OngoingCases
  <2>3. QED
    BY <2>1, <2>2
<1>4. u # id /\ u = wanted => u = current
  <2>1. CASE id = NoTC
    BY <2>1
  <2>2. CASE id = UnknownTC
    <3>1. UnknownTC # NoTC
      BY ScriptAssumption DEF UnknownTC, NoTC
    <3>2. wanted = NoTC
      BY <2>2, <3>1
    <3>3. QED
      BY <3>2, NoTCType
  <2>3. CASE id # NoTC /\ id # UnknownTC
    <3>1. wanted = id
      BY <2>3
    <3>2. QED
      BY <3>1
  <2>4. QED
    BY <2>1, <2>2, <2>3
<1> HIDE DEF s, wanted
<1>5. ASSUME NEW t \in TestCases
      PROVE  /\ r[t] \in TestCase(t)
             /\ r[t].report = tc[t].report
             /\ t = wanted => r[t].state = "None"
  BY <1>3, ReinitOK, MethodsKeepReports DEF CaseOK
<1>6. u # id /\ u # current => r[u] = tc[u]
  BY <1>3, <1>4
<1>7. u = current => tc[u].state \notin Over
  BY <1>1, NoTCType DEF IInv, FsmAgreesWithTestcase, Ongoing, Over
<1>8. DOMAIN r = TestCases /\ (wanted # NoTC => r[wanted].state = "None")
  BY <1>2, <1>5
<1>9. /\ r[u].report = tc[u].report
      /\ u # id /\ tc[u].state \in Over => r[u].state \in Over
  BY <1>5, <1>6, <1>7
<1>10. QED
  <2> HIDE DEF r
  <2>1. KeepsVerdict(u)
    BY <1>1, <1>2, <1>5, <1>8, <1>9, PrepareKeeps DEF KeepsVerdict
  <2>2. u # id => Keeps(u)
    BY <1>1, <1>2, <1>5, <1>8, <1>9, OngoingKeeps
  <2>3. QED
    BY <2>1, <2>2

\* The answer to a step touches the current test case alone, and not its report.
LEMMA AnsweredCase ==
  ASSUME IInv, NEW a \in Answers, NEW captured \in BOOLEAN,
         NEW tat \in TatVerdicts \cup {Unusable}, StepExecuted(a, captured, tat)
  PROVE  LET s == [tc EXCEPT ![current] = StepFinished(a, current, @)] IN
         /\ fsm = "waiting_for_step_executed"
         /\ current \in TestCases /\ tc[current].state = "executing"
         /\ DOMAIN s = TestCases
         /\ \A t \in TestCases : s[t] \in TestCase(t) /\ s[t].report = tc[t].report
         /\ \A t \in TestCases \ {current} :
              s[t] = tc[t] /\ s[t].state \in {"None", "skipped", "finished"}
         /\ \/ ExecuteNextStep(s, <<>>, <<>>)
            \/ FinishTestcase(s, captured, tat)
            \/ FailToFinish(s)
<1> DEFINE s == [tc EXCEPT ![current] = StepFinished(a, current, @)]
           d == s[current]
<1>1. /\ fsm = "waiting_for_step_executed"
      /\ \/ ExecuteNextStep(s, <<>>, <<>>)
         \/ FinishTestcase(s, captured, tat)
         \/ FailToFinish(s)
  BY DEF StepExecuted
<1>2. fsm \in Ongoing
  BY <1>1 DEF Ongoing
<1>3. /\ current \in TestCases
      /\ tc[current].state = "executing"
      /\ tc[current].pos > 0
      /\ tc[current].steps[tc[current].pos] = "executing"
  BY <1>1, NoTCType DEF IInv, TypeOK, FsmAgreesWithTestcase
<1>4. tc[current] \in TestCase(current) /\ InOrder(current, tc[current])
  BY <1>2, <1>3, OngoingCases DEF CaseOK
<1>5. tc[current].pos \in Steps(current)
  <2>1. tc[current].pos \in 0..Len(Script[current]) /\ Len(Script[current]) \in Nat
    BY <1>3, <1>4, ScriptType DEF TestCase
  <2>2. QED
    BY <1>3, <2>1 DEF Steps
<1>6. /\ DOMAIN s = TestCases
      /\ d = StepFinished(a, current, tc[current])
      /\ \A t \in TestCases \ {current} :
           s[t] = tc[t] /\ s[t] \in TestCase(t) /\ s[t].state \in {"None", "skipped", "finished"}
  BY <1>2, <1>3, OngoingCases
<1>7. d \in TestCase(current)
  BY <1>3, <1>4, <1>5, <1>6, StepFinishedOK
<1>8. d.report = tc[current].report
  BY <1>4, <1>6 DEF StepFinished, TestCase
<1> HIDE DEF s
<1>9. QED
  BY <1>1, <1>3, <1>6, <1>7, <1>8 DEF s

\* A test case that comes to its end gets a verdict, and the next is prepared.
LEMMA DoneCase ==
  ASSUME NEW s, DOMAIN s = TestCases, \A t \in TestCases : s[t] \in TestCase(t),
         current \in TestCases, NEW captured \in BOOLEAN,
         NEW tat \in TatVerdicts \cup {Unusable}, FinishTestcase(s, captured, tat)
  PROVE  \E done, sent :
           /\ PrepareNextTestcase(done, NoTC, sent)
           /\ DOMAIN done = TestCases
           /\ \A t \in TestCases : done[t] \in TestCase(t)
           /\ done[current].state = "finished"
           /\ done[current].report \in VerdictValues \ {"none"}
           /\ \A t \in TestCases \ {current} : done[t] = s[t]
<1> DEFINE d == s[current]
           v == CaseVerdict(current, d, captured, tat)
           n == Len(Script[current])
           done == [s EXCEPT ![current].state = "finished", ![current].pos = n,
                             ![current].report = v]
<1>1. PICK sent : PrepareNextTestcase(done, NoTC, sent)
  BY DEF FinishTestcase
<1>2. v \in VerdictValues \ {"none"} /\ v \in Reports
  BY CaseVerdictOK DEF Reports
<1>3. n \in 0..Len(Script[current])
  BY ScriptType
<1>4. /\ DOMAIN done = TestCases
      /\ done[current] = [d EXCEPT !.state = "finished", !.pos = n, !.report = v]
      /\ \A t \in TestCases \ {current} : done[t] = s[t]
  OBVIOUS
<1> HIDE DEF d, v, n, done
<1>5. /\ done[current] \in TestCase(current)
      /\ done[current].state = "finished" /\ done[current].report = v
  <2>1. d \in TestCase(current)
    BY DEF d
  <2>2. QED
    BY <1>2, <1>3, <1>4, <2>1 DEF TestCase, TcStates
<1>6. \A t \in TestCases : done[t] \in TestCase(t)
  BY <1>4, <1>5
<1>7. QED
  BY <1>1, <1>2, <1>4, <1>5, <1>6

\* The test case that is executing, and no other, may get a verdict.
LEMMA StepExecutedKeeps ==
  ASSUME IInv, NEW a \in Answers, NEW captured \in BOOLEAN,
         NEW tat \in TatVerdicts \cup {Unusable}, StepExecuted(a, captured, tat),
         NEW u \in TestCases
  PROVE  Keeps(u)
<1> DEFINE s == [tc EXCEPT ![current] = StepFinished(a, current, @)]
           d == s[current]
<1>1. /\ current \in TestCases /\ tc[current].state = "executing"
      /\ DOMAIN s = TestCases
      /\ \A t \in TestCases : s[t] \in TestCase(t) /\ s[t].report = tc[t].report
      /\ \A t \in TestCases \ {current} : s[t] = tc[t]
      /\ \/ ExecuteNextStep(s, <<>>, <<>>)
         \/ FinishTestcase(s, captured, tat)
         \/ FailToFinish(s)
  BY AnsweredCase
<1> HIDE DEF s
<1>2. CASE ExecuteNextStep(s, <<>>, <<>>)
  <2>1. PICK i : tc' = [s EXCEPT ![current] = StepRequested(@, i)]
    BY <1>2 DEF ExecuteNextStep
  <2>2. CASE u = current
    <3>1. tc'[u] = StepRequested(d, i)
      BY <1>1, <2>1, <2>2
    <3>2. StepRequested(d, i).report = d.report
      BY <1>1 DEF StepRequested, TestCase
    <3>3. QED
      BY <1>1, <2>2, <3>1, <3>2 DEF Keeps, KeepsVerdict, Revived, Over
  <2>3. CASE u # current
    BY <1>1, <2>1, <2>3 DEF Keeps, KeepsVerdict, Revived
  <2>4. QED
    BY <2>2, <2>3
<1>3. CASE FinishTestcase(s, captured, tat)
  <2>1. PICK done, sent :
          /\ PrepareNextTestcase(done, NoTC, sent)
          /\ DOMAIN done = TestCases
          /\ \A t \in TestCases : done[t] \in TestCase(t)
          /\ done[current].state = "finished"
          /\ \A t \in TestCases \ {current} : done[t] = s[t]
    BY <1>1, <1>3, DoneCase
  <2>2. /\ done[u].state \in Over => tc'[u].state = done[u].state
        /\ tc'[u].report # done[u].report => fsm' = "testsuite_finished" /\ done[u].report = NoReport
    BY <2>1, PrepareKeeps
  <2>3. CASE u = current
    BY <1>1, <2>1, <2>2, <2>3 DEF Keeps, KeepsVerdict, Revived, Over
  <2>4. CASE u # current
    BY <1>1, <2>1, <2>2, <2>4 DEF Keeps, KeepsVerdict, Revived
  <2>5. QED
    BY <2>3, <2>4
<1>4. CASE FailToFinish(s)
  <2>1. tc' = [s EXCEPT ![current].state = "ready_for_analysis",
                        ![current].pos = Len(Script[current])]
    BY <1>4 DEF FailToFinish
  <2>2. CASE u = current
    <3>1. tc'[u].report = d.report
      BY <1>1, <2>1, <2>2 DEF TestCase
    <3>2. QED
      BY <1>1, <2>2, <3>1 DEF Keeps, KeepsVerdict, Revived, Over
  <2>3. CASE u # current
    BY <1>1, <2>1, <2>3 DEF Keeps, KeepsVerdict, Revived
  <2>4. QED
    BY <2>2, <2>3
<1>5. QED
  BY <1>1, <1>2, <1>3, <1>4

\* The other events that change a test case at all.
LEMMA MinorEventsKeep ==
  ASSUME IInv, NEW u \in TestCases,
         \/ \E p \in Requested : ConfigureTestsuite(p[1], p[2])
         \/ \E a \in Agents : IutConfigurationExecuted(a)
         \/ StartTestcase
         \/ \E id \in TestCases : SkipOtherTestcase(id)
         \/ SkipUnknownTestcase
  PROVE  Keeps(u)
<1>1. ASSUME tc'[u].report = tc[u].report,
             tc[u].state \in Over => tc'[u].state \in Over
      PROVE  Keeps(u)
  BY <1>1 DEF Keeps, KeepsVerdict, Revived
<1>2. tc[u] \in TestCase(u) /\ DOMAIN tc = TestCases
  BY DEF IInv, TypeOK
<1>3. Skipped(tc[u]).report = tc[u].report /\ Skipped(tc[u]).state = "skipped"
  BY <1>2, MethodsKeepReports, SkippedOK
<1>4. ASSUME NEW p \in Requested, ConfigureTestsuite(p[1], p[2]) PROVE Keeps(u)
  <2>1. tc'[u] = tc[u] \/ tc'[u] = Skipped(tc[u])
    BY <1>4 DEF ConfigureTestsuite
  <2>2. QED
    BY <1>1, <1>3, <2>1 DEF Over
<1>5. ASSUME NEW a \in Agents, IutConfigurationExecuted(a) PROVE Keeps(u)
  <2>1. CASE tc' = tc
    BY <1>1, <2>1
  <2>2. CASE fsm = "testsuite_finished" /\ tc' = [v \in TestCases |-> Reported(tc[v])]
    <3>1. tc'[u] = tc[u]
      BY <2>2 DEF IInv, NothingForgotten, Reported, NoReport, VerdictValues
    <3>2. QED
      BY <1>1, <3>1
  <2>3. QED
    BY <1>5, <2>1, <2>2 DEF IutConfigurationExecuted
<1>6. CASE StartTestcase
  <2>1. PICK i : tc' = [tc EXCEPT ![current] = StepRequested(@, i)]
    BY <1>6 DEF StartTestcase, ExecuteNextStep
  <2>2. CASE u # current
    <3>1. tc'[u] = tc[u]
      BY <1>2, <2>1, <2>2
    <3>2. QED
      BY <1>1, <3>1
  <2>3. CASE u = current
    <3>1. tc[u].state = "configuring"
      BY <1>6, <2>3, NoTCType DEF StartTestcase, IInv, FsmAgreesWithTestcase
    <3>2. tc'[u] = StepRequested(tc[u], i)
      BY <1>2, <2>1, <2>3
    <3>3. tc'[u].report = tc[u].report
      BY <1>2, <3>2 DEF StepRequested, TestCase
    <3>4. QED
      BY <1>1, <3>1, <3>3 DEF Over
  <2>4. QED
    BY <2>2, <2>3
<1>7. ASSUME NEW id \in TestCases, SkipOtherTestcase(id) PROVE Keeps(u)
  <2>1. tc'[u] = tc[u] \/ tc'[u] = Skipped(tc[u])
    BY <1>2, <1>7 DEF SkipOtherTestcase
  <2>2. QED
    BY <1>1, <1>3, <2>1 DEF Over
<1>8. CASE SkipUnknownTestcase
  <2>1. tc'[u] = tc[u] \/ tc'[u] = Skipped(tc[u])
    BY <1>2, <1>8 DEF SkipUnknownTestcase, Dies
  <2>2. QED
    BY <1>1, <1>3, <2>1 DEF Over
<1>9. QED
  BY <1>4, <1>5, <1>6, <1>7, <1>8

\* Every step keeps what Keeps says of every test case, but it may revive the
\* one it selects.
LEMMA StepKeeps ==
  ASSUME IInv, [Next]_vars, NEW u \in TestCases
  PROVE  KeepsVerdict(u) /\ (SelectTestcase(u) \/ Keeps(u))
<1>1. CASE tc' = tc
  BY <1>1 DEF Keeps, KeepsVerdict, Revived
<1>2. ASSUME NEW id \in TestCases \cup {NoTC, UnknownTC}, SelectTestcase(id)
      PROVE  KeepsVerdict(u) /\ (SelectTestcase(u) \/ Keeps(u))
  BY <1>2, SelectTestcaseKeeps
<1>3. ASSUME NEW a \in Answers, NEW captured \in BOOLEAN,
             NEW tat \in TatVerdicts \cup {Unusable}, StepExecuted(a, captured, tat)
      PROVE  Keeps(u)
  BY <1>3, StepExecutedKeeps
<1>4. ASSUME NEW id \in TestCases \cup {NoTC}, SkipCurrentTestcase(id) PROVE Keeps(u)
  BY <1>4, SkipCurrentTestcaseKeeps
<1>5. IutConfigurationTimeout \/ FatalEvents => tc' = tc
  BY FatalEventsEnd DEF IutConfigurationTimeout, Ended
<1>6. Keeps(u) => KeepsVerdict(u)
  BY DEF Keeps
<1>7. QED
  BY <1>1, <1>2, <1>3, <1>4, <1>5, <1>6, StartTestsuiteKeeps, RestartTestcaseKeeps,
     MinorEventsKeep DEF Next, FatalEvents, vars

LEMMA NothingReopens ==
  ASSUME IInv, [Next]_vars, fsm = "testsuite_finished"
  PROVE  UNCHANGED <<fsm, sessionReport>> /\ \A t \in TestCases : tc'[t] = tc[t]
<1>1. \A t \in TestCases : /\ Reported(tc[t]) = tc[t]
                           /\ sessionReport[t] = tc[t].report
  BY DEF IInv, NothingForgotten, Reported, NoReport, VerdictValues
<1>2. ASSUME NEW a \in Agents, IutConfigurationExecuted(a)
      PROVE  UNCHANGED <<fsm, sessionReport>> /\ \A t \in TestCases : tc'[t] = tc[t]
  <2>1. /\ tc' = [u \in TestCases |-> Reported(tc[u])]
        /\ sessionReport' = [u \in TestCases |-> Reported(tc[u]).report]
        /\ fsm' = fsm
    BY <1>2 DEF IutConfigurationExecuted
  <2>2. sessionReport = [u \in TestCases |-> sessionReport[u]]
    BY DEF IInv, TypeOK
  <2>3. sessionReport' = [u \in TestCases |-> sessionReport[u]]
    BY <1>1, <2>1
  <2>4. QED
    BY <1>1, <2>1, <2>2, <2>3
<1>3. CASE FatalEvents \/ UNCHANGED vars
  BY <1>3, FatalEventsEnd DEF Ended, vars
<1>4. QED
  BY <1>2, <1>3 DEF Next, FatalEvents, ConfigureTestsuite, StartTestsuite,
     IutConfigurationTimeout, StartTestcase, StepExecuted, RestartTestcase, SelectTestcase,
     SkipCurrentTestcase, SkipOtherTestcase, SkipUnknownTestcase, Ongoing

-----------------------------------------------------------------------------
(* Theorems *)

\* Once the suite runs, only the user's selection makes a finished or skipped
\* test case run again.
THEOREM SelectionAloneRevives == Spec => OnlySelectionRevives
<1>1. IInv /\ [Next]_vars =>
        [\A t \in TestCases :
           /\ fsm \notin NotStarted
           /\ tc[t].state \in {"finished", "skipped"}
           /\ tc'[t].state \notin {"finished", "skipped"}
           => SelectTestcase(t)]_vars
  BY StepKeeps DEF Keeps, Revived, Over
<1>2. QED
  BY <1>1, Invariance, PTL DEF Spec, OnlySelectionRevives

\* A verdict is replaced only by running the test case to its end again.
THEOREM VerdictsStand == Spec => VerdictStands
<1>1. IInv /\ [Next]_vars =>
        [\A t \in TestCases :
           tc'[t].report # tc[t].report =>
             \/ tc[t].state = "executing" /\ tc'[t].state = "finished"
             \/ fsm' = "testsuite_finished" /\ tc[t].report = NoReport]_vars
  BY StepKeeps DEF KeepsVerdict
<1>2. QED
  BY <1>1, Invariance, PTL DEF Spec, VerdictStands

\* Nothing reopens a finished suite or alters its report.
THEOREM SuiteStaysFinished == Spec => FinishedForGood
<1>1. IInv /\ [Next]_vars =>
        [fsm = "testsuite_finished" =>
           /\ UNCHANGED <<fsm, sessionReport>>
           /\ \A t \in TestCases : tc'[t] = tc[t]]_vars
  BY NothingReopens
<1>2. QED
  BY <1>1, Invariance, PTL DEF Spec, FinishedForGood

-----------------------------------------------------------------------------
(* The schedule *)

Resting == {"None", "skipped", "finished"}

ShownAs(s)    == [t \in TestCases |-> Shown(s[t])]
VerdictsIn(s) == [t \in TestCases |-> s[t].report]

LEMMA ShownFacts ==
  ASSUME NEW c
  PROVE  /\ c.state = "None" <=> Shown(c) = "idle"
         /\ c.state \notin Resting <=> Shown(c) = "under way"
         /\ c.state = "skipped" <=> Shown(c) = "skipped"
         /\ c.state = "finished" <=> Shown(c) = "finished"
BY DEF Shown, Resting

LEMMA RunningStatus ==
  ASSUME fsm \notin NotStarted
  PROVE  Status = ShownAs(tc)
BY DEF Status, ShownAs

\* next_testcase hands out the first test case not yet run.
LEMMA NextTestcaseFirst ==
  ASSUME NEW s, NextTestcase(s) # NoTC
  PROVE  /\ NextTestcase(s) \in TestCases
         /\ s[NextTestcase(s)].state = "None"
         /\ \A u \in TestCases : s[u].state = "None" => NextTestcase(s) <= u
<1>1. Idle(s) \in SUBSET Nat /\ Idle(s) # {}
  BY ScriptAssumption DEF Idle, NextTestcase, TestCases
<1>2. Least(Idle(s)) \in Idle(s) /\ \A u \in Idle(s) : Least(Idle(s)) <= u
  BY <1>1, LeastIsLeast
<1>3. QED
  BY <1>1, <1>2 DEF NextTestcase, Idle

\* Preparing the test case t puts it under way and changes nothing else.
LEMMA TakingUp ==
  ASSUME NEW s, DOMAIN s = TestCases, NEW t \in TestCases, s[t] \in TestCase(t),
         tc' = [s EXCEPT ![t].state = "configuring"],
         fsm' = "waiting_for_iut_configuration_executed"
  PROVE  /\ Phase' = "running"
         /\ Status' = plan!With(ShownAs(s), t, "under way")
         /\ Verdicts' = VerdictsIn(s)
<1>1. Phase' = "running" /\ Status' = ShownAs(tc')
  BY DEF Phase, Status, ShownAs, NotStarted
<1>2. tc'[t].state = "configuring" /\ tc'[t].report = s[t].report
  BY DEF TestCase
<1>3. \A u \in TestCases \ {t} : tc'[u] = s[u]
  OBVIOUS
<1>4. Shown(tc'[t]) = "under way"
  BY <1>2, ShownFacts DEF Resting
<1>5. ShownAs(tc') = plan!With(ShownAs(s), t, "under way")
  BY <1>3, <1>4 DEF ShownAs, plan!With
<1>6. Verdicts' = VerdictsIn(s)
  BY <1>2, <1>3 DEF Verdicts, VerdictsIn
<1>7. QED
  BY <1>1, <1>5, <1>6

\* Entering preparing_next_testcase with no test case under way moves on.
LEMMA MovingOn ==
  ASSUME NEW s, DOMAIN s = TestCases,
         \A t \in TestCases : s[t] \in TestCase(t) /\ s[t].state \in Resting,
         NEW sent, PrepareNextTestcase(s, NoTC, sent)
  PROVE  plan!MoveOn(ShownAs(s), VerdictsIn(s))
<1> DEFINE t == NextTestcase(s)
<1>1. \A u \in TestCases : ShownAs(s)[u] # "under way"
  BY ShownFacts DEF ShownAs
<1>2. UNCHANGED selection
  BY DEF PrepareNextTestcase
<1>3. CASE t # NoTC
  <2>1. /\ tc' = [s EXCEPT ![t].state = "configuring"]
        /\ fsm' = "waiting_for_iut_configuration_executed"
        /\ UNCHANGED sessionReport
    BY <1>3 DEF PrepareNextTestcase
  <2>2. /\ t \in TestCases
        /\ s[t].state = "None"
        /\ \A u \in TestCases : s[u].state = "None" => t <= u
    BY <1>3, NextTestcaseFirst
  <2> HIDE DEF t
  <2>3. /\ Phase' = "running"
        /\ Status' = plan!With(ShownAs(s), t, "under way")
        /\ Verdicts' = VerdictsIn(s)
    BY <2>1, <2>2, TakingUp
  <2>4. ShownAs(s)[t] = "idle" /\ \A u \in TestCases : ShownAs(s)[u] = "idle" => t <= u
    BY <2>2, ShownFacts DEF ShownAs
  <2>5. QED
    BY <1>1, <1>2, <2>1, <2>2, <2>3, <2>4 DEF plan!MoveOn
<1>4. CASE t = NoTC
  <2>1. /\ fsm' = "testsuite_finished"
        /\ tc' = [u \in TestCases |-> Reported(s[u])]
        /\ sessionReport' = [u \in TestCases |-> Reported(s[u]).report]
    BY <1>4 DEF PrepareNextTestcase
  <2>2. \A u \in TestCases : s[u].state # "None"
    BY <1>4, NextTestcaseOK
  <2> HIDE DEF t
  <2>3. ASSUME NEW u \in TestCases
        PROVE  /\ Shown(tc'[u]) = Shown(s[u])
               /\ tc'[u].report = IF s[u].report = NoReport THEN "error" ELSE s[u].report
               /\ ShownAs(s)[u] # "idle"
    <3>1. tc'[u] = Reported(s[u]) /\ s[u] \in TestCase(u)
      BY <2>1
    <3>2. tc'[u].state = s[u].state
      BY <3>1, ReportedOK
    <3>3. tc'[u].report = IF s[u].report = NoReport THEN "error" ELSE s[u].report
      BY <3>1 DEF Reported, TestCase
    <3>4. QED
      BY <2>2, <3>2, <3>3, ShownFacts DEF Shown, ShownAs
  <2>4. Phase' = "over" /\ Status' = ShownAs(tc')
    BY <2>1 DEF Phase, Status, ShownAs, NotStarted
  <2>5. ShownAs(tc') = ShownAs(s)
    BY <2>3 DEF ShownAs
  <2>6. /\ Verdicts' = [u \in TestCases |->
                         IF VerdictsIn(s)[u] = NoReport THEN "error" ELSE VerdictsIn(s)[u]]
        /\ sessionReport' = Verdicts'
    BY <2>1, <2>3 DEF Verdicts, VerdictsIn
  <2>7. QED
    BY <1>1, <1>2, <2>3, <2>4, <2>5, <2>6 DEF plan!MoveOn
<1>5. QED
  BY <1>3, <1>4

\* What an event does that is none of the schedule's business.
Standing == UNCHANGED plan!schedule

LEMMA StandingStill ==
  ASSUME UNCHANGED <<selection, sessionReport>>,
         Phase' = Phase, fsm' \in NotStarted <=> fsm \in NotStarted,
         \A t \in TestCases : /\ fsm \in NotStarted \/ Shown(tc'[t]) = Shown(tc[t])
                              /\ tc'[t].report = tc[t].report
  PROVE  Standing
<1>1. Status' = Status
  BY DEF Status
<1>2. Verdicts' = Verdicts
  BY DEF Verdicts
<1>3. QED
  BY <1>1, <1>2 DEF Standing, plan!schedule

Scheduled == plan!ScheduleNext \/ Standing

\* Nothing but the steps of the test case under way.
LEMMA StandingWhileRunning ==
  ASSUME {fsm, fsm'} \cap (NotStarted \cup {"testsuite_finished"}) = {},
         UNCHANGED <<selection, sessionReport>>,
         NEW t \in TestCases, tc[t].state \notin Resting, tc'[t].state \notin Resting,
         tc'[t].report = tc[t].report,
         \A u \in TestCases \ {t} : tc'[u] = tc[u]
  PROVE  Standing
<1>1. Phase' = Phase
  BY DEF Phase, NotStarted
<1>2. Shown(tc'[t]) = Shown(tc[t])
  BY ShownFacts
<1>3. \A u \in TestCases : Shown(tc'[u]) = Shown(tc[u]) /\ tc'[u].report = tc[u].report
  BY <1>2
<1>4. QED
  BY <1>1, <1>3, StandingStill

LEMMA ConfigureSchedules ==
  ASSUME IInv, NEW p \in Requested, ConfigureTestsuite(p[1], p[2])
  PROVE  Scheduled
<1>1. /\ fsm = "waiting_for_testsuite_config" /\ fsm' = "waiting_for_testsuite_start"
      /\ selection' = p[1] \cup p[2]
      /\ tc' = [t \in TestCases |-> IF t \in p[1] THEN tc[t] ELSE Skipped(tc[t])]
      /\ UNCHANGED sessionReport
  BY DEF ConfigureTestsuite
<1>2. selection' \in SUBSET TestCases
  BY <1>1 DEF Requested
<1>3. Phase = "unconfigured" /\ Phase' = "configured" /\ Status' = Status
  BY <1>1 DEF Phase, Status, NotStarted
<1>4. ASSUME NEW t \in TestCases PROVE tc'[t].report = tc[t].report
  <2>1. tc[t] \in TestCase(t)
    BY DEF IInv, TypeOK
  <2>2. QED
    BY <1>1, <2>1, MethodsKeepReports
<1>5. Verdicts' = Verdicts
  BY <1>4 DEF Verdicts
<1>6. plan!Choose(selection')
  BY <1>1, <1>3, <1>5 DEF plan!Choose
<1>7. QED
  BY <1>2, <1>6 DEF Scheduled, plan!ScheduleNext

LEMMA StartSchedules ==
  ASSUME IInv, StartTestsuite
  PROVE  Scheduled
<1> DEFINE s == [t \in TestCases |-> LET c == Reinit(t, tc[t])
                                     IN IF t \in selection THEN c ELSE Skipped(c)]
           sent == Sent("AgentTunStart", NoTC) \o ReentryNotices
<1>1. PrepareNextTestcase(s, NoTC, sent) /\ fsm \in NotStarted
  BY DEF StartTestsuite, NotStarted
<1>2. ASSUME NEW t \in TestCases
      PROVE  /\ s[t] \in TestCase(t)
             /\ s[t].state = IF t \in selection THEN "None" ELSE "skipped"
             /\ s[t].report = tc[t].report
  <2>1. tc[t] \in TestCase(t)
    BY DEF IInv, TypeOK
  <2>2. /\ Reinit(t, tc[t]) \in TestCase(t)
        /\ Reinit(t, tc[t]).state = "None"
        /\ Reinit(t, tc[t]).report = tc[t].report
    BY <2>1, ReinitOK, MethodsKeepReports DEF CaseOK
  <2>3. /\ Skipped(Reinit(t, tc[t])) \in TestCase(t)
        /\ Skipped(Reinit(t, tc[t])).state = "skipped"
        /\ Skipped(Reinit(t, tc[t])).report = tc[t].report
    BY <2>2, SkippedOK, MethodsKeepReports DEF CaseOK
  <2>4. QED
    BY <2>2, <2>3
<1>3. DOMAIN s = TestCases
  OBVIOUS
<1> HIDE DEF s, sent
<1>4. plan!MoveOn(ShownAs(s), VerdictsIn(s))
  BY <1>1, <1>2, <1>3, MovingOn DEF Resting
<1>5. ASSUME NEW t \in TestCases
      PROVE  Shown(s[t]) = IF t \in selection THEN "idle" ELSE "skipped"
  BY <1>2, ShownFacts
<1>6. /\ ShownAs(s) = [t \in TestCases |-> IF t \in selection THEN "idle" ELSE "skipped"]
      /\ VerdictsIn(s) = Verdicts
  BY <1>2, <1>5 DEF ShownAs, VerdictsIn, Verdicts
<1>7. Phase \in {"unconfigured", "configured"}
  BY <1>1 DEF Phase, NotStarted
<1>8. plan!Start
  BY <1>4, <1>6, <1>7 DEF plan!Start
<1>9. QED
  BY <1>8 DEF Scheduled, plan!ScheduleNext

LEMMA EndSchedules ==
  ASSUME Ended
  PROVE  Scheduled
BY DEF Ended, Scheduled, Standing, plan!schedule, Phase, Status, Verdicts

LEMMA ConfiguredSchedules ==
  ASSUME IInv, NEW a \in Agents, IutConfigurationExecuted(a)
  PROVE  Scheduled
<1>1. CASE fsm = "testsuite_finished"
  <2>1. UNCHANGED <<fsm, sessionReport>> /\ \A t \in TestCases : tc'[t] = tc[t]
    BY <1>1, NothingReopens DEF Next
  <2>2. UNCHANGED selection
    BY DEF IutConfigurationExecuted
  <2>3. QED
    BY <2>1, <2>2, StandingStill DEF Phase, Scheduled
<1>2. CASE fsm # "testsuite_finished"
  <2>1. UNCHANGED <<selection, sessionReport, tc>>
    BY <1>2 DEF IutConfigurationExecuted
  <2>2. \/ fsm' = fsm
        \/ /\ fsm = "waiting_for_iut_configuration_executed"
           /\ fsm' = "waiting_for_testcase_start"
    BY <1>2 DEF IutConfigurationExecuted
  <2>3. Phase' = Phase /\ (fsm' \in NotStarted <=> fsm \in NotStarted)
    BY <2>2 DEF Phase, NotStarted
  <2>4. QED
    BY <2>1, <2>3, StandingStill DEF Scheduled
<1>3. QED
  BY <1>1, <1>2

LEMMA TimeoutSchedules ==
  ASSUME IutConfigurationTimeout
  PROVE  Scheduled
<1>1. /\ fsm = "waiting_for_iut_configuration_executed"
      /\ fsm' = "waiting_for_testcase_start"
      /\ UNCHANGED <<selection, sessionReport, tc>>
  BY DEF IutConfigurationTimeout
<1>2. Phase' = Phase /\ (fsm' \in NotStarted <=> fsm \in NotStarted)
  BY <1>1 DEF Phase, NotStarted
<1>3. QED
  BY <1>1, <1>2, StandingStill DEF Scheduled

\* Requesting a step keeps the test case under way.
LEMMA RequestSchedules ==
  ASSUME fsm \in Ongoing, current \in TestCases, tc[current].state \notin Resting,
         NEW s, DOMAIN s = TestCases, s[current] \in TestCase(current),
         s[current].report = tc[current].report,
         \A t \in TestCases \ {current} : s[t] = tc[t],
         NEW before, NEW after, ExecuteNextStep(s, before, after)
  PROVE  Scheduled
<1>1. PICK i : /\ tc' = [s EXCEPT ![current] = StepRequested(@, i)]
               /\ fsm' = "waiting_for_step_executed"
               /\ UNCHANGED <<selection, sessionReport>>
  BY DEF ExecuteNextStep
<1>2. tc'[current] = StepRequested(s[current], i)
  BY <1>1
<1>3. tc'[current].state = "executing" /\ tc'[current].report = tc[current].report
  BY <1>2 DEF StepRequested, TestCase
<1>4. \A t \in TestCases \ {current} : tc'[t] = tc[t]
  BY <1>1
<1>5. {fsm, fsm'} \cap (NotStarted \cup {"testsuite_finished"}) = {}
  BY <1>1 DEF Ongoing, NotStarted
<1>6. QED
  BY <1>1, <1>3, <1>4, <1>5, StandingWhileRunning DEF Resting, Scheduled

LEMMA StartTestcaseSchedules ==
  ASSUME IInv, StartTestcase
  PROVE  Scheduled
<1>1. /\ fsm \in {"waiting_for_testcase_start", "waiting_for_iut_configuration_executed"}
      /\ current # NoTC
      /\ \E before, after : ExecuteNextStep(tc, before, after)
  BY DEF StartTestcase
<1>2. fsm \in Ongoing
  BY <1>1 DEF Ongoing
<1>3. current \in TestCases /\ DOMAIN tc = TestCases /\ tc[current] \in TestCase(current)
  BY <1>1, <1>2, OngoingCases
<1>4. tc[current].state \notin Resting
  BY <1>1 DEF IInv, FsmAgreesWithTestcase, Resting
<1>5. QED
  BY <1>1, <1>2, <1>3, <1>4, RequestSchedules

\* While the suite runs, the test case under way is the current one.
LEMMA OngoingSchedule ==
  ASSUME IInv, fsm \in Ongoing
  PROVE  /\ Phase = "running" /\ Status = ShownAs(tc)
         /\ \A t \in TestCases : Status[t] = "under way" <=> t = current
         /\ current = NoTC => "unknown_testcase" \in Irregular
<1>1. Phase = "running" /\ fsm \notin NotStarted
  BY DEF Phase, Ongoing, NotStarted
<1>2. Status = ShownAs(tc)
  BY <1>1, RunningStatus
<1>3. current \in TestCases => tc[current].state \notin Resting
  BY NoTCType DEF IInv, FsmAgreesWithTestcase, Ongoing, Resting
<1>4. \A t \in TestCases : tc[t].state \notin Resting <=> t = current
  BY <1>3, OngoingCases DEF Resting
<1>5. QED
  BY <1>1, <1>2, <1>4, ShownFacts DEF ShownAs, IInv, CurrentKept

LEMMA AnswerSchedules ==
  ASSUME IInv, NEW a \in Answers, NEW captured \in BOOLEAN,
         NEW tat \in TatVerdicts \cup {Unusable}, StepExecuted(a, captured, tat)
  PROVE  Scheduled
<1> DEFINE s == [tc EXCEPT ![current] = StepFinished(a, current, @)]
<1>1. /\ fsm = "waiting_for_step_executed"
      /\ current \in TestCases /\ tc[current].state = "executing"
      /\ DOMAIN s = TestCases
      /\ \A t \in TestCases : s[t] \in TestCase(t) /\ s[t].report = tc[t].report
      /\ \A t \in TestCases \ {current} : s[t] = tc[t] /\ s[t].state \in Resting
      /\ \/ ExecuteNextStep(s, <<>>, <<>>)
         \/ FinishTestcase(s, captured, tat)
         \/ FailToFinish(s)
  BY AnsweredCase DEF Resting
<1> HIDE DEF s
<1>2. fsm \in Ongoing
  BY <1>1 DEF Ongoing
<1>3. CASE ExecuteNextStep(s, <<>>, <<>>)
  BY <1>1, <1>2, <1>3, RequestSchedules DEF Resting
<1>4. CASE FinishTestcase(s, captured, tat)
  <2>1. PICK done, sent :
          /\ PrepareNextTestcase(done, NoTC, sent)
          /\ DOMAIN done = TestCases
          /\ \A t \in TestCases : done[t] \in TestCase(t)
          /\ done[current].state = "finished"
          /\ done[current].report \in VerdictValues \ {"none"}
          /\ \A t \in TestCases \ {current} : done[t] = s[t]
    BY <1>1, <1>4, DoneCase
  <2> DEFINE v == done[current].report
  <2>2. plan!MoveOn(ShownAs(done), VerdictsIn(done))
    BY <1>1, <2>1, MovingOn DEF Resting
  <2>3. Phase = "running" /\ Status = ShownAs(tc) /\ Status[current] = "under way"
    BY <1>1, <1>2, OngoingSchedule
  <2>4. ShownAs(done) = plan!With(Status, current, "finished")
    <3>1. \A t \in TestCases : Shown(done[t]) = IF t = current THEN "finished" ELSE Shown(tc[t])
      BY <1>1, <2>1, ShownFacts
    <3>2. QED
      BY <2>3, <3>1 DEF ShownAs, plan!With
  <2>5. VerdictsIn(done) = plan!With(Verdicts, current, v)
    BY <1>1, <2>1 DEF VerdictsIn, Verdicts, plan!With
  <2> HIDE DEF v
  <2>6. plan!Finish(current, v)
    BY <2>2, <2>3, <2>4, <2>5 DEF plan!Finish
  <2>7. v \in VerdictValues \ {"none"}
    BY <2>1 DEF v
  <2>8. QED
    BY <1>1, <2>6, <2>7 DEF Scheduled, plan!ScheduleNext
<1>5. CASE FailToFinish(s)
  <2>1. /\ tc' = [s EXCEPT ![current].state = "ready_for_analysis",
                           ![current].pos = Len(Script[current])]
        /\ fsm' = "preparing_next_step"
        /\ UNCHANGED <<selection, sessionReport>>
    BY <1>5 DEF FailToFinish
  <2>2. tc'[current].state = "ready_for_analysis" /\ tc'[current].report = tc[current].report
    BY <1>1, <2>1 DEF TestCase
  <2>3. \A t \in TestCases \ {current} : tc'[t] = tc[t]
    BY <1>1, <2>1
  <2>4. {fsm, fsm'} \cap (NotStarted \cup {"testsuite_finished"}) = {}
    BY <1>1, <2>1 DEF NotStarted
  <2>5. QED
    BY <1>1, <2>1, <2>2, <2>3, <2>4, StandingWhileRunning DEF Resting, Scheduled
<1>6. QED
  BY <1>1, <1>3, <1>4, <1>5

LEMMA RestartSchedules ==
  ASSUME IInv, RestartTestcase
  PROVE  Scheduled
<1> DEFINE s == [tc EXCEPT ![current] = Reinit(current, @)]
<1>1. fsm \in Ongoing /\ current # NoTC /\ PrepareNextTestcase(s, current, <<>>)
  BY DEF RestartTestcase
<1>2. /\ current \in TestCases /\ DOMAIN tc = TestCases
      /\ tc[current] \in TestCase(current) /\ tc[current].state \notin Resting
  <2>1. current \in TestCases /\ DOMAIN tc = TestCases /\ tc[current] \in TestCase(current)
    BY <1>1, OngoingCases
  <2>2. Shown(tc[current]) = "under way"
    BY <1>1, <2>1, OngoingSchedule DEF ShownAs
  <2>3. QED
    BY <2>1, <2>2, ShownFacts
<1>3. /\ tc' = [s EXCEPT ![current].state = "configuring"]
      /\ fsm' = "waiting_for_iut_configuration_executed"
      /\ UNCHANGED <<selection, sessionReport>>
  BY <1>1 DEF PrepareNextTestcase
<1>4. s[current] = Reinit(current, tc[current]) /\ s[current] \in TestCase(current)
      /\ s[current].report = tc[current].report
  BY <1>2, ReinitOK, MethodsKeepReports DEF CaseOK
<1>5. /\ DOMAIN s = TestCases
      /\ \A t \in TestCases \ {current} : s[t] = tc[t]
  BY <1>2
<1> HIDE DEF s
<1>6. tc'[current].state = "configuring" /\ tc'[current].report = tc[current].report
  BY <1>2, <1>3, <1>4, <1>5 DEF TestCase
<1>7. \A t \in TestCases \ {current} : tc'[t] = tc[t]
  BY <1>3, <1>5
<1>8. {fsm, fsm'} \cap (NotStarted \cup {"testsuite_finished"}) = {}
  BY <1>1, <1>3 DEF Ongoing, NotStarted
<1>9. QED
  BY <1>2, <1>3, <1>6, <1>7, <1>8, StandingWhileRunning DEF Resting, Scheduled

LEMMA SelectSchedules ==
  ASSUME IInv, NEW id \in TestCases \cup {NoTC, UnknownTC}, SelectTestcase(id)
  PROVE  Scheduled
<1> DEFINE s == [t \in TestCases |-> IF t = current THEN Reinit(t, tc[t]) ELSE tc[t]]
           wanted == CASE id = NoTC -> current
                       [] id = UnknownTC -> NoTC
                       [] OTHER -> id
           r == [t \in TestCases |-> IF t = wanted THEN Reinit(t, s[t]) ELSE s[t]]
<1>1. /\ fsm \in Ongoing /\ PrepareNextTestcase(r, wanted, <<>>)
      /\ id = UnknownTC => "unknown_testcase" \in Irregular
  BY DEF SelectTestcase
<1>2. /\ Phase = "running" /\ Status = ShownAs(tc)
      /\ \A t \in TestCases : Status[t] = "under way" <=> t = current
      /\ current = NoTC => "unknown_testcase" \in Irregular
  BY <1>1, OngoingSchedule
<1>3. ASSUME NEW t \in TestCases
      PROVE  /\ s[t] \in TestCase(t)
             /\ s[t].report = tc[t].report
             /\ Shown(s[t]) = plan!PutBack[t]
             /\ s[t].state \in Resting
  <2>1. plan!PutBack[t] = IF t = current THEN "idle" ELSE Shown(tc[t])
    BY <1>2 DEF plan!PutBack, ShownAs
  <2>2. CASE t = current
    <3>1. s[t] = Reinit(t, tc[t]) /\ tc[t] \in TestCase(t)
      BY <1>1, <2>2, OngoingCases
    <3>2. QED
      BY <2>1, <2>2, <3>1, ReinitOK, MethodsKeepReports, ShownFacts DEF CaseOK, Resting
  <2>3. CASE t # current
    BY <1>1, <2>1, <2>3, OngoingCases DEF Resting
  <2>4. QED
    BY <2>2, <2>3
<1>4. wanted \in TestCases \cup {NoTC}
  BY <1>1, OngoingCases
<1>5. wanted = NoTC => "unknown_testcase" \in Irregular
  BY <1>1, <1>2, NoTCType
<1> HIDE DEF s, wanted
<1>6. ASSUME NEW t \in TestCases
      PROVE  r[t] \in TestCase(t) /\ r[t].report = tc[t].report
  BY <1>3, ReinitOK, MethodsKeepReports DEF CaseOK
<1>7. DOMAIN r = TestCases /\ \A t \in TestCases : t # wanted => r[t] = s[t]
  OBVIOUS
<1> HIDE DEF r
<1>8. VerdictsIn(r) = Verdicts
  BY <1>6 DEF VerdictsIn, Verdicts
<1>9. plan!PutBack = [t \in TestCases |-> plan!PutBack[t]]
  BY DEF plan!PutBack
<1>10. CASE wanted = NoTC
  <2>1. \A t \in TestCases : r[t] = s[t]
    BY <1>7, <1>10, NoTCType
  <2>2. ShownAs(r) = plan!PutBack
    BY <1>3, <1>9, <2>1 DEF ShownAs
  <2>3. plan!MoveOn(ShownAs(r), VerdictsIn(r))
    BY <1>1, <1>3, <1>6, <1>7, <1>10, <2>1, MovingOn
  <2>4. plan!JumpAstray
    BY <1>2, <1>5, <1>8, <1>10, <2>2, <2>3 DEF plan!JumpAstray
  <2>5. QED
    BY <2>4 DEF Scheduled, plan!ScheduleNext
<1>11. CASE wanted # NoTC
  <2>1. wanted \in TestCases
    BY <1>4, <1>11
  <2>2. /\ tc' = [r EXCEPT ![wanted].state = "configuring"]
        /\ fsm' = "waiting_for_iut_configuration_executed"
        /\ UNCHANGED <<selection, sessionReport>>
    BY <1>1, <1>11 DEF PrepareNextTestcase
  <2>3. /\ Phase' = "running"
        /\ Status' = plan!With(ShownAs(r), wanted, "under way")
        /\ Verdicts' = Verdicts
    BY <1>6, <1>7, <1>8, <2>1, <2>2, TakingUp
  <2>4. plan!With(ShownAs(r), wanted, "under way") = plan!With(plan!PutBack, wanted, "under way")
    BY <1>3, <1>7 DEF ShownAs, plan!With
  <2>5. plan!Jump(wanted)
    BY <1>2, <2>2, <2>3, <2>4 DEF plan!Jump
  <2>6. QED
    BY <2>1, <2>5 DEF Scheduled, plan!ScheduleNext
<1>12. QED
  BY <1>10, <1>11

LEMMA SkipSchedules ==
  ASSUME IInv, NEW id \in TestCases \cup {NoTC}, SkipCurrentTestcase(id)
  PROVE  Scheduled
<1> DEFINE s == [tc EXCEPT ![current] = Skipped(@)]
           sent == IF id = current /\ tc[current].state = "executing"
                   THEN Sent("SniffingStop", NoTC) ELSE <<>>
<1>1. fsm \in Ongoing /\ current # NoTC /\ PrepareNextTestcase(s, NoTC, sent)
  BY DEF SkipCurrentTestcase
<1>2. current \in TestCases
  BY <1>1, OngoingCases
<1>3. /\ DOMAIN s = TestCases
      /\ s[current] = Skipped(tc[current])
      /\ \A t \in TestCases \ {current} : s[t] = tc[t] /\ s[t].state \in Resting
  BY <1>1, <1>2, OngoingCases DEF Resting
<1>4. /\ s[current] \in TestCase(current)
      /\ s[current].state = "skipped"
      /\ s[current].report = tc[current].report
  BY <1>1, <1>2, <1>3, OngoingCases, SkippedOK, MethodsKeepReports DEF CaseOK
<1>5. \A t \in TestCases : s[t] \in TestCase(t)
  BY <1>1, <1>3, <1>4, OngoingCases
<1> HIDE DEF s, sent
<1>6. plan!MoveOn(ShownAs(s), VerdictsIn(s))
  BY <1>1, <1>3, <1>4, <1>5, MovingOn DEF Resting
<1>7. Phase = "running" /\ Status = ShownAs(tc) /\ Status[current] = "under way"
  BY <1>1, <1>2, OngoingSchedule
<1>8. ShownAs(s) = plan!With(Status, current, "skipped")
  BY <1>3, <1>4, <1>7, ShownFacts DEF ShownAs, plan!With
<1>9. VerdictsIn(s) = Verdicts
  BY <1>3, <1>4 DEF VerdictsIn, Verdicts
<1>10. plan!Skip(current)
  BY <1>6, <1>7, <1>8, <1>9 DEF plan!Skip
<1>11. QED
  BY <1>2, <1>10 DEF Scheduled, plan!ScheduleNext

\* A test case is marked as skipped, and that is all.
LEMMA MarkingSchedules ==
  ASSUME IInv, NEW id \in TestCases, fsm \in Ongoing \cup {"waiting_for_testsuite_config"},
         tc' = [tc EXCEPT ![id] = Skipped(@)],
         UNCHANGED <<fsm, selection, sessionReport>>,
         id = current => "unknown_testcase" \in Irregular
  PROVE  Scheduled
<1>1. /\ tc'[id].state = "skipped" /\ tc'[id].report = tc[id].report
      /\ \A t \in TestCases \ {id} : tc'[t] = tc[t]
  <2>1. tc[id] \in TestCase(id) /\ DOMAIN tc = TestCases
    BY DEF IInv, TypeOK
  <2>2. tc'[id] = Skipped(tc[id])
    BY <2>1
  <2>3. QED
    BY <2>1, <2>2, SkippedOK, MethodsKeepReports
<1>2. Phase' = Phase
  BY DEF Phase
<1>3. CASE fsm = "waiting_for_testsuite_config"
  <2>1. fsm \in NotStarted
    BY <1>3 DEF NotStarted
  <2>2. \A t \in TestCases : tc'[t].report = tc[t].report
    BY <1>1
  <2>3. QED
    BY <1>2, <2>1, <2>2, StandingStill DEF Scheduled
<1>4. CASE fsm \in Ongoing
  <2>1. /\ Phase = "running" /\ Status = ShownAs(tc)
        /\ Status[id] = "under way" => "unknown_testcase" \in Irregular
    BY <1>4, OngoingSchedule
  <2>2. Status' = ShownAs(tc')
    BY <1>4 DEF Status, ShownAs, Ongoing, NotStarted
  <2>3. Status' = plan!With(Status, id, "skipped")
    <3>1. Shown(tc'[id]) = "skipped"
      BY <1>1 DEF Shown
    <3>2. \A t \in TestCases \ {id} : Shown(tc'[t]) = Shown(tc[t])
      BY <1>1
    <3>3. QED
      BY <2>1, <2>2, <3>1, <3>2 DEF ShownAs, plan!With
  <2>4. Verdicts' = Verdicts
    BY <1>1 DEF Verdicts
  <2>5. plan!SetAside(id)
    BY <1>2, <2>1, <2>3, <2>4 DEF plan!SetAside
  <2>6. QED
    BY <2>5 DEF Scheduled, plan!ScheduleNext
<1>5. QED
  BY <1>3, <1>4

LEMMA SkipUnknownSchedules ==
  ASSUME IInv, SkipUnknownTestcase
  PROVE  Scheduled
<1>1. CASE Dies(<<>>)
  BY <1>1, EndSchedules DEF Dies, Ended
<1>2. CASE ~Dies(<<>>)
  <2>1. /\ current # NoTC /\ "unknown_testcase" \in Irregular
        /\ fsm \in Ongoing \cup {"waiting_for_testsuite_config"}
        /\ tc' = [tc EXCEPT ![current] = Skipped(@)]
        /\ UNCHANGED <<fsm, selection, sessionReport>>
    BY <1>2 DEF SkipUnknownTestcase
  <2>2. current \in TestCases
    BY <2>1 DEF IInv, TypeOK
  <2>3. QED
    BY <2>1, <2>2, MarkingSchedules
<1>3. QED
  BY <1>1, <1>2

\* Every event is a step of the schedule or none of its business.
LEMMA StepSchedules ==
  ASSUME IInv, [Next]_vars
  PROVE  Scheduled
<1>1. CASE UNCHANGED vars
  BY <1>1 DEF vars, Scheduled, Standing, plan!schedule, Phase, Status, Verdicts
<1>2. ASSUME NEW id \in TestCases, SkipOtherTestcase(id) PROVE Scheduled
  BY <1>2, MarkingSchedules DEF SkipOtherTestcase
<1>3. CASE FatalEvents
  BY <1>3, FatalEventsEnd, EndSchedules
<1>4. QED
  BY <1>1, <1>2, <1>3, ConfigureSchedules, StartSchedules, ConfiguredSchedules,
     TimeoutSchedules, StartTestcaseSchedules, AnswerSchedules, RestartSchedules,
     SelectSchedules, SkipSchedules, SkipUnknownSchedules DEF Next, FatalEvents

\* The coordinator implements the schedule: whatever the agents, the users, the
\* timer, the sniffer and the analyser do, what was chosen is run in order, one
\* test case at a time, and is over only with a verdict for each of them.
THEOREM CoordinatorKeepsSchedule == Spec => KeepsSchedule
<1>1. Init => plan!ScheduleInit
  BY DEF Init, plan!ScheduleInit, Phase, Status, Verdicts, NotStarted
<1>2. IInv /\ [Next]_vars => [plan!ScheduleNext]_(plan!schedule)
  BY StepSchedules DEF Scheduled, Standing
<1>3. QED
  BY <1>1, <1>2, Invariance, PTL DEF Spec, KeepsSchedule, plan!ScheduleSpec
=============================================================================
