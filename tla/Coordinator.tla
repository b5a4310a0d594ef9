---------------------------- MODULE Coordinator ----------------------------
(***************************************************************************)
(* The test coordinator: the state machine of                              *)
(* ioppytest/test_coordinator/states_and_transitions.py, the handlers of   *)
(* coordinator.py that its transitions call, and the test suite they act   *)
(* on (ioppytest/test_suite/testsuite.py).                                 *)
(*                                                                         *)
(* One action is one event of the bus, handled to the end by the consumer  *)
(* thread: the transition, the callbacks around it and every transition    *)
(* those callbacks trigger in turn.  A trigger that the current state does *)
(* not accept raises MachineError, which handle_control logs: no action.   *)
(***************************************************************************)
EXTENDS Verdict, Sequences

CONSTANTS
  NumTestCases,  \* the test cases of the description, numbered in its order
  Script,        \* Script[t][i]: type of the i-th step of test case t
  Lossy,         \* test cases whose configuration has a lossy_context link
  Agents,        \* names under which nodes report that they are configured
  TatVerdicts,   \* worst partial verdict in a usable answer of the analyser
  Irregular      \* the irregular inputs that reach the coordinator (below)

TestCases == 1..NumTestCases
NoTC      == 0                 \* None in place of a test case (id)
UnknownTC == NumTestCases + 1  \* an id that is in no test description

StepTypes   == {"stimuli", "verify", "check", "feature"}
Postponable == {"check", "feature"}

\* wrong_answer: a MsgStep*Executed whose type is not that of the current step;
\* unknown_testcase: a message naming a test case that does not exist;
\* no_address: a MsgConfigurationExecuted without an ipv6_address to split;
\* no_testcase_id: a MsgTestCaseSkip without that attribute;
\* bad_value: a field that its handler asserts against (a verify response that
\* is no boolean, an id that is no string) or a session configuration without
\* its configuration;
\* bad_reply: a service says ok with a value that cannot be processed (partial
\* verdicts that are None, unknown or too short, a capture that is none).
IrregularInputs == {"wrong_answer", "unknown_testcase", "no_address",
                    "no_testcase_id", "bad_value", "bad_reply"}

\* Every test description has a step that an IUT executes.
ASSUME ScriptAssumption ==
  /\ NumTestCases \in Nat \ {0}
  /\ Script \in [TestCases -> Seq(StepTypes)]
  /\ \A t \in TestCases :
       \E i \in 1..Len(Script[t]) : Script[t][i] \notin Postponable

ASSUME InputAssumption ==
  /\ Lossy \subseteq TestCases
  /\ TatVerdicts \subseteq VerdictValues \ {"none"}
  /\ Irregular \subseteq IrregularInputs

VARIABLES
  alive,          \* the process runs (no exception escaped handle_control)
  fsm,            \* state of the machine
  current,        \* testsuite.current_tc, NoTC for None
  tc,             \* tc[t]: the TestCase object of t
  selection,      \* session_selected_tc_list; all the test cases while None
  nodes,          \* testsuite.nodes_configured
  sessionReport,  \* testsuite.report: verdict of each test case
  out             \* what the last event made the coordinator publish or call

vars == <<alive, fsm, current, tc, selection, nodes, sessionReport, out>>

-----------------------------------------------------------------------------
(* Types *)

\* Sources of restart_testcase, select_testcase and skip_testcase.
Ongoing == {"waiting_for_iut_configuration_executed",
            "waiting_for_testcase_start", "waiting_for_step_executed"}
NotStarted == {"waiting_for_testsuite_config", "waiting_for_testsuite_start"}
FsmStates  == {"preparing_next_step", "testsuite_finished"} \cup Ongoing \cup NotStarted

TcStates   == {"None", "skipped", "configuring", "executing",
               "ready_for_analysis", "finished"}
StepStates == {"None", "executing", "finished", "postponed"}
NoReport   == "no report"
Reports    == VerdictValues \cup {NoReport}

Steps(t) == 1..Len(Script[t])

\* A TestCase: pos counts the steps its iterator _step_it has handed out; the
\* last of them is current_step.
TestCase(t) == [state   : TcStates,
                pos     : 0..Len(Script[t]),
                steps   : [Steps(t) -> StepStates],
                partial : [Steps(t) -> {"none", "pass", "fail"}],
                report  : Reports]

Notices == {"AgentTunStart", "TestingToolConfigured", "TestSuiteStarted",
            "ConfigurationExecute", "TestCaseReady", "TestCaseStarted",
            "StepExecute", "TestCaseFinished", "TestCaseVerdict",
            "TestSuiteReport", "RoutingStartLossyLink", "SniffingStart",
            "SniffingStop", "SniffingGetCapture", "InteropTestCaseAnalyze"}
Message == [msg : Notices, tc : TestCases \cup {NoTC}, step : Nat]

TypeOK ==
  /\ alive \in BOOLEAN
  /\ fsm \in FsmStates
  /\ current \in TestCases \cup {NoTC}
  /\ DOMAIN tc = TestCases
  /\ \A t \in TestCases : tc[t] \in TestCase(t)
  /\ selection \subseteq TestCases
  /\ nodes \subseteq Agents
  /\ sessionReport \in [TestCases -> Reports]
  /\ out \in Seq(Message)

Sent(m, t)     == <<[msg |-> m, tc |-> t, step |-> 0]>>
StepSent(t, i) == <<[msg |-> "StepExecute", tc |-> t, step |-> i]>>

-----------------------------------------------------------------------------
(* Test cases and their steps: methods of TestCase and Step *)

\* Steps after reinit(): checks are left for the analysis of the capture.
FreshSteps(t) ==
  [i \in Steps(t) |-> IF Script[t][i] \in Postponable THEN "postponed" ELSE "None"]

\* A mutant: reinit() forgets to rewind the step iterator.
ReinitWithoutRewind(t, c) ==
  [c EXCEPT !.state = "None", !.steps = FreshSteps(t),
            !.partial = [i \in Steps(t) |-> "none"]]

\* TestCase.reinit(): everything but the report.
Reinit(t, c) ==
  [c EXCEPT !.state = "None", !.pos = 0, !.steps = FreshSteps(t),
            !.partial = [i \in Steps(t) |-> "none"]]

\* change_state('skipped'), which also marks every step finished.
Skipped(c) ==
  IF c.state = "skipped" THEN c
  ELSE [c EXCEPT !.state = "skipped", !.steps = [i \in DOMAIN c.steps |-> "finished"]]

\* The steps next_step() can still hand out.
StepsLeft(t, c) == {i \in Steps(t) : i > c.pos /\ c.steps[i] # "postponed"}

\* next_step() hands out the i-th step.
StepRequested(c, i) ==
  [c EXCEPT !.state = "executing", !.pos = i, !.steps[i] = "executing"]

Least(S) == CHOOSE i \in S : \A j \in S : i <= j

\* A mutant: only a step that was never handed out counts as unfinished.
NoStepPending(c) == \A i \in DOMAIN c.steps : c.steps[i] # "None"

AllStepsFinished(c) == \A i \in DOMAIN c.steps : c.steps[i] \notin {"None", "executing"}

\* What an IUT answers to a step, and the step types an answer is for.
Answers == {"stimuli", "verify true", "verify false", "check"}
AnswerType(a) == IF a \in {"verify true", "verify false"} THEN "verify" ELSE a
Matches(a, t, c) == Script[t][c.pos] = AnswerType(a)

\* A mutant: a negative verify answer leaves the partial verdict as it is.
StepResultIgnoringFailure(a, old) == IF a = "verify true" THEN "pass" ELSE old

\* set_result(): a verify step's answer becomes its partial verdict.
StepResult(a, old) ==
  LET new == CASE a = "verify true" -> "pass"
               [] a = "verify false" -> "fail"
               [] OTHER -> old
  IN IF Supersedes(old, new) THEN new ELSE old

\* A mutant: a negative answer is not taken for an answer to a verify step.
StepFinishedIfPositive(a, t, c) ==
  IF c.steps[c.pos] = "executing" /\ a # "verify false"
  THEN [c EXCEPT !.steps[c.pos] = "finished",
                 !.partial[c.pos] = StepResult(a, @)]
  ELSE c

\* finish_stimuli_step(), finish_verify_step() and finish_check_step(): an
\* answer that is not for the current step is logged and dropped.
StepFinished(a, t, c) ==
  IF c.steps[c.pos] = "executing" /\ Matches(a, t, c)
  THEN [c EXCEPT !.steps[c.pos] = "finished",
                 !.partial[c.pos] = StepResult(a, @)]
  ELSE c

-----------------------------------------------------------------------------
(* Reports: generate_testcase_report, generate_report *)

\* TAT: no answer in time, an error, an answer without the attributes that are
\* read, or an empty list of partial verdicts.  A value of another shape is not
\* caught: AnswerUnreadable.
Unusable == "unusable"

VerifyVerdicts(t, c) ==
  {c.partial[i] : i \in {j \in Steps(t) : /\ Script[t][j] # "stimuli"
                                          /\ c.steps[j] = "finished"}}

\* A mutant: the verdict is the analyser's alone.
CaseVerdictFromTat(t, c, captured, tat) ==
  IF captured /\ tat # Unusable THEN tat ELSE "error"

\* The verdict of a finished test case: no capture or no analysis is an error.
CaseVerdict(t, c, captured, tat) ==
  IF captured /\ tat # Unusable THEN Worst(VerifyVerdicts(t, c) \cup {tat})
                                ELSE "error"

\* A mutant: every skipped test case is reported as an error.
ReportedUnlessFinished(c) ==
  IF c.state # "finished" THEN [c EXCEPT !.report = "error"] ELSE c

\* A mutant: the dummy report of a test case that was not run has no verdict.
ReportedAsSkipped(c) ==
  IF c.report = NoReport THEN [c EXCEPT !.report = "skipped"] ELSE c

\* generate_report() gives a test case without a report a dummy one.
Reported(c) == IF c.report = NoReport THEN [c EXCEPT !.report = "error"] ELSE c

-----------------------------------------------------------------------------
(* The chains of nested triggers *)

\* A mutant: skipped test cases are taken up again.
IdleOrSkipped(s) == {t \in TestCases : s[t].state \in {"None", "skipped"}}

\* A mutant: finished test cases are taken up again.
IdleOrFinished(s) == {t \in TestCases : s[t].state \in {"None", "finished"}}

Idle(s) == {t \in TestCases : s[t].state = "None"}

\* A mutant: the last test case of the description is never found.
NextTestcaseButLast(s) ==
  LET idle == Idle(s) \ {NumTestCases}
  IN IF idle = {} THEN NoTC ELSE Least(idle)

\* next_testcase(): the first one, in the description's order, not yet run.
NextTestcase(s) == IF Idle(s) = {} THEN NoTC ELSE Least(Idle(s))

\* Entering preparing_next_testcase with the test cases in s: configure the
\* wanted one, else the next one, else finish the suite.
PrepareNextTestcase(s, wanted, sent) ==
  LET t == IF wanted = NoTC THEN NextTestcase(s) ELSE wanted IN
  /\ current' = t
  /\ UNCHANGED <<alive, selection, nodes>>
  /\ \/ /\ t # NoTC
        /\ fsm' = "waiting_for_iut_configuration_executed"
        /\ tc' = [s EXCEPT ![t].state = "configuring"]
        /\ out' = sent \o Sent("ConfigurationExecute", t)
        /\ UNCHANGED sessionReport
     \/ /\ t = NoTC
        /\ fsm' = "testsuite_finished"
        /\ tc' = [u \in TestCases |-> Reported(s[u])]
        /\ sessionReport' = [u \in TestCases |-> Reported(s[u]).report]
        /\ out' = sent \o Sent("TestSuiteReport", NoTC)

\* Entering preparing_next_step while steps are left.
ExecuteNextStep(s, before, after) ==
  LET left == StepsLeft(current, s[current])
      i == Least(left)
  IN
  /\ left # {}
  /\ fsm' = "waiting_for_step_executed"
  /\ tc' = [s EXCEPT ![current] = StepRequested(@, i)]
  /\ out' = before \o StepSent(current, i) \o after
  /\ UNCHANGED <<alive, current, selection, nodes, sessionReport>>

\* A mutant: the capture is fetched without stopping the sniffer.
FinishWithoutStopping(s, captured, tat) ==
  /\ StepsLeft(current, s[current]) = {}
  /\ AllStepsFinished(s[current])
  /\ PrepareNextTestcase(
       [s EXCEPT ![current].state = "finished",
                 ![current].report = CaseVerdict(current, s[current], captured, tat)],
       NoTC, Sent("SniffingGetCapture", current))

\* Entering preparing_next_step with no step left: stop the sniffer, fetch the
\* capture, have it analysed, publish the verdict, go to the next test case.
FinishTestcase(s, captured, tat) ==
  LET t == current
      done == [s EXCEPT ![t].state = "finished", ![t].pos = Len(Script[t]),
                        ![t].report = CaseVerdict(t, s[t], captured, tat)]
      analysis == IF captured THEN Sent("InteropTestCaseAnalyze", t) ELSE <<>>
  IN
  /\ StepsLeft(t, s[t]) = {}
  /\ AllStepsFinished(s[t])
  /\ PrepareNextTestcase(done, NoTC,
       Sent("SniffingStop", NoTC) \o Sent("SniffingGetCapture", t) \o analysis
         \o Sent("TestCaseFinished", t) \o Sent("TestCaseVerdict", t))

\* Entering preparing_next_step with no step left but one unfinished:
\* finish_testcase raises CoordinatorError in the middle of the transition
\* and the machine stays in the dummy state.
FailToFinish(s) ==
  /\ StepsLeft(current, s[current]) = {}
  /\ ~AllStepsFinished(s[current])
  /\ fsm' = "preparing_next_step"
  /\ tc' = [s EXCEPT ![current].state = "ready_for_analysis",
                     ![current].pos = Len(Script[current])]
  /\ out' = <<>>
  /\ UNCHANGED <<alive, current, selection, nodes, sessionReport>>

\* An exception that handle_control does not catch ends the process, and
\* nothing restarts it.  What was published before it is out; the memory of
\* the dead process is left as it was.
Dies(published) ==
  /\ alive' = FALSE
  /\ out' = published
  /\ UNCHANGED <<fsm, current, tc, selection, nodes, sessionReport>>

\* A mutant: re-entering waiting_for_step_executed requests nothing.
ReentryNoticesWithoutStep ==
  IF fsm = "testsuite_finished" THEN Sent("TestSuiteReport", NoTC) ELSE <<>>

\* What leaving and re-entering the current state ('dest': '=') publishes.
ReentryNotices ==
  CASE fsm = "waiting_for_testsuite_config" -> Sent("TestingToolConfigured", NoTC)
    [] fsm = "waiting_for_testsuite_start"  -> Sent("TestSuiteStarted", NoTC)
    [] fsm = "waiting_for_step_executed"    -> StepSent(current, tc[current].pos)
    [] fsm = "testsuite_finished"           -> Sent("TestSuiteReport", NoTC)
    [] OTHER                                -> <<>>

-----------------------------------------------------------------------------
(* The events *)

\* The coordinator has bootstrapped and listens to the bus.
Init ==
  /\ alive = TRUE
  /\ fsm = "waiting_for_testsuite_config"
  /\ current = NoTC
  /\ tc = [t \in TestCases |->
             [state |-> "None", pos |-> 0,
              steps |-> [i \in Steps(t) |-> "None"],
              partial |-> [i \in Steps(t) |-> "none"],
              report |-> NoReport]]
  /\ selection = TestCases
  /\ nodes = {}
  /\ sessionReport = [t \in TestCases |-> NoReport]
  /\ out = <<>>

\* MsgSessionConfiguration.  listed: the test cases whose ids the message
\* gives; folded: those it gives only up to upper case, which the comparison
\* made now misses and the one made at the start of the suite finds.
ConfigureTestsuite(listed, folded) ==
  /\ alive
  /\ fsm = "waiting_for_testsuite_config"
  /\ fsm' = "waiting_for_testsuite_start"
  /\ selection' = listed \cup folded
  /\ tc' = [t \in TestCases |-> IF t \in listed THEN tc[t] ELSE Skipped(tc[t])]
  /\ out' = Sent("TestingToolConfigured", NoTC)
  /\ UNCHANGED <<alive, current, nodes, sessionReport>>

\* A mutant: every test case starts afresh, selected or not.
StartTestsuiteUnselected ==
  /\ alive
  /\ fsm \in {"waiting_for_testsuite_start", "waiting_for_testsuite_config"}
  /\ PrepareNextTestcase([t \in TestCases |-> Reinit(t, tc[t])],
       NoTC, Sent("AgentTunStart", NoTC) \o ReentryNotices)

\* MsgTestSuiteStart: every test case starts afresh, the ones not selected
\* are skipped again.
StartTestsuite ==
  /\ alive
  /\ fsm \in {"waiting_for_testsuite_start", "waiting_for_testsuite_config"}
  /\ PrepareNextTestcase(
       [t \in TestCases |-> LET c == Reinit(t, tc[t])
                            IN IF t \in selection THEN c ELSE Skipped(c)],
       NoTC, Sent("AgentTunStart", NoTC) \o ReentryNotices)

\* MsgConfigurationExecuted or MsgAgentTunStarted from the node a: accepted in
\* every state, and re-enters it.
IutConfigurationExecuted(a) ==
  /\ alive
  /\ fsm # "preparing_next_step"  \* re-entering it only raises again
  /\ nodes' = nodes \cup {a}
  /\ UNCHANGED <<current, selection>>
  /\ \/ /\ fsm = "waiting_for_iut_configuration_executed"
        /\ \E b \in nodes : b # a
        /\ fsm' = "waiting_for_testcase_start"
        /\ alive' = (current # NoTC)  \* TestCaseReady about no test case
        /\ out' = IF current = NoTC THEN <<>> ELSE Sent("TestCaseReady", current)
        /\ UNCHANGED <<tc, sessionReport>>
     \/ /\ fsm = "waiting_for_iut_configuration_executed" => nodes \subseteq {a}
        /\ fsm # "testsuite_finished"
        /\ out' = ReentryNotices
        /\ UNCHANGED <<alive, fsm, tc, sessionReport>>
     \/ /\ fsm = "testsuite_finished"
        /\ tc' = [u \in TestCases |-> Reported(tc[u])]
        /\ sessionReport' = [u \in TestCases |-> Reported(tc[u]).report]
        /\ out' = ReentryNotices
        /\ UNCHANGED <<alive, fsm>>

\* The same message without an address: the handler runs after the state was
\* re-entered, and there len(None) raises TypeError.
IutConfigurationWithoutAddress ==
  /\ alive
  /\ "no_address" \in Irregular
  /\ fsm # "preparing_next_step"
  /\ Dies(ReentryNotices)

\* The timer of waiting_for_iut_configuration_executed expires.
IutConfigurationTimeout ==
  /\ alive
  /\ fsm = "waiting_for_iut_configuration_executed"
  /\ fsm' = "waiting_for_testcase_start"
  /\ out' = IF current = NoTC THEN <<>> ELSE Sent("TestCaseReady", current)
  /\ UNCHANGED <<alive, current, tc, selection, nodes, sessionReport>>

\* MsgTestCaseStart (its testcase_id is not read): the sniffer is started and
\* the first step requested, and only then is the start announced.
StartTestcase ==
  /\ alive
  /\ fsm \in {"waiting_for_testcase_start", "waiting_for_iut_configuration_executed"}
  /\ current # NoTC
  /\ ExecuteNextStep(tc,
       Sent("SniffingStart", current)
         \o (IF current \in Lossy THEN Sent("RoutingStartLossyLink", NoTC) ELSE <<>>),
       Sent("TestCaseStarted", current))

\* The same without a current test case: the assertion on its state fails.
StartWithoutTestcase ==
  /\ alive
  /\ fsm \in {"waiting_for_testcase_start", "waiting_for_iut_configuration_executed"}
  /\ current = NoTC
  /\ Dies(<<>>)

\* MsgStepStimuliExecuted, MsgStepVerifyExecuted or MsgStepCheckExecuted: the
\* machine advances whether or not the answer finished the step.
StepExecuted(a, captured, tat) ==
  LET s == [tc EXCEPT ![current] = StepFinished(a, current, @)] IN
  /\ alive
  /\ fsm = "waiting_for_step_executed"
  /\ Matches(a, current, tc[current]) \/ "wrong_answer" \in Irregular
  /\ \/ ExecuteNextStep(s, <<>>, <<>>)
     \/ FinishTestcase(s, captured, tat)
     \/ FailToFinish(s)

\* The answer to the last step, but then the sniffer gives no capture that can
\* be decoded and stored, or the analyser (asked if there is a capture) partial
\* verdicts that cannot be read: TypeError, IndexError or AssertionError.
AnswerUnreadable(a, captured) ==
  LET c == StepFinished(a, current, tc[current])
      analysis == IF captured THEN Sent("InteropTestCaseAnalyze", current) ELSE <<>>
  IN
  /\ alive
  /\ "bad_reply" \in Irregular
  /\ fsm = "waiting_for_step_executed"
  /\ Matches(a, current, tc[current]) \/ "wrong_answer" \in Irregular
  /\ StepsLeft(current, c) = {}
  /\ AllStepsFinished(c)
  /\ Dies(Sent("SniffingStop", NoTC) \o Sent("SniffingGetCapture", current) \o analysis)

\* MsgTestCaseRestart; without a current test case CoordinatorError, no effect.
RestartTestcase ==
  /\ alive
  /\ fsm \in Ongoing
  /\ current # NoTC
  /\ PrepareNextTestcase([tc EXCEPT ![current] = Reinit(current, @)], current, <<>>)

\* A mutant: jumping to another test case leaves the current one as it is.
SelectWithoutReset(id) ==
  /\ alive
  /\ fsm \in Ongoing
  /\ id \in TestCases
  /\ PrepareNextTestcase([tc EXCEPT ![id] = Reinit(id, @)], id, <<>>)

\* MsgTestCaseSelect: the current test case is reset before the one selected
\* (NoTC: its id is None) is reset and configured; an unknown id, or a message
\* without that attribute, leads to the next one in the description's order.
SelectTestcase(id) ==
  LET s == [t \in TestCases |-> IF t = current THEN Reinit(t, tc[t]) ELSE tc[t]]
      wanted == CASE id = NoTC -> current
                  [] id = UnknownTC -> NoTC
                  [] OTHER -> id
  IN
  /\ alive
  /\ fsm \in Ongoing
  /\ id = UnknownTC => "unknown_testcase" \in Irregular
  /\ PrepareNextTestcase(
       [t \in TestCases |-> IF t = wanted THEN Reinit(t, s[t]) ELSE s[t]], wanted, <<>>)

\* A mutant: the current test case is skipped but the next one not prepared.
SkipWithoutMovingOn(id) ==
  /\ alive
  /\ fsm \in Ongoing
  /\ current # NoTC
  /\ id \in {NoTC, current}
  /\ tc' = [tc EXCEPT ![current] = Skipped(@)]
  /\ current' = NoTC
  /\ out' = <<>>
  /\ UNCHANGED <<alive, fsm, selection, nodes, sessionReport>>

\* MsgTestCaseSkip of the current test case, by its id or by None.  Only the
\* first stops the sniffer.
SkipCurrentTestcase(id) ==
  /\ alive
  /\ fsm \in Ongoing
  /\ current # NoTC
  /\ id \in {NoTC, current}
  /\ PrepareNextTestcase(
       [tc EXCEPT ![current] = Skipped(@)], NoTC,
       IF id = current /\ tc[current].state = "executing"
       THEN Sent("SniffingStop", NoTC) ELSE <<>>)

\* MsgTestCaseSkip of another test case: the machine re-enters its state.
SkipOtherTestcase(id) ==
  /\ alive
  /\ fsm \in Ongoing \cup {"waiting_for_testsuite_config"}
  /\ id # current
  /\ tc' = [tc EXCEPT ![id] = Skipped(@)]
  /\ out' = ReentryNotices
  /\ UNCHANGED <<alive, fsm, current, selection, nodes, sessionReport>>

\* MsgTestCaseSkip of a test case that does not exist: the current one is
\* skipped in its place and the machine stays where it is, with no current
\* test case; without one, or waiting for a step, an exception escapes.
SkipUnknownTestcase ==
  /\ alive
  /\ "unknown_testcase" \in Irregular
  /\ fsm \in Ongoing \cup {"waiting_for_testsuite_config"}
  /\ \/ /\ current = NoTC \/ fsm = "waiting_for_step_executed"
        /\ Dies(<<>>)
     \/ /\ current # NoTC
        /\ fsm # "waiting_for_step_executed"
        /\ tc' = [tc EXCEPT ![current] = Skipped(@)]
        /\ current' = NoTC
        /\ out' = ReentryNotices
        /\ UNCHANGED <<alive, fsm, selection, nodes, sessionReport>>

\* MsgTestCaseSkip without the attribute testcase_id: the condition that is to
\* take it for the current test case logs a variable it never bound.
SkipWithoutId ==
  /\ alive
  /\ "no_testcase_id" \in Irregular
  /\ fsm \in Ongoing \cup {"waiting_for_testsuite_config"}
  /\ Dies(<<>>)

\* A verify response that is no boolean, a selection or skip whose id is no
\* string, a session configuration that lacks its configuration: raised before
\* the state is left.
UnreadableValue ==
  /\ alive
  /\ "bad_value" \in Irregular
  /\ fsm \in Ongoing \cup {"waiting_for_testsuite_config"}
  /\ Dies(<<>>)

\* The lists of test cases a session configuration can give.
Requested ==
  {p \in (SUBSET TestCases) \X (SUBSET TestCases) :
     /\ p[1] \cap p[2] = {}
     /\ p[1] = {} \/ p[2] # {} => "unknown_testcase" \in Irregular}

Next ==
  \/ \E p \in Requested : ConfigureTestsuite(p[1], p[2])
  \/ StartTestsuite
  \/ \E a \in Agents : IutConfigurationExecuted(a)
  \/ IutConfigurationWithoutAddress
  \/ IutConfigurationTimeout
  \/ StartTestcase
  \/ StartWithoutTestcase
  \/ \E a \in Answers, captured \in BOOLEAN, tat \in TatVerdicts \cup {Unusable} :
       StepExecuted(a, captured, tat)
  \/ \E a \in Answers, captured \in BOOLEAN : AnswerUnreadable(a, captured)
  \/ RestartTestcase
  \/ \E id \in TestCases \cup {NoTC, UnknownTC} : SelectTestcase(id)
  \/ \E id \in TestCases \cup {NoTC} : SkipCurrentTestcase(id)
  \/ \E id \in TestCases : SkipOtherTestcase(id)
  \/ SkipUnknownTestcase
  \/ SkipWithoutId
  \/ UnreadableValue

Spec == Init /\ [][Next]_vars

\* The users (or automated IUTs) start the suite and each test case and answer
\* the step that is asked, sooner or later.  Nothing is assumed of the timer.
Answer ==
  /\ fsm = "waiting_for_step_executed"
  /\ \E a \in Answers, captured \in BOOLEAN, tat \in TatVerdicts \cup {Unusable} :
       Matches(a, current, tc[current]) /\ StepExecuted(a, captured, tat)

FairSpec == /\ Spec
            /\ WF_vars(StartTestsuite)
            /\ WF_vars(StartTestcase)
            /\ WF_vars(Answer)

-----------------------------------------------------------------------------
(* Safety *)

\* The machine and the test suite are two state machines kept in step by the
\* handlers alone: in each state of the first, the current test case is in the
\* matching state of the second, and its current step is the one being executed
\* (_prepare_next_testcase, _prepare_next_step, handle_start_testcase).
FsmAgreesWithTestcase ==
  /\ fsm \in NotStarted \cup {"testsuite_finished"} => current = NoTC
  /\ fsm \in {"waiting_for_iut_configuration_executed", "waiting_for_testcase_start"}
       => \/ current = NoTC
          \/ tc[current].state = "configuring" /\ tc[current].pos = 0
  /\ fsm = "waiting_for_step_executed"
       => /\ current # NoTC
          /\ tc[current].state = "executing"
          /\ tc[current].pos > 0
          /\ tc[current].steps[tc[current].pos] = "executing"
  /\ fsm = "preparing_next_step"
       => /\ current # NoTC
          /\ tc[current].state = "ready_for_analysis"
          /\ ~AllStepsFinished(tc[current])

\* Whatever the user selects, restarts or skips in the middle of a test case,
\* no other test case than the current one is left under way.
OnlyCurrentUnderWay ==
  \A t \in TestCases : t # current => tc[t].state \in {"None", "skipped", "finished"}

Fresh(t, c) == /\ c.pos = 0
               /\ c.steps = FreshSteps(t)
               /\ \A i \in Steps(t) : c.partial[i] = "none"

\* A test case about to run carries nothing over from an execution that was
\* cut short: its iterator is rewound, no step is finished and no answer of the
\* earlier execution counts (TestCase.reinit, called from four handlers).
NothingCarriedOver ==
  \A t \in TestCases :
    fsm \notin NotStarted /\ tc[t].state \in {"None", "configuring"} => Fresh(t, tc[t])

InOrder(t, c) ==
  \A i \in Steps(t) :
    /\ c.steps[i] = "postponed" <=> Script[t][i] \in Postponable
    /\ i > c.pos => c.steps[i] \in {"None", "postponed"}
    /\ i <= c.pos => c.steps[i] # "None"
    /\ i < c.pos /\ "wrong_answer" \notin Irregular => c.steps[i] # "executing"
    /\ Script[t][i] = "verify" /\ c.steps[i] = "finished" => c.partial[i] # "none"

\* A test case under way walks its steps in order and without gaps: those
\* before the current one were asked for (and answered, unless an answer was of
\* the wrong type), those after it are untouched, only checks are left for the
\* analysis, and an answered verify has a verdict (next_step, finish_*_step).
StepsInOrder ==
  \A t \in TestCases :
    tc[t].state \in {"executing", "ready_for_analysis"} => InOrder(t, tc[t])

Earned(t, c) ==
  /\ c.report \in VerdictValues \ {"none"}
  /\ \A i \in Steps(t) :
       /\ Script[t][i] \in Postponable \/ c.steps[i] = "finished"
       /\ Script[t][i] = "verify" =>
            c.partial[i] # "none" /\ Supersedes(c.partial[i], c.report)

\* A finished test case has an answer for each step that was asked for, and a
\* verdict no better than any of the answers (generate_testcase_report), also
\* when answers of the wrong type came in between.
VerdictIsEarned == \A t \in TestCases : tc[t].state = "finished" => Earned(t, tc[t])

\* The suite is declared finished only when every test case was run to its end
\* or skipped, and its report has a verdict for each of them.
NothingForgotten ==
  fsm = "testsuite_finished" =>
    \A t \in TestCases :
      /\ tc[t].state \in {"finished", "skipped"}
      /\ sessionReport[t] \in VerdictValues
      /\ sessionReport[t] = tc[t].report

\* Step requests of the last event.
StepsAsked == {out[k] : k \in {j \in 1..Len(out) : out[j].msg = "StepExecute"}}

\* The request for the step that the machine waits for.
Awaited == IF fsm = "waiting_for_step_executed"
           THEN {[msg |-> "StepExecute", tc |-> current, step |-> tc[current].pos]} ELSE {}

\* While the machine waits for an answer, the last event it published includes
\* the request for exactly that step, and in no other case does it ask for one:
\* re-entries of the state repeat it, and nothing asks for a step in passing.
\* A process that ends may repeat the request on its way, but asks nothing else.
WaitsForWhatItAsked ==
  /\ StepsAsked \subseteq Awaited
  /\ alive => StepsAsked = Awaited

\* The irregular inputs that can end the process.
Fatal == IrregularInputs \ {"wrong_answer"}

\* With messages that name existing test cases, carry the fields and the types
\* their handlers read, and services that answer in the agreed form or not at
\* all, no order of events ends the process: every exception, those of late,
\* repeated and wrong answers among them, is one that handle_control catches.
Survives == Irregular \cap Fatal = {} => alive

\* If no answer is of the wrong type, no test case ends with a step unanswered,
\* so the machine never rests in a dummy state.
NeverWedged == "wrong_answer" \notin Irregular => fsm # "preparing_next_step"

-----------------------------------------------------------------------------
(* Action properties *)

\* Once the suite runs, a finished or skipped test case runs again only
\* because the user selects it.
OnlySelectionRevives ==
  [][\A t \in TestCases :
       /\ fsm \notin NotStarted
       /\ tc[t].state \in {"finished", "skipped"}
       /\ tc'[t].state \notin {"finished", "skipped"}
       => SelectTestcase(t)]_vars

\* A verdict is only ever replaced by running its test case to the end again;
\* the final report fills in test cases without one and alters no other.
VerdictStands ==
  [][\A t \in TestCases :
       tc'[t].report # tc[t].report =>
         \/ tc[t].state = "executing" /\ tc'[t].state = "finished"
         \/ fsm' = "testsuite_finished" /\ tc[t].report = NoReport]_vars

\* Late messages of agents make the coordinator publish its report again, but
\* never another one, and nothing reopens the suite.
FinishedForGood ==
  [][fsm = "testsuite_finished" =>
       /\ UNCHANGED <<fsm, sessionReport>>
       /\ \A t \in TestCases : tc'[t] = tc[t]]_vars

-----------------------------------------------------------------------------
(* The schedule that the machine, the handlers and the test suite keep *)

Phase ==
  CASE fsm = "waiting_for_testsuite_config" -> "unconfigured"
    [] fsm = "waiting_for_testsuite_start"  -> "configured"
    [] fsm = "testsuite_finished"           -> "over"
    [] OTHER                                -> "running"

Shown(c) == CASE c.state = "None" -> "idle"
              [] c.state \in {"skipped", "finished"} -> c.state
              [] OTHER -> "under way"

\* Skipping a test case before the suite starts has no effect in the end.
Status == [t \in TestCases |-> IF fsm \in NotStarted THEN "idle" ELSE Shown(tc[t])]

Verdicts == [t \in TestCases |-> tc[t].report]

plan == INSTANCE Schedule WITH
  Cases     <- TestCases,
  Verdicts  <- VerdictValues \ {"none"},
  NoVerdict <- NoReport,
  Default   <- "error",
  Strays    <- "unknown_testcase" \in Irregular,
  phase     <- Phase,
  chosen    <- selection,
  status    <- Status,
  verdict   <- Verdicts,
  report    <- sessionReport

\* Steps, agents, timers and the chains of triggers serve a simple schedule:
\* what was chosen is run in order, one test case at a time, each to a verdict
\* unless the user skips it or jumps, until all are over and reported.
KeepsSchedule == plan!ScheduleSpec

-----------------------------------------------------------------------------
(* Liveness *)

Intervention ==
  \/ RestartTestcase
  \/ \E id \in TestCases \cup {NoTC, UnknownTC} : SelectTestcase(id)
  \/ \E id \in TestCases \cup {NoTC} : SkipCurrentTestcase(id)
  \/ \E id \in TestCases : SkipOtherTestcase(id)

\* If the users at some point only follow the instructions, the suite finishes
\* and its report is published, whether or not a capture and a usable analysis
\* come.
SuiteFinishes == <>[][~Intervention]_vars => <>(fsm = "testsuite_finished")

-----------------------------------------------------------------------------
(* What a comment of the code says of it, and the code does not do *)

\* "dummy state used for factorizing several transitions"
\* (states_and_transitions.py:28, 47): the machine does not wait in one.
DummyStatesAreTransient == fsm # "preparing_next_step"
=============================================================================
