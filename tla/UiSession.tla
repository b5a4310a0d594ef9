----------------------------- MODULE UiSession -----------------------------
(***************************************************************************)
(* The coordinator driven by users through the UI adaptor: every message   *)
(* that calls for a user becomes a request, which stays on the screen, and *)
(* whatever the user clicks later becomes an event of the coordinator      *)
(* (CoAPSessionMessageTranslator, which most test suites use).             *)
(*                                                                         *)
(* The queues in between are left out: a user who takes his time and a     *)
(* message that is slow look alike.  So are the inputs that end the        *)
(* coordinator whatever is on the screen (FatalEvents of CoordinatorProofs *)
(* lists them); only a start without a test case remains.                  *)
(***************************************************************************)
EXTENDS Coordinator

CONSTANT MaxSame  \* bound: requests of the same content that are open at once

VARIABLES
  open,    \* see OpenRequests
  asked,   \* history: the last request for a step
  prompt   \* history: so far users answered the last request for a step only

sessionVars == <<vars, open, asked, prompt>>

\* tt_to_ui_message_translation
Ready(t)   == [msg |-> "TestCaseReady", tc |-> t, step |-> 0]
VerdictOf(t) == [msg |-> "TestCaseVerdict", tc |-> t, step |-> 0]
Step(t, i) == [msg |-> "StepExecute", tc |-> t, step |-> i]
UserSteps(t) == {i \in Steps(t) : Script[t][i] \in {"stimuli", "verify"}}
Requests ==
  UNION {{Ready(t), VerdictOf(t)} \cup {Step(t, i) : i \in UserSteps(t)} : t \in TestCases}

table == INSTANCE OpenRequests

SessionInit ==
  /\ Init
  /\ table!OpenInit
  /\ asked = NoTC
  /\ prompt = TRUE

\* The request for a step among the messages the coordinator publishes.
AskedLast ==
  LET new == {r \in Requests : r.msg = "StepExecute" /\ table!Count(out', r) > 0}
  IN IF new = {} THEN asked ELSE CHOOSE r \in new : TRUE

\* The machine's state accepts no such event: MachineError, no effect.
Ignored(sources) ==
  /\ fsm \notin sources
  /\ out' = <<>>
  /\ UNCHANGED <<alive, fsm, current, tc, selection, nodes, sessionReport>>

\* tc_start: the id that the message carries is not read.
StartClicked(r) ==
  /\ r.msg = "TestCaseReady"
  /\ \/ StartTestcase \/ StartWithoutTestcase
     \/ Ignored({"waiting_for_testcase_start", "waiting_for_iut_configuration_executed"})

\* tc_skip: the test case the request was about.
SkipClicked(r) ==
  /\ r.msg = "TestCaseReady"
  /\ SkipCurrentTestcase(r.tc) \/ SkipOtherTestcase(r.tc) \/ Ignored(Ongoing)

\* restart_testcase: the test case the verdict was about.
RestartClicked(r) ==
  /\ r.msg = "TestCaseVerdict"
  /\ SelectTestcase(r.tc) \/ Ignored(Ongoing)

\* stimuli_executed, verify_executed: an answer of the type that was asked for,
\* to whatever step is the current one by now.
StepAnswered(r) ==
  /\ r.msg = "StepExecute"
  /\ \/ \E a \in Answers, captured \in BOOLEAN, tat \in TatVerdicts \cup {Unusable} :
          AnswerType(a) = Script[r.tc][r.step] /\ StepExecuted(a, captured, tat)
     \/ Ignored({"waiting_for_step_executed"})

UserReplies(r) ==
  /\ alive
  /\ StartClicked(r) \/ SkipClicked(r) \/ RestartClicked(r) \/ StepAnswered(r)
  /\ table!Close(r, out')
  /\ prompt' = (prompt /\ (r.msg = "StepExecute" => r = asked))
  /\ asked' = AskedLast

\* What does not come from a user's reply: the set-up of the session, the
\* agents and the timer.
OtherEvent ==
  /\ \/ \E p \in Requested : ConfigureTestsuite(p[1], p[2])
     \/ StartTestsuite
     \/ \E a \in Agents : IutConfigurationExecuted(a)
     \/ IutConfigurationTimeout
  /\ table!Ask(out')
  /\ asked' = AskedLast
  /\ UNCHANGED prompt

Bounded == \A r \in Requests : open'[r] <= MaxSame

SessionNext == (OtherEvent \/ \E r \in Requests : UserReplies(r)) /\ Bounded

SessionSpec == SessionInit /\ [][SessionNext]_sessionVars

-----------------------------------------------------------------------------
\* Nobody waits for an answer nobody was asked for: whatever was replied late,
\* twice or in vain before, while the coordinator waits for the start of a test
\* case or for a step, a request for exactly that is still open.
WaitingMeansAsked ==
  /\ fsm = "waiting_for_testcase_start" /\ current # NoTC => open[Ready(current)] > 0
  /\ fsm = "waiting_for_step_executed" => open[Step(current, tc[current].pos)] > 0

\* As long as the users answer the last request for a step only, the machine
\* never rests in a dummy state, whichever other buttons they press and when.
PromptUsersNeverWedge == prompt => fsm # "preparing_next_step"
=============================================================================
