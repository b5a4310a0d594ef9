-------------------------- MODULE AutomatedSession --------------------------
(***************************************************************************)
(* A session without a user interface (src/automation): the coordinator,   *)
(* automated IUTs, the UserMock that stands for the user, and the driver   *)
(* that configures the session, waits for the report and ends it.          *)
(*                                                                         *)
(* Each of them has a queue on the bus and handles one message at a time;  *)
(* the coordinator's queue holds what all of them publish, in any          *)
(* interleaving.                                                           *)
(***************************************************************************)
EXTENDS Coordinator, FiniteSets

CONSTANTS
  StepNode,   \* StepNode[t][i]: the node that executes the step
  Setups,     \* which nodes may have automated IUTs, and which agents may
              \* announce their interface early, before the suite is started
  CannotRun,  \* CannotRun[n]: test cases the IUT of n does not implement
  Addresses,  \* Addresses[n]: what _execute_configuration of the IUT of n returns
  Fallible    \* nodes whose IUT may raise where nobody catches it

Mock == "user_mock"
Log  == "message_logger"

\* Nobody in such a session names an unknown test case or sends a value that
\* cannot be read, but an IUT may report without an address, and an answer may
\* come for a step that is no longer the current one.
ASSUME SetupAssumption ==
  /\ {Mock, Log} \cap Agents = {}
  /\ Irregular = {"wrong_answer", "no_address"}
  /\ \A t \in TestCases : \A i \in Steps(t) : StepNode[t][i] \in Agents
  /\ Setups \subseteq [automated : SUBSET Agents, early : SUBSET Agents]
  /\ CannotRun \in [Agents -> SUBSET TestCases]
  /\ Addresses \in [Agents -> SUBSET {"given", "None", "empty"} \ {{}}]
  /\ Fallible \subseteq Agents

VARIABLES
  automated, \* nodes with an automated IUT
  bus,       \* the coordinator's events queue
  mailbox,   \* the queues of the others
  tuns,      \* agents about to announce their interface
  driver,    \* where PerformFullTest.run is: "check", "wait" or "done"
  reported,  \* the report came in
  stopped    \* who stopped consuming, told to or by an exception

parties == <<automated, bus, mailbox, tuns, driver, reported, stopped>>
sessionVars == <<vars, parties>>

Parties == automated \cup {Mock, Log}

SessionInit ==
  /\ Init
  /\ \E s \in Setups : automated = s.automated /\ tuns = s.early
  /\ bus = <<>>
  /\ mailbox = [p \in Parties |-> <<>>]
  /\ driver = "check"
  /\ reported = FALSE
  /\ stopped = {}

-----------------------------------------------------------------------------
(* What each listens to: messages nobody acts on are left out *)

Terminate == [msg |-> "TestingToolTerminate", tc |-> NoTC, step |-> 0]

NodeOf(m) == StepNode[m.tc][m.step]
TypeOf(m) == Script[m.tc][m.step]

\* event_to_handler_map and the conditions of its handlers.  A verify step of a
\* node without an automated IUT is answered by the mock.
ActsOn(p, m) ==
  CASE p = Mock -> \/ m.msg \in {"TestingToolConfigured", "TestCaseReady"}
                   \/ /\ m.msg = "StepExecute" /\ TypeOf(m) = "verify"
                      /\ NodeOf(m) \notin automated
    [] p = Log  -> m.msg = "TestSuiteReport"
    [] OTHER    -> \/ m.msg = "ConfigurationExecute"
                   \/ m.msg = "TestCaseReady" /\ m.tc \in CannotRun[p]
                   \/ m.msg = "StepExecute" /\ NodeOf(m) = p

\* The k-th element of a finite set of numbers.
Nth(K, k) == CHOOSE i \in K : Cardinality({j \in K : j <= i}) = k

\* The messages of s that p acts on, in their order.
ActedOn(p, s) ==
  LET K == {k \in DOMAIN s : ActsOn(p, s[k])}
  IN [k \in 1..Cardinality(K) |-> s[Nth(K, k)]]

Deliver(s) ==
  mailbox' = [p \in Parties |->
                IF p \in stopped THEN mailbox[p] ELSE mailbox[p] \o ActedOn(p, s)]

Publish(c) == bus' = Append(bus, c)

Command(name, t, n) == [cmd |-> name, tc |-> t, node |-> n]
NoNode == "none"

-----------------------------------------------------------------------------
(* The coordinator *)

Ignored(sources) ==
  /\ fsm \notin sources
  /\ out' = <<>>
  /\ UNCHANGED <<alive, fsm, current, tc, selection, nodes, sessionReport>>

\* The verdicts do not matter here: there is a capture, and it is analysed.
StepAnswered(a) ==
  \/ \E tat \in TatVerdicts : StepExecuted(a, TRUE, tat)
  \/ Ignored({"waiting_for_step_executed"})

HandleCommand(c) ==
  \/ /\ c.cmd = "configuration"
     /\ ConfigureTestsuite(TestCases, {}) \/ Ignored({"waiting_for_testsuite_config"})
  \/ /\ c.cmd = "suite_start"
     /\ StartTestsuite \/ Ignored(NotStarted)
  \/ /\ c.cmd = "configured"
     /\ \/ IutConfigurationExecuted(c.node)
        \/ fsm = "preparing_next_step" /\ Ignored({})
  \/ /\ c.cmd = "unaddressed"
     /\ \/ IutConfigurationWithoutAddress
        \/ fsm = "preparing_next_step" /\ Ignored({})
  \/ /\ c.cmd = "tc_start"
     /\ \/ StartTestcase
        \/ Ignored({"waiting_for_testcase_start", "waiting_for_iut_configuration_executed"})
  \/ /\ c.cmd = "tc_skip"
     /\ SkipCurrentTestcase(c.tc) \/ SkipOtherTestcase(c.tc) \/ Ignored(Ongoing)
  \/ c.cmd = "stimuli" /\ StepAnswered("stimuli")
  \/ c.cmd = "verify" /\ StepAnswered("verify true")

\* A dead coordinator consumes nothing and its timer is gone.
CoordinatorStep ==
  /\ alive
  /\ \/ /\ bus # <<>>
        /\ HandleCommand(Head(bus))
        /\ bus' = Tail(bus)
     \/ IutConfigurationTimeout /\ UNCHANGED bus
  /\ Deliver(out')
  /\ tuns' = IF \E k \in DOMAIN out' : out'[k].msg = "AgentTunStart" THEN Agents ELSE tuns
  /\ UNCHANGED <<automated, driver, reported, stopped>>

-----------------------------------------------------------------------------
(* The others *)

\* An agent announces that its interface is up.
AgentAnnounces(a) ==
  /\ a \in tuns
  /\ tuns' = tuns \ {a}
  /\ Publish(Command("configured", NoTC, a))
  /\ UNCHANGED <<vars, automated, mailbox, driver, reported, stopped>>

\* on_request: p takes the next message.
Takes(p, name) ==
  /\ p \in Parties \ stopped
  /\ mailbox[p] # <<>>
  /\ Head(mailbox[p]).msg = name
  /\ mailbox' = [mailbox EXCEPT ![p] = Tail(@)]
  /\ UNCHANGED <<vars, automated, tuns, driver>>

StaysOn == UNCHANGED <<reported, stopped>>

\* UserMock: handle_testing_tool_configured, handle_test_case_ready,
\* handle_verif_step_execute.
MockStartsSuite ==
  /\ Takes(Mock, "TestingToolConfigured")
  /\ Publish(Command("suite_start", NoTC, NoNode))
  /\ StaysOn

MockStartsTestcase ==
  /\ Takes(Mock, "TestCaseReady")
  /\ Publish(Command("tc_start", NoTC, NoNode))
  /\ StaysOn

MockVerifies ==
  /\ Takes(Mock, "StepExecute")
  /\ Publish(Command("verify", NoTC, NoNode))
  /\ StaysOn

\* handle_test_case_ready of an IUT: the mock starts the same test case.
IutSkips(n) ==
  /\ Takes(n, "TestCaseReady")
  /\ Publish(Command("tc_skip", Head(mailbox[n]).tc, NoNode))
  /\ StaysOn

\* handle_configuration_execute: the report is published with the address, or
\* with None in its place, and left out only if the address is ''.
IutConfigures(n) ==
  /\ Takes(n, "ConfigurationExecute")
  /\ \/ "given" \in Addresses[n] /\ Publish(Command("configured", NoTC, n))
     \/ "None" \in Addresses[n] /\ Publish(Command("unaddressed", NoTC, n))
     \/ "empty" \in Addresses[n] /\ UNCHANGED bus
  /\ StaysOn

\* A mutant: an IUT goes on after a stimulus it does not implement, but without
\* the answer that the handler of NotImplementedError publishes.
IutExecutesOrKeepsSilent(n) ==
  /\ Takes(n, "StepExecute")
  /\ Publish(Command(TypeOf(Head(mailbox[n])), NoTC, n)) \/ UNCHANGED bus
  /\ StaysOn

\* handle_stimuli_execute, handle_test_case_verify_execute: the answer does not
\* say which step it is for.  A stimulus that raises NotImplementedError is
\* answered like one that was executed.
IutExecutes(n) ==
  /\ Takes(n, "StepExecute")
  /\ Publish(Command(TypeOf(Head(mailbox[n])), NoTC, n))
  /\ StaysOn

\* _execute_configuration, _execute_verify (NotImplementedError, unless it is
\* overridden) or _execute_stimuli (any other exception) raises: the exception
\* leaves on_request and ends the thread, and with its connection goes its queue.
IutFails(n) ==
  /\ n \in Fallible \ stopped
  /\ mailbox[n] # <<>>
  /\ Head(mailbox[n]).msg \in {"ConfigurationExecute", "StepExecute"}
  /\ mailbox' = [mailbox EXCEPT ![n] = <<>>]
  /\ stopped' = stopped \cup {n}
  /\ UNCHANGED <<vars, automated, bus, tuns, driver, reported>>

\* MessageLogger.process_message
LogSeesReport ==
  /\ Takes(Log, "TestSuiteReport")
  /\ reported' = TRUE
  /\ UNCHANGED <<bus, stopped>>

\* handle_testing_tool_terminate
Stops(p) ==
  /\ Takes(p, "TestingToolTerminate")
  /\ stopped' = stopped \cup {p}
  /\ UNCHANGED <<bus, reported>>

-----------------------------------------------------------------------------
(* The driver: PerformFullTest.run *)

EndSession ==
  /\ driver' = "done"
  /\ mailbox' = [p \in Parties |->
                   IF p \in stopped THEN mailbox[p] ELSE Append(mailbox[p], Terminate)]

\* check_session_start_status, then MsgSessionConfiguration; a session that has
\* begun is not taken over, and a dead coordinator gives no status.
CheckStatus ==
  /\ driver = "check" /\ alive
  /\ IF \A t \in TestCases : tc[t].state = "None"
     THEN /\ driver' = "wait"
          /\ Publish(Command("configuration", NoTC, NoNode))
          /\ UNCHANGED mailbox
     ELSE EndSession /\ UNCHANGED bus
  /\ UNCHANGED <<vars, automated, tuns, reported, stopped>>

SeeReport ==
  /\ driver = "wait" /\ reported
  /\ EndSession
  /\ UNCHANGED <<vars, automated, bus, tuns, reported, stopped>>

\* SESSION_TIMEOUT is taken to be longer than anything but a hang: everybody who
\* still consumes has nothing left to do.
Quiet == /\ alive => bus = <<>>
         /\ \A p \in Parties \ stopped : mailbox[p] = <<>>

\* A mutant: without a report the session is left as it is.
GiveUpSilently ==
  /\ driver \in {"check", "wait"} /\ Quiet
  /\ driver' = "done"
  /\ UNCHANGED <<vars, automated, bus, mailbox, tuns, reported, stopped>>

\* No status after ten requests, or no report after SESSION_TIMEOUT.
GiveUp ==
  /\ driver \in {"check", "wait"} /\ Quiet
  /\ EndSession
  /\ UNCHANGED <<vars, automated, bus, tuns, reported, stopped>>

PartyStep(p) ==
  \/ p = Mock /\ (MockStartsSuite \/ MockStartsTestcase \/ MockVerifies)
  \/ p = Log /\ LogSeesReport
  \/ p \in automated /\ (IutSkips(p) \/ IutConfigures(p) \/ IutExecutes(p) \/ IutFails(p))
  \/ Stops(p)

DriverStep == CheckStatus \/ SeeReport \/ GiveUp

SessionNext ==
  \/ CoordinatorStep
  \/ \E a \in Agents : AgentAnnounces(a)
  \/ \E p \in Agents \cup {Mock, Log} : PartyStep(p)
  \/ DriverStep

SessionSpec == SessionInit /\ [][SessionNext]_sessionVars

\* Whoever still consumes goes on consuming, and the driver does not wait for
\* ever.
FairSession ==
  /\ SessionSpec
  /\ WF_sessionVars(CoordinatorStep)
  /\ \A p \in Agents \cup {Mock, Log} : WF_sessionVars(PartyStep(p))
  /\ WF_sessionVars(DriverStep)

-----------------------------------------------------------------------------
(* Properties *)

InMail(p, name, t, i) ==
  \E k \in DOMAIN mailbox[p] :
    mailbox[p][k].msg = name /\ mailbox[p][k].tc = t /\ mailbox[p][k].step = i

OnBus(name) == \E k \in DOMAIN bus : bus[k].cmd = name

Executor(t, i) == IF StepNode[t][i] \in automated THEN StepNode[t][i] ELSE Mock

\* A stimulus of a node without an automated IUT takes a user, whom the mock
\* does not stand for.
Attended(t, i) == Script[t][i] = "stimuli" => StepNode[t][i] \in automated

\* Until the driver ends the session, whatever a coordinator that lives waits
\* for is on its way: somebody has a message he will react to, or the reaction
\* is queued.  This holds however late the agents and the IUTs report, and also
\* when what is queued was published twice or for an earlier test case.  One
\* thing alone makes it wait in vain: the IUT that is to execute the step has
\* ended by an exception of its own.
WaitingMeansOwed ==
  /\ alive /\ driver = "wait" /\ fsm = "waiting_for_testsuite_config" => OnBus("configuration")
  /\ alive /\ driver # "done" =>
       /\ fsm = "waiting_for_testsuite_start"
            => InMail(Mock, "TestingToolConfigured", NoTC, 0) \/ OnBus("suite_start")
       /\ fsm = "waiting_for_testcase_start"
            => InMail(Mock, "TestCaseReady", current, 0) \/ OnBus("tc_start")
       /\ fsm = "waiting_for_step_executed" /\ Attended(current, tc[current].pos)
            => LET i == tc[current].pos IN
               \/ Executor(current, i) \in stopped
               \/ InMail(Executor(current, i), "StepExecute", current, i)
               \/ OnBus(Script[current][i])

\* However the session goes, also when it hangs, when IUTs fail or when the
\* coordinator is dead, it is ended: every IUT, the mock and the logger stop.
EverybodyStops == <>(stopped = Parties)
=============================================================================
