# Verification of the ioppytest testing tool

ioppytest runs interoperability tests: two implementations under test (IUTs), driven by users or
automated, go through the test cases of a test suite while their packets are captured and analysed.
This directory holds TLA+ models of the tool, the instances TLC checks and proofs that TLAPS checks.

## The system

| component (source) | state it keeps | operations | talks to |
|---|---|---|---|
| Test coordinator (`ioppytest/test_coordinator/coordinator.py`, `states_and_transitions.py`) | state of its machine, a timer | one handler per event of the bus: configure, start, agent configured, start / restart / select / skip test case, step executed, timeout | test suite (calls), bus |
| Test suite (`ioppytest/test_suite/testsuite.py`) | current test case, state / steps / partial verdicts / report of each test case, selection, nodes heard, final report | next test case, next step, finish step, reinit, skip, reports | called by the coordinator |
| Bus interface (`amqp_connector.py`) | connection, two queues | dispatch of events, notifications, requests to sniffer and analyser (TAT) | bus |
| Packet sniffer (`packet_sniffer`) | dumper subprocess, name of last capture, pcap files | start, stop, get capture, get last capture | bus, subprocess |
| Packet router (`packet_router`) | routing table, packets left to drop, bounded queues | route, drop, start lossy link | bus |
| UI adaptor (`ui_adaptor`) | five queues, pending requests, users and roles | two translators, request / reply with the UI, session set-up | UI bus, testing tool bus |
| Automated IUTs and sessions (`automation`) | configuration, last events | react to events, drive a session | bus |
| Results store adaptor (`rs_adaptor`) | none | passes verdicts and reports on to the store | bus, store |
| Start-up (`test_coordinator/__main__.py`) | components still awaited | wait for readiness within a deadline | bus |
| Web server, test descriptions, rendering | none | files, YAML, text | - |

What is hard here: users, two agents and a timer send events in any order and at any time, and the
machine accepts several of them in several states (one in every state). A handler triggers further
transitions while its own is under way, and may raise in the middle. Machine and test suite are two
state machines with no common invariant in the code. Sniffer and analyser answer late, wrongly or
not at all. The `hazards` of `PROJECT.json` list these, at the lines where they bite.

What makes each component correct:

* coordinator and test suite: machine and test case stay in step; every test case is run or skipped
  and gets a verdict; no verdict is better than an answer; no execution inherits anything from
  another; results are final; the process neither dies nor waits for ever; the suite ends.
* sniffer: the capture analysed is of the execution it is analysed for; a stopped execution does
  not leave a dumper behind.
* router: each packet reaches the other nodes at most once and in order; exactly the packets asked
  to be dropped are.
* UI adaptor: every role gets a holder and the configuration reaches the coordinator; requests and
  replies are neither lost nor doubled, and what is shown is filed with its test case.
* automated IUTs: whatever the coordinator waits for is on its way, and the session ends.

## Modules

| module | models |
|---|---|
| `Verdict` | the verdict lattice of class `Verdict` |
| `VerdictUpdates` | one `Verdict` object and the calls of its `update()`, as they come |
| `Schedule` | what the coordinator promises: which test cases are run, and their verdicts |
| `Coordinator` | state machine, handlers and test suite: one action per event of the bus; implements `Schedule` |
| `Sniffer` | the packet sniffer's service and its dumper subprocess |
| `CaptureSession` | `Coordinator` and `Sniffer` together: what ends up in the captures analysed |
| `OpenRequests` | the requests of the testing tool that wait for a user's reply |
| `UiSession` | `Coordinator` driven by users through the UI adaptor |
| `Translator` | what the UI translator remembers, displays, asks and replies: operators |
| `UiAdaptor` | listeners, queues and main loop of the UI adaptor; implements `OpenRequests` |
| `SessionSetup` | from the launch of the processes to the start of the suite |
| `PacketRouter` | the packet router, its queues on the broker, and lossy links |
| `AutomatedSession` | `Coordinator` with automated IUTs, user mock and driver, over the bus |
| `VerdictProofs` | theorems about `VerdictUpdates` |
| `CoordinatorProofs` | inductive invariant of `Coordinator`, its safety theorems and action properties, and that it implements `Schedule` |
| `CaptureProofs` | which calls each event makes, and the theorems of `CaptureSession` |
| `UiSessionProofs` | inductive invariant of `UiSession` and its two theorems |
| `AutomatedProofs` | inductive invariant of `AutomatedSession` and its theorem |
| `RouterProofs` | inductive invariant of `PacketRouter` and its theorems |
| `SetupProofs` | the two safety properties of `SessionSetup` as theorems |
| `AdaptorProofs` | inductive invariants of `UiAdaptor`, its theorems, and that it implements `OpenRequests` |
| `MC_*` | instances |

### How `Coordinator` corresponds to the code

The variables are the fields: `fsm` is the machine's state, `current` is `current_tc`, `tc[t]` the
`TestCase` object (`pos` counts what its iterator has handed out, so the step at `pos` is
`current_step`), `selection` is `session_selected_tc_list`, `nodes` is `nodes_configured`,
`sessionReport` is `report`. `out` holds what the last event published or called, in order, and
`alive` whether the process runs.

An event is consumed by one thread, and the library `transitions` runs nested triggers at once, so
one action is one event handled to the end: conditions, `before` callbacks, exit, state, entry,
`after` callbacks, and the same for every transition they trigger. The chains are written once:
`PrepareNextTestcase` is entering `preparing_next_testcase`; entering `preparing_next_step` has three
outcomes, `ExecuteNextStep`, `FinishTestcase` (through `testcase_finished` to the next test case) and
`FailToFinish`. A trigger not accepted in a state raises `MachineError`, which `handle_control` logs:
no action. `CoordinatorError` is logged too; any other exception is `Dies`, and it is final because
the supervisor does not restart the process (`autorestart=false`, `envs/coap_testing_tool`).

Abstractions, and why they lose nothing the properties speak of:

* Messages are records of kind, test case and step. Node addresses, session id and users, files and
  texts are left out, and so are the status services, which only read.
* Sniffer and analyser are outcomes of `StepExecuted`: `captured` is whether a capture came back,
  `tat` the worst verdict of the analysis, or `Unusable` for a timeout, an error, an answer without the
  attributes that are read, and an empty list. All of these lead to a report, and the code treats
  them alike. An answer that says ok with a value of another shape raises an exception that nobody
  catches: that is `AnswerUnreadable`.
* A configuration has one link, `Lossy` says for which test cases it is a lossy one.
* `ConfigureTestsuite(listed, folded)`: ids are compared as they come when the session is
  configured, and in upper case when the suite starts; `folded` are the ids only the second
  comparison finds. A list with nothing known in it skips everything.
* The timer of the configuration state fires between events. The race of its thread with the main
  one is not in this model.
* `abort_testcase`, `_timeout_waiting_step_executed` and `go_to_next_testcase` have no message that
  triggers them. Messages without the attributes a handler insists on raise `CoordinatorError` and
  have no effect. An address of another form than two parts raises it too, after the re-entry, and
  leaves the node unheard: a re-entry without effect on the state, which is not an action of its own.
* Which attributes a message can lack is decided by the message library, which is not in the
  repository. The handlers that test for absent ones are taken at their word.
* `ScriptAssumption`: every test case has a step an IUT executes, as in every test description.

`Irregular` says which inputs outside the protocol arrive:

| input | what | what the code does |
|---|---|---|
| `wrong_answer` | an answer to another kind of step | drops it, but the machine moves on |
| `unknown_testcase` | an id of no test case | skips or selects by other rules; dies at the next start or skip (`StartWithoutTestcase`, `SkipUnknownTestcase`) |
| `no_address` | a configuration message without address | re-enters its state, publishes its notices again, and dies (`IutConfigurationWithoutAddress`) |
| `no_testcase_id` | a skip message without that attribute | dies in the condition of the transition (`SkipWithoutId`) |
| `bad_value` | a verify response that is no boolean, an id that is no string, a configuration that is none | dies before the state is left (`UnreadableValue`) |
| `bad_reply` | a service that says ok with a value that cannot be processed | dies after the services were called (`AnswerUnreadable`) |

The properties hold for all of them unless they say otherwise. The last five can be fatal (`Fatal`).
A process that dies has published what it published until then, and its memory stays as it was, so
that the invariants about messages and results are about it too.

### How `Schedule` and `Coordinator` correspond

`Schedule` is what somebody who follows a session sees: test cases that are idle, under way, finished
or skipped, their verdicts and the final report. It has no steps, agents, timers or messages. `MoveOn`
is the rule of `_prepare_next_testcase`: with nothing under way the first idle test case is taken up, or
the suite is over and everything is reported, with `Default` for what has no verdict. The actions are
the ways to get there: `Start`, `Finish`, `Skip`, and the user's `Jump`; a restart changes nothing that
shows. `KeepsSchedule` says that `Coordinator` implements it. The refinement mapping derives the phase
from the machine's state and the status from the test case's (`Phase`, `Shown`). Before the suite
starts every test case counts as idle, since what is skipped then is reinitialised by the start;
`chosen` is what counts, also when the selection matches only up to upper case. `Strays` admits what the
code does with unknown ids: a skip applies to the test case under way and leaves none, a selection
leads to the first idle one.

### How `Sniffer` and `CaptureSession` correspond to the code

`Sniffer` is class `Sniffer` of `packet_sniffer/__main__.py`: `dumper` is `pcap_dumper_subprocess`
and what it is doing, `target` the capture it was launched for, `files` the pcap files, `reply`
whether the last answer was ok. `Start`, `Stop` and `CanGet` are the branches of `on_request`. The
subprocess runs `packet_dumper` of an external library, modelled from its use: it opens the file
named for it anew once it listens to the bus, records every packet of the agents, and exits some time
after it hears a MsgSniffingStop itself ("the process stops on it's own, we just verify it is
stopped"). So a stop that finds it starting is lost on it, and one that finds it slow to exit is
answered with not ok.

`CaptureSession` is the composition. The calls are blocking, so the coordinator's step and the
handling of its request are one step: `ServeStart`, `ServeStop` with the capture asked for after it,
or `ServeNothing`, chosen by what the step published (`out`). The steps of the subprocess interleave
freely. A call that times out is handled by the sniffer all the same, before the next one, and the
coordinator does not look at the reply of start and stop. It does look at the capture's: that one
may not come (`captured`), and comes only if the file is there. Packets carry the test case under
execution, if any; those recorded where they belong leave no trace in the model, since the
properties are about the others. `accepted`, `stale` and `disturbed` are history variables that only
the properties read.

Left out: `GetCaptureLast` and a failing launch of the subprocess. A capture of size zero is never
answered, and looks to the coordinator like one that does not come.

### How `OpenRequests` and `UiSession` correspond to the code

`OpenRequests` is the table `_pending_responses` of the translator, as a count of the entries for
each message that calls for a user: `Ask` adds one for each such message the testing tool publishes
(`process_message_from_testing_tool`), `Close` removes the one replied to and adds what the
coordinator publishes upon the reply (`process_message_from_ui`, `translate_ui_to_tt_message`).
Entries go away only when they are replied to; nothing clears them when their test case is over. A
second reply to the same request finds no entry and does nothing, so it is no action.

`UiSession` is the translator `CoAPSessionMessageTranslator`, which most test suites use or inherit
from. `StartClicked`, `SkipClicked`, `RestartClicked` and `StepAnswered` are its handlers
`get_tt_message_*`, composed with the coordinator's event. They show what the code makes of the
request replied to: skip and restart use its test case, start and the answers to steps do not use
anything of it, so they apply to whatever the coordinator is at. `Ignored` is the `MachineError` of a
message that its state does not accept. Requests are for stimuli and verify steps only, as there is
no other step request among `tt_to_ui_message_translation`.

Inputs that end the coordinator whatever is on the screen are left out: `FatalEvents` of
`CoordinatorProofs` lists them. Of the ways to die only a start without a test case remains.

The adaptor's queues and the bus are left out, since a message that is slow and a user who is slow
look alike: a request is replied to at any time after it was published, or never. Replies whose
messages overtake each other are replies in the other order. Left out as well: replies whose value is
unreadable, which lose the request (see `hazards`), and the exceptions that malformed replies raise.
`MaxSame` bounds how often the same request is open: a chatty agent has the current request published
again and again. `asked` and `prompt` are history variables that only the properties read.

### How `Translator` and `UiAdaptor` correspond to the code

`Translator` is `GenericBidirectonalTranslator` with `CoAPSessionMessageTranslator`. `Remember` is
`update_state` (`_current_tc` and the captures of `session_history_messages`), `DisplayTag` the table
`specialized_visualization` with `tag_message`, `Files` the captures attached to a verdict,
`Addressee` and `Others` who gets a display or a request and who is told to wait, `Chained` the
message made of a reply. Of a display only what it is made from, for whom, its tag and its files
are kept; tables, texts and colours are left out, and so is `_current_step`, which only texts use.
The code looks for the captures whose file name contains the test case's id, `Files` for equal ids:
no id in the test descriptions contains another, so the two agree.

`UiAdaptor` is the execution phase of `__main__.py`: two listener threads and a main loop that takes
its steps in turn (`pc`), with the five queues of the code. A message of the testing tool is its
number in `log`, which stands for the correlation id of the request made from it. Every `put` waits
while its queue is full, so it is a guard of its action. The adaptor listens to the topics it
publishes under, so chained messages come back (`PublishToTT`). `Forms` are the replies of the users:
`action`, a field with a chained message; `confirmation`, one without, or with a value that is
neither true nor false; `unexpected`, no field, two, or one not asked for, which raises an exception
that ends the adaptor. `CheckUsers` may end it too, for the time out of `get_current_users_online` is
not caught. Where the code counts turns to 500 the model asks in any turn.

`KeepsTable` says that this adaptor implements `OpenRequests`, the table on which `UiSession` builds:
a request counts as open from its publication by the testing tool until a reply uses it up.

### How `SessionSetup` corresponds to the code

Three processes. The components publish their readiness once (`ComponentReady`). The coordinator
(`test_coordinator/__main__.py`) waits for all of them or dies, declares its queues, services first,
and runs. The UI adaptor walks through `main`: the session's configuration, the users
(`wait_for_all_users_to_join_session`), the roles (`get_user_ids_and_roles_from_ui`), the readiness
of the testing tool, its configuration, and the bootstrap of the suite's translator, which is a
sequence of confirmations with the start of the suite at its place. What is published before a queue
is declared is lost (`Received`). The exceptions that `main` catches, and those it lets end the
adaptor, are `NoSession`, `NoRoles` and `BootstrapFails`. `trouble` records that something came late or
wrong, for `PromptSetupStarts`.

### How `PacketRouter` corresponds to the code

`_on_request` acknowledges a message first and then ignores, drops, refuses or forwards it: one action
each. The queues are the broker's: bounded, the oldest goes first; the data queues outlive the process
(`auto_delete=False`), the services queue does not. `Start` declares and purges them, `Stop` deletes
them, `Crash` leaves them. A crash can come between two publications of one packet
(`CrashWhileRouting`). `purged`, `asked`, `drops` and `cut` are history. A node stands for one of its
three interfaces, whose routes have the same shape.

### How `AutomatedSession` corresponds to the code

The coordinator's queue and one mailbox for each other member, in which only messages somebody acts on
are kept (`ActsOn`). The coordinator's step is the handling of one command, with what it publishes
delivered to the mailboxes. The members' handlers are one action each. The driver is
`PerformFullTest.run`.

How a stimulus is executed does not matter, for one that is not implemented is answered like one that
is: the handler catches `NotImplementedError`. It catches nothing else, and `_execute_verify` and
`_execute_configuration` are called with nothing around them, so any other exception leaves
`on_request`, ends the IUT's thread and closes its connection, and with that its queue goes
(`IutFails`). `Fallible` says whose IUT may end like that: the base class does so for a verify or a
configuration that a wrapper does not override. `Addresses` says what the wrappers return for a
configuration: an address, '' (nothing is reported), or None, which is reported like an address and
ends the coordinator. Who has stopped, told to or by an exception, is in `stopped`.

`SetupAssumption` names what such sessions are: agents are neither mock nor logger, nobody names an
unknown test case or sends a value that cannot be read, reports may lack an address, and answers may
come for a step that is no longer current. Left out: the loggers that only print, the stub of the
user interface and the UI adaptor's part in such a session, whose configuration message is the
driver's again; and an IUT whose process log cannot be read when the report comes.

## What is checked

| run | instance | shows |
|---|---|---|
| `coordinator_safety` | 2 test cases of 3 and 2 steps, 2 agents, every irregular input; 120,738 states | the safety and action properties, and that `Coordinator` implements `Schedule` |
| `coordinator_live` | 3 short test cases, regular inputs, fairness; 380,878 states, deadlock checked | nothing kills, wedges or stops the coordinator, and the suite finishes |
| `verdict_updates` | 3 updates of one verdict, 2 messages; 1,885 states | the worst verdict wins, with its message |
| `capture_session` | 2 test cases of one step, sniffer and subprocess; 192,709 states | recordings, refusals and idleness of the sniffer |
| `ui_session` | 2 test cases of 2 and 1 steps, 2 agents, users; 429,424 states | what the coordinator waits for is asked of somebody; users who answer the last step request only do not wedge it |
| `ui_adaptor` | 2 messages of the testing tool out of 5 kinds, queues of 2, 3 replies; 223,650 states | no self-made deadlock, order, filing, arrival, refinement of `OpenRequests` |
| `session_setup` | 2 users with 2 moves, 2 components, 4 suites; 707,652 states | roles, configuration, and that the set-up ends |
| `packet_router` | a link of 2 nodes and the tool's agent, queues of 2, 2 starts; 113,291 states | order, losses, restarts, and that every packet settles |
| `automated_session` | 2 test cases, client automated with an early agent, server alone or both automated, addresses given, empty and None, a client that may fail; 1,271,409 states | what a live coordinator waits for is on its way unless its executor failed; IUTs, mock and logger stop |
| `stale_capture`, `all_roles`, `automated_wedge` | as above | three disagreements, below |

Two test cases are what selection, restart and "the next one" need; with three there is one that is
neither current nor selected. A script of three steps has a first, a middle (left for the
analysis) and a last. Two agents are the fewest for which the configuration can be complete; more
than two only repeat a re-entry. The coordinator's state space is finite without a bound on events. The
safety run does not check deadlock, for a dead process and a wedged machine do stop; the live one
does. `capture_session` has no agents and no partial verdicts, for neither concerns the sniffer: two
test cases of a single step give the previous attempt, the other test case and the packets between
executions. It does not check deadlock, for with nobody sending nothing happens after the end of the
suite. `ui_session` admits answers of the wrong type, since a late click sends one; its test cases
differ in the type of their first step, so that a request left open by one can hit the other with
either the type expected or another. Two requests of the same content (`MaxSame`) are what a repeated
publication leaves, one used up and one stale. The bound stops the session, so that it does not check
deadlock either. `VerdictUpdates` bounds the calls by `MaxUpdates`; its theorems do not.

The bounds of the others. `UiAdaptor`: with `QueueLimit` 2 and `MaxMessages` 2, to which chained
messages add, every queue gets full and a listener waits; `MaxReplies` 3 lets a user reply twice to one
request and once to another. `SessionSetup`: one user too few, enough, and one who leaves or comes
between any two steps (`MaxMoves` 2); one poll and a last one (`MaxPolls` 1); a readiness request
that fails and one that is the last (`ReadyTries` 2). `PacketRouter`: `MaxPackets` of the client
exceeds `QueueLimit`; two services, of which the second may come before, while or after the packets of
the first are dropped; two starts (`MaxStarts`) give one after a crash and one after a stop. In
`AutomatedSession` each test case has a single step; scripts with a second step are those of
`automated_wedge`. The agent that is early lets the machine be re-entered before the suite is
configured. These sessions end, so their runs do not check deadlock.

The properties are aimed at what is spread over several handlers or processes. `FsmAgreesWithTestcase`,
`OnlyCurrentUnderWay`, `NothingCarriedOver` and `StepsInOrder` tie the two state machines together;
`VerdictIsEarned`, `VerdictStands` and `NothingForgotten` are about results;
`OnlySelectionRevives` and `KeepsSchedule` about scheduling; `WaitsForWhatItAsked` about re-entered
states, which must ask for the current step again and for nothing else; `Survives`
and `NeverWedged` about errors. In `CaptureSession`, `AcceptedCaptureFits` relates a start, every
step of subprocess and agents in between, a stop and the analysis; `IdleBetweenExecutions` and
`RefusedOnlyWhenDisturbed` say that only two things lead to a start being refused, an execution
interrupted without a stop and a stop that failed. In `UiSession`, `WaitingMeansAsked` ties the
coordinator's state to the open requests after any clicks, late ones included, and
`PromptUsersNeverWedge` says how much discipline of users keeps the machine going. In `UiAdaptor`,
`NeverBlocksItself` says that the loop, sole consumer of queues it fills, never waits for room in them;
`ShownInOrder` and `OnScreenMeansPending` relate screens, table and log; `FiledWithItsTestcase` and
`VerdictBringsCaptures` relate what is shown to everything that was heard. In `SessionSetup`,
`EveryRoleHeld` holds however users come and go between the three times they are counted, and
`ConfigurationHeard` rests on the order in which queues are declared and services answered. In
`PacketRouter`, `OrderKept` and `AgentSeesAll` compare what different nodes received and in which order, `NewestWait` and
`CleanStart` say what losses and restarts cost, `DropsWereAsked` bounds the losses whatever requests
overtake each other. In `AutomatedSession`, `WaitingMeansOwed` ties the coordinator's state to the
messages under way between all members, while the coordinator lives and until the driver ends the
session; it asks nothing of an IUT that ended by an exception, nor where a stimulus takes a user, whom
nobody stands for in such a session (`Attended`). `EverybodyStops` is about the IUTs, the mock and the
logger; coordinator and agents are ended from outside.

### Fairness

* `Coordinator`: users or automated IUTs sooner or later start the suite, start the test case that is
  waiting, and answer the step that was asked with an answer of its type. That is what the code waits
  for with no timeout of its own. Nothing is assumed of the timer, for `start_testcase` is accepted
  without it, and capture and analysis may come, fail or be unusable in any way that the code handles
  (the others are irregular inputs). `SuiteFinishes` asks for the end
  only if users at some point stop restarting, selecting and skipping.
* `UiAdaptor`: the three threads run, and nothing is assumed of testing tool and users.
* `SessionSetup`: the processes run; each request of the adaptor is answered or times out. Users may
  never come and never confirm.
* `PacketRouter`: the broker serves the consumers of a channel in turn; it may crash or be stopped at
  any time, and `EveryPacketSettles` is about the time it runs.
* `AutomatedSession`: each consumer goes on consuming, and the driver does not wait for ever.
  `SESSION_TIMEOUT` is taken to be longer than anything but a hang: it expires only when all queues are
  empty (`Quiet`).

### Disagreements found

* `stale_capture`: a restart, a selection or a skip without id leaves the sniffer running. The next
  start is refused, the coordinator takes the error message it gets for success, and what the
  analyser is sent at the end holds packets of the attempt before. `AcceptedCaptureFits` shows what
  looking at the replies would give: with start and stop both ok, the capture fits.
* `all_roles`: the form offers the role "all", the code looks for "both", and fails to remove "all"
  from the list of roles; the adaptor ends during the set-up.
* `automated_wedge`: `preparing_next_step` is called a dummy state, but the machine can rest in it. A
  configuration report during a step (agents are slow, the timer went on without them) has the step
  requested again, an automated IUT answers both requests, and the surplus answer, being of another
  type than the next step, is dropped while the machine goes on; at the end `finish_testcase` raises
  after the state was entered, and no message leads out. The run admits `wrong_answer`, since that is
  what the surplus answer is.

Met while modelling, and part of the models, but not runs of their own:

* a test case skipped before the suite starts is run all the same, because starting reinitialises all
  of them (`testsuite.py:330`);
* `reinit` keeps the report, so a test case run, selected again and skipped is reported with the
  verdict of the discarded execution (`testsuite.py:982`);
* `nodes_configured` is never cleared, so after the first test case any single report announces the
  next one ready (`testsuite.py:345`);
* step requests stay open until they are replied to, also when their test case is over, and the
  answer names neither test case nor step: a late click is taken for the answer to the current step
  (`message_translators.py:1659`);
* the skip of another test case than the current one makes the adaptor file under that one whatever
  names no test case, until another message names one (`message_translators.py:367`).

What ends the process shows up as `Survives` being conditional, and is part of the model behind
`Irregular`. Three of these contradict what the code says of itself:

* a skip message without `testcase_id` skips the current test case, "which is the expected behaviour of
  this api call" (`coordinator.py:442-443`); the condition that sees to it logs a variable that is
  unbound just then (`coordinator.py:529-533`), and the process ends with `UnboundLocalError`;
* "use default address" (`coordinator.py:172`) is followed by `len(None)` (`coordinator.py:222`). The
  process ends, and what it published on re-entering its state is out. Reports without address are
  sent: by the wrapper of the oneM2M CSE (`onem2m_cse_eclipse_om2m/automated_iut.py:50`), for only ''
  is held back (`automated_iut.py:322`);
* "TAT didn't send a correctly formatted message" (`coordinator.py:380`) is to give an error report, but
  only an absent attribute leads there. Partial verdicts that are None (`coordinator.py:358`), too short
  (`coordinator.py:362`) or unknown (`testsuite.py:733`) end the process after the sniffer was stopped
  and before the test case has a report.

The others: skipping an unknown test case and then starting or skipping; values that fail an assertion
of their handler; and, after the skip of an unknown one, both agents reporting when there is no current
test case.

## What is proved

For every number of test cases, every script, every set of agents and irregular inputs:

* `CoordinatorProofs`: `TypeCorrect`, `InStep`, `OneAtATime`, `StepsAreWalked`, `FreshStart`,
  `VerdictsAreEarned`, `NoTestcaseForgotten`, `RegularInputsAreSafe`, `RightAnswersNeverWedge`,
  `AskedForWhatItWaits`: all the invariants of the runs; `SelectionAloneRevives`, `VerdictsStand`,
  the action properties; `CoordinatorKeepsSchedule`: it implements `Schedule`; `SuiteStaysFinished`: no
  event changes any part of a finished suite. What a user sees of the latter follows from the schedule,
  where nothing leads out of "over", so no run checks it by itself.
* `CaptureProofs`: `CapturesFit`, `SnifferIsIdle`, `RefusalsAreExplained`: all properties of
  `capture_session`.
* `VerdictProofs`: `UpdatesAreMonotone` and `MessagesExplainVerdicts`, for any number of updates.
  `WorstIsUnique` shows that the value is determined by what was passed, so that the operator `Worst`
  used by `Coordinator` is what the loop of updates computes.
* `UiSessionProofs`: `WaitersWereAsked` and `PromptUsersAreSafe`, for any clicks and any `MaxSame`.
* `AutomatedProofs`: `NobodyWaitsInVain`, for any set of automated nodes, any early agents, any test
  cases the IUTs cannot run, any addresses they return and any of them that may fail.
* `RouterProofs`, `SetupProofs`, `AdaptorProofs`: all invariants of their components, and the
  refinement of `OpenRequests`.

The proofs assume `ScriptAssumption` and `InputAssumption` of `Coordinator`, `MessagesAssumption` of
`VerdictUpdates`, `SetupAssumption` of `AutomatedSession` (above), `SetupAssumption` of `SessionSetup`
(the names of the automated IUT and of the session's resource are not users) and `AdaptorAssumption`
of `UiAdaptor` (queues with room for two, finitely many roles, and a MsgTestCaseReady always names its
test case), which TLC evaluates on the instances.

The safety properties are not inductive one by one. `VerdictIsEarned` rests on the order of the
steps, that on the iterator being rewound whenever a test case returns to `None`, and that on the
agreement of machine and test case, since it is the machine's state that decides whether an event
touches the current test case. `IInv` therefore says, for each test case, what its state implies
about its steps (`CaseOK`: fresh, in order or earned), and, for the machine, which state the current
test case is in. There is a lemma for each operation on a test case, one for each chain of triggers,
one for each event, and `StepOK` puts them together. The action properties follow from `IInv` and
the same case analysis. `LeastIsLeast` replaces induction over the steps: the next step or test case
is a least element, which exists because intervals are well-founded under inclusion.
`AskedForWhatItWaits` needs an invariant of its own, `AsksRight`: what an event publishes depends on
the chain of triggers it sets off, and the lemmas say of each chain which step requests it
publishes. An event that ends the process may have repeated the request on its way; what the
invariant says of a dead process is that it published no other. `FatalEvents` are the events that can
do nothing but end the process; they leave the rest of the state alone (`FatalEventsEnd`), which
settles them once for all the invariants, and nothing follows them (`OnlyTheLivingAct`).
`RegularInputsAreSafe` excludes just the inputs of `Fatal`: answers to the wrong kind of step, repeated
and late messages, captures that do not come and analyses that fail are all allowed.

The refinement of `Schedule` goes event by event. `TakingUp`, `MovingOn` and `StandingStill` say what an
event does to the schedule when a test case is taken up, when the next is looked for, and when only
steps, agents or the timer are concerned. Every event is then one step of `Schedule` or none
(`StepSchedules`); `IInv` supplies that nothing but the current test case is under way.

`CaptureProofs` stands on `IInv` too. Lemmas say of each event which of the calls to sniffer and
analyser it makes: only the start of a test case starts the sniffer, only the answer that completes
one has its capture analysed, and that event stops the sniffer first; an execution begins with such a
start and ends with a stop or an interruption. The strengthening `RecordsCurrent` says that while the
coordinator lives, during an execution whose recording was taken up the subprocess is there, records the current test case,
and has either not opened its file or holds nothing but this execution.

`UiSessionProofs` stands on `IInv`. `UiInv` adds that the step request published last is for the step
waited for (`AskedIsCurrent`), and, for users who answer nothing but the request published last, that no
step before the current one is unanswered (`PromptAnswered`), so that none is missing at the end of a
test case. A click on another request closes only that one, and whatever begins a wait publishes the
request anew.

`AutomatedProofs`: what is owed must survive the handling of messages that were published twice or for
an earlier test case. `SessionInv` says that mailboxes hold only messages their owner acts on (`MailOK`)
and that what is queued for the coordinator names agents and test cases that exist (`BusOK`), so each
message is answered with the command that was waited for; commands that match no longer are ignored or
take the machine to a state whose request they publish again. An IUT that fails takes its mailbox with
it, so what is owed by it is excused from then on, and so is what would have been delivered to it
later (`FailureKeeps`, `Delivered`). The theorem is about a coordinator that lives, for a report without
address may end it.

`RouterProofs`: `PacketsKeepOrder`, `NewestPacketsWait`, `StartsAreClean`, `DropsAreAsked` and
`AgentSeesEverything`, for every topology, queue limit, number of packets and of crashes.
`OrderKept` is not inductive: what is delivered must be bounded by what still waits. `Base[s]`, the
number of packets of `s` that have left its queue, is that bound (`DeliveredLeft`), and since
`NewestWait` makes the queue the interval above `Base[s]`, the head of a queue is newer than all
that was delivered. `AgentSeesAll` follows because a packet is delivered to its nodes and to the
agent in one step, as the last one for each of them.

`SetupProofs`: `RolesAreHeld` and `ConfigurationIsHeard`, for any users who come and go, any
components and any number of retries. `RolesOK` adds that no role is given before the question is
answered and that there is a user whenever it is asked; that the users in a list are different
(`JoinedList`, `LeftList`) makes the holders different. `QueueOK` adds that the queue is empty until
the adaptor publishes and that it configures the tool only when the coordinator is up, which is what
makes its configuration the first message.

`AdaptorProofs`: all properties of `UiAdaptor` but its liveness: `LoopNeverBlocks`,
`RepliesFindTheirRequest`, `RequestsComeInOrder`, `FiledWell`, `VerdictsBringTheirCaptures`, and
`AdaptorKeepsTable`, that it implements `OpenRequests`, for any messages, roles, queue sizes and
numbers of messages and replies. `Arriving` numbers what waits on the way to the loop, so that
`Heard`, the number of messages taken up, is where the loop is. `QueuesShort` bounds the three
queues of the loop at each point of a turn: room for two is enough, and when a request is published
its display already is. `AskedOK` says that what calls for a user is on the screen or about to be.
`MemoryOK` ties what the translator remembers to the first `Heard` messages, and `EntriesOK` what
each entry carries to the moment its message was taken up; the past does not change (`PastStays`).
The refinement follows from `TableOK`: an entry is in the table or was popped, once.

Only model-checked: the liveness properties `SuiteFinishes`, `EveryPacketSettles`, `AllArrives`,
`SetupEnds`, `PromptSetupStarts` and `EverybodyStops`, for liveness under fairness is out of the
prover's reach. Every invariant and action property of the passing runs is proved.

## Plan

1. Done: the core above.
2. Done: `Sniffer` and its composition with the coordinator, with proofs.
3. Done: `OpenRequests`, `UiSession`, and `UiAdaptor`, which implements `OpenRequests`.
4. Done: `SessionSetup` and `PacketRouter`, `AutomatedSession`; proofs about all of them, `UiAdaptor` and
   `UiSession`.
5. Done: `Schedule`, and that the coordinator implements it.
6. To come: abstract specifications of the router (a lossy channel in order) and of the session with a
   sniffer, with the refinements proved; the timer's thread against the main one, at the grain of
   callbacks, which needs a model of the library `transitions`.

## Not modelled

* Web server, format conversion, message rendering, help texts and the wrappers of particular IUTs
  have no behaviour of their own: files, text and tables.
* The results store adaptor turns each message into one request and keeps nothing.
* The timer's thread: its expiry is one event. The callbacks of the library run unlocked in both
  threads; how they interleave is decided inside the library, which is not in the repository.
* `GetCaptureLast`, a failing launch of the dumper and the status services.
* Displays: tables, texts and colours; the table of VPN addresses that only WoT shows; what a new user
  on line is shown.
* In automated sessions the stub of the user interface and the loggers that only print.
