---------------------------- MODULE SessionSetup ----------------------------
(***************************************************************************)
(* From the launch of the processes to the start of the test suite: the    *)
(* coordinator's check of the other components (test_coordinator/          *)
(* __main__.py), the UI adaptor's set-up of the session (ui_adaptor/       *)
(* __main__.py, ui_tasks.py, tt_tasks.py) and the bootstrap of its         *)
(* translators.  The queues on the bus exist from the moment their owner   *)
(* declares them; what is published before is lost.                        *)
(***************************************************************************)
EXTENDS Naturals, Sequences, SequencesExt, FiniteSets

CONSTANTS
  Users,       \* users of the session
  Role1, Role2,\* IUT_ROLES
  Components,  \* TT_check_list, without the coordinator itself
  MaxPolls,    \* WAITING_TIME_FOR_SECOND_USER
  ReadyTries,  \* max_retries of wait_for_testing_tool_ready
  MaxMoves     \* bound: users who join or leave during the set-up

Suites == {"coap", "6lowpan", "wot", "dummy"}
Roles  == {Role1, Role2}
AutomatedIut == "automated_iut"
Resource     == "resource"  \* testsuite.additional_session_resource

ASSUME SetupAssumption ==
  /\ Role1 # Role2
  /\ MaxPolls \in Nat /\ ReadyTries \in Nat \ {0}
  /\ Users \cap {AutomatedIut, Resource} = {}

VARIABLES
  session,    \* suite, shared, and the role that the name of an additional
              \* resource contains ("none": no resource, or no role in it)
  online,     \* the users on line, as the UI knows them
  moves,      \* number of joins and leaves so far
  started,    \* components that published their ready signal
  co,         \* the coordinator's process
  missing,    \* what is left of its TT_check_list
  inbox,      \* its events queue
  fsm,        \* its state machine: "config", "start", "running" as configured
              \* or "unconfigured"
  pc,         \* where the UI adaptor is
  users,      \* the list of users it works with
  polls,      \* retries of wait_for_all_users_to_join_session
  mapping,    \* iut_role_to_user_id_mapping
  tries,      \* readiness requests sent
  queued,     \* the last of them found the services queue declared
  todo,       \* what is left of the bootstrap
  published,  \* history: the configuration published
  trouble     \* history: a signal missed, a time out, a wrong answer, no user

coordinatorVars == <<co, missing, inbox, fsm>>
adaptorVars == <<pc, users, polls, mapping, tries, queued, todo, published>>
vars == <<session, online, moves, started, coordinatorVars, adaptorVars, trouble>>

Sessions == [suite: Suites, shared: BOOLEAN, resource: Roles \cup {"none"}]

Init ==
  /\ session \in Sessions
  /\ \E u \in Users : online = <<u>>
  /\ moves = 0
  /\ started = {}
  /\ co = "down" /\ missing = Components
  /\ inbox = <<>> /\ fsm = "config"
  /\ pc = "session" /\ users = <<>> /\ polls = 0
  /\ mapping = <<>>
  /\ tries = 0 /\ queued = FALSE
  /\ todo = <<>>
  /\ published = "none"
  /\ trouble = FALSE

-----------------------------------------------------------------------------
(* Users and components *)

UserJoins(u) ==
  /\ moves < MaxMoves
  /\ ~Contains(online, u)
  /\ online' = Append(online, u)
  /\ moves' = moves + 1
  /\ UNCHANGED <<session, started, coordinatorVars, adaptorVars, trouble>>

UserLeaves(u) ==
  /\ moves < MaxMoves
  /\ \E k \in DOMAIN online : online[k] = u /\ online' = RemoveAt(online, k)
  /\ moves' = moves + 1
  /\ UNCHANGED <<session, started, coordinatorVars, adaptorVars, trouble>>

\* MsgTestingToolComponentReady is published once, when the component is up.
ComponentReady(c) ==
  /\ c \notin started
  /\ started' = started \cup {c}
  /\ missing' = IF co = "checking" THEN missing \ {c} ELSE missing
  /\ trouble' = (trouble \/ co = "down")
  /\ UNCHANGED <<session, online, moves, co, inbox, fsm, adaptorVars>>

-----------------------------------------------------------------------------
(* The coordinator's process *)

\* The bootstrapping queue is declared and bound.
StartChecking ==
  /\ co = "down" /\ co' = "checking"
  /\ UNCHANGED <<session, online, moves, started, missing, inbox, fsm,
                 adaptorVars, trouble>>

ReadySignalTimeout ==
  /\ co = "checking" /\ missing # {}
  /\ co' = "dead"
  /\ trouble' = TRUE
  /\ UNCHANGED <<session, online, moves, started, missing, inbox, fsm, adaptorVars>>

\* amqp_create_queues_bind_and_susbcribe: services first, then events.
DeclareQueues ==
  /\ \/ co = "checking" /\ missing = {} /\ co' = "services"
     \/ co = "services" /\ co' = "events"
  /\ UNCHANGED <<session, online, moves, started, missing, inbox, fsm,
                 adaptorVars, trouble>>

\* coordinator.bootstrap(), MsgTestingToolReady, coordinator.run()
RunCoordinator ==
  /\ co = "events" /\ co' = "up"
  /\ UNCHANGED <<session, online, moves, started, missing, inbox, fsm,
                 adaptorVars, trouble>>

\* configure_testsuite and start_testsuite; the suite may be started without a
\* configuration.  A message the machine has no transition for is dropped.
HandleEvent ==
  /\ co = "up" /\ inbox # <<>>
  /\ inbox' = Tail(inbox)
  /\ fsm' = CASE fsm = "config" /\ Head(inbox) = "configuration" -> "start"
              [] fsm = "config" /\ Head(inbox) = "suite_start" -> "unconfigured"
              [] fsm = "start" /\ Head(inbox) = "suite_start" -> "running"
              [] OTHER -> fsm
  /\ UNCHANGED <<session, online, moves, started, co, missing, adaptorVars, trouble>>

\* What a publisher's message does to the coordinator's queue.
Received(m) == IF co \in {"events", "up"} THEN Append(inbox, m) ELSE inbox

-----------------------------------------------------------------------------
(* The UI adaptor: from the session's configuration to the roles *)

At(here, next) == pc = here /\ pc' = next

NotTheAdaptor == UNCHANGED <<session, online, moves, started, co, missing, fsm>>

\* get_session_configuration_from_ui, twice, with nobody to catch a time out or
\* an answer without the expected keys.
GetSession ==
  /\ \/ At("session", "online")
     \/ At("online", IF session.suite = "wot" THEN "bootstrap" ELSE "join")
  /\ NotTheAdaptor
  /\ UNCHANGED <<inbox, users, polls, mapping, tries, queued, todo, published, trouble>>

NoSession ==
  /\ pc \in {"session", "online"}
  /\ pc' = "ended" /\ trouble' = TRUE
  /\ NotTheAdaptor
  /\ UNCHANGED <<inbox, users, polls, mapping, tries, queued, todo, published>>

\* The UI does not answer in time, or wrongly, while the roles are sought: the
\* adaptor goes on without a mapping.
NoRoles ==
  /\ \/ pc = "join" /\ session.shared
     \/ pc \in {"waiting", "roles", "role_question"}
  /\ pc' = "ready"
  /\ trouble' = TRUE
  /\ NotTheAdaptor
  /\ UNCHANGED <<inbox, users, polls, mapping, tries, queued, todo, published>>

\* wait_for_all_users_to_join_session
JoinSession ==
  /\ IF session.shared
     THEN At("join", "waiting") /\ users' = online
     ELSE At("join", "roles") /\ UNCHANGED users
  /\ NotTheAdaptor
  /\ UNCHANGED <<inbox, polls, mapping, tries, queued, todo, published, trouble>>

\* A mutant: the retries are not counted.
PollUsersForEver ==
  /\ pc = "waiting" /\ Len(users) < 2
  /\ users' = online
  /\ NotTheAdaptor
  /\ UNCHANGED <<pc, polls, inbox, mapping, tries, queued, todo, published, trouble>>

\* The list of users is asked for again each second.
PollUsers ==
  /\ pc = "waiting" /\ Len(users) < 2 /\ polls <= MaxPolls
  /\ polls' = polls + 1
  /\ users' = online
  /\ NotTheAdaptor
  /\ UNCHANGED <<pc, inbox, mapping, tries, queued, todo, published, trouble>>

\* The second user came, or the time is over; a user who comes at the last poll
\* is too late.
StopWaiting ==
  /\ pc = "waiting" /\ (Len(users) >= 2 \/ polls > MaxPolls)
  /\ IF polls > MaxPolls
     THEN pc' = "ended" /\ trouble' = TRUE
     ELSE pc' = "roles" /\ UNCHANGED trouble
  /\ NotTheAdaptor
  /\ UNCHANGED <<inbox, users, polls, mapping, tries, queued, todo, published>>

\* A mutant: the role that was declared is not taken out of the list.
LastRole(r) == Role2

OtherRole(r) == IF r = Role1 THEN Role2 ELSE Role1

\* r is held by x, the other role by y.
RolesHeld(r, x, y) == [s \in {r, OtherRole(r)} |-> IF s = r THEN x ELSE y]

\* get_user_ids_and_roles_from_ui: a single user whose partner is a resource
\* named after a role is not asked; without users the first one is missed.
GetUsersForRoles ==
  /\ pc = "roles"
  /\ users' = online
  /\ CASE online = <<>> -> pc' = "ended" /\ trouble' = TRUE /\ UNCHANGED mapping
       [] Len(online) = 1 /\ session.resource \in Roles ->
            /\ pc' = "ready"
            /\ mapping' = RolesHeld(session.resource, Resource, online[1])
            /\ UNCHANGED trouble
       [] OTHER -> pc' = "role_question" /\ UNCHANGED <<mapping, trouble>>
  /\ NotTheAdaptor
  /\ UNCHANGED <<inbox, polls, tries, queued, todo, published>>

\* The first user answers which role he runs; the other goes to the second user
\* of the list as it was before the question.
RoleAnswered(r) ==
  /\ At("role_question", "ready")
  /\ mapping' = RolesHeld(r, users[1], IF Len(users) > 1 THEN users[2] ELSE AutomatedIut)
  /\ NotTheAdaptor
  /\ UNCHANGED <<inbox, users, polls, tries, queued, todo, published, trouble>>

\* He answers "all", as offered: the code looks for "both", and fails to remove
\* "all" from the roles.
AllRolesAnswered ==
  /\ At("role_question", "ended")
  /\ trouble' = TRUE
  /\ NotTheAdaptor
  /\ UNCHANGED <<inbox, users, polls, mapping, tries, queued, todo, published>>

-----------------------------------------------------------------------------
(* The UI adaptor: the testing tool's configuration and the bootstrap *)

\* wait_for_testing_tool_ready
RequestTestCases ==
  /\ At("ready", "requested")
  /\ queued' = (co \in {"services", "events", "up"})
  /\ NotTheAdaptor
  /\ UNCHANGED <<inbox, users, polls, mapping, tries, todo, published, trouble>>

\* A mutant: the services are answered before the events queue is declared.
TestCasesReceivedEarly ==
  /\ At("requested", "configure")
  /\ queued
  /\ NotTheAdaptor
  /\ UNCHANGED <<inbox, users, polls, mapping, tries, queued, todo, published, trouble>>

TestCasesReceived ==
  /\ At("requested", "configure")
  /\ queued /\ co = "up"
  /\ NotTheAdaptor
  /\ UNCHANGED <<inbox, users, polls, mapping, tries, queued, todo, published, trouble>>

\* A request is not answered in time; after the last try the testing tool is
\* given a configuration without content.
TestCasesTimeout ==
  /\ pc = "requested"
  /\ tries' = tries + 1
  /\ IF tries + 1 < ReadyTries
     THEN pc' = "ready" /\ UNCHANGED <<inbox, published, trouble>>
     ELSE /\ pc' = "bootstrap"
          /\ published' = "default"
          /\ inbox' = Received("configuration")
          /\ trouble' = TRUE
  /\ NotTheAdaptor
  /\ UNCHANGED <<users, polls, mapping, queued, todo>>

\* configure_testing_tool, or the default if the UI fails to answer.
ConfigureTestingTool ==
  /\ At("configure", "bootstrap")
  /\ \/ published' = "session" /\ UNCHANGED trouble
     \/ published' = "default" /\ trouble' = TRUE
  /\ inbox' = Received("configuration")
  /\ NotTheAdaptor
  /\ UNCHANGED <<users, polls, mapping, tries, queued, todo>>

Confirm(n) == [k \in 1..n |-> "confirm"]

\* The bootstraps of the translators: what they ask to be confirmed, and where
\* the suite is started.  CoAP, and the suites derived from it, ask each of n
\* users in turn.
CoapBootstrap(n) == Confirm(4 * n) \o <<"start">> \o Confirm(n)

SixLoWPANBootstrap == Confirm(2) \o <<"start">>

WoTBootstrap == Confirm(6)

\* The examples of the dummy suite; all but the first ask for something.
Snippets == <<"display_markdown", "request_button", "request_radio",
              "request_checkbox", "request_select", "request_file">>

DummyBootstrap ==
  Confirm(Cardinality({k \in DOMAIN Snippets : Snippets[k] # "display_markdown"}))

Bootstrap(suite, n) ==
  CASE suite = "coap"    -> CoapBootstrap(n)
    [] suite = "6lowpan" -> SixLoWPANBootstrap
    [] suite = "wot"     -> WoTBootstrap
    [] suite = "dummy"   -> DummyBootstrap

AtMostTwo(n) == IF n > 2 THEN 2 ELSE n

BeginBootstrap ==
  /\ At("bootstrap", "confirming")
  /\ todo' = Bootstrap(session.suite, AtMostTwo(Len(online)))
  /\ NotTheAdaptor
  /\ UNCHANGED <<inbox, users, polls, mapping, tries, queued, published, trouble>>

\* CoAP asks for the users first, with nobody to catch a failure.
BootstrapFails ==
  /\ session.suite = "coap"
  /\ At("bootstrap", "ended")
  /\ trouble' = TRUE
  /\ NotTheAdaptor
  /\ UNCHANGED <<inbox, users, polls, mapping, tries, queued, todo, published>>

\* A mutant: a confirmation that does not come in time ends the adaptor.
NextConfirmationOrEnd ==
  /\ pc = "confirming" /\ todo # <<>> /\ Head(todo) = "confirm"
  /\ pc' \in {"confirming", "ended"}
  /\ todo' = Tail(todo)
  /\ NotTheAdaptor
  /\ UNCHANGED <<inbox, users, polls, mapping, tries, queued, published, trouble>>

\* The user confirms, or does not in time: the bootstrap goes on all the same.
NextConfirmation ==
  /\ pc = "confirming" /\ todo # <<>> /\ Head(todo) = "confirm"
  /\ todo' = Tail(todo)
  /\ NotTheAdaptor
  /\ UNCHANGED <<pc, inbox, users, polls, mapping, tries, queued, published, trouble>>

\* send_start_test_suite_event
SendStart ==
  /\ pc = "confirming" /\ todo # <<>> /\ Head(todo) = "start"
  /\ todo' = Tail(todo)
  /\ inbox' = Received("suite_start")
  /\ NotTheAdaptor
  /\ UNCHANGED <<pc, users, polls, mapping, tries, queued, published, trouble>>

EnterExecution ==
  /\ todo = <<>>
  /\ At("confirming", "running")
  /\ NotTheAdaptor
  /\ UNCHANGED <<inbox, users, polls, mapping, tries, queued, todo, published, trouble>>

GoOn ==
  \/ GetSession \/ JoinSession \/ PollUsers \/ StopWaiting
  \/ GetUsersForRoles \/ (\E r \in Roles : RoleAnswered(r)) \/ AllRolesAnswered
  \/ RequestTestCases \/ TestCasesReceived \/ TestCasesTimeout
  \/ ConfigureTestingTool
  \/ BeginBootstrap \/ NextConfirmation \/ SendStart \/ EnterExecution

NoAnswer == NoSession \/ NoRoles \/ BootstrapFails

CoordinatorStep ==
  StartChecking \/ ReadySignalTimeout \/ DeclareQueues \/ RunCoordinator \/ HandleEvent

Next ==
  \/ \E u \in Users : UserJoins(u) \/ UserLeaves(u)
  \/ \E c \in Components : ComponentReady(c)
  \/ CoordinatorStep
  \/ GoOn
  \/ NoAnswer

Spec == Init /\ [][Next]_vars

\* The processes run: each request of the adaptor is answered, or it times out
\* and one of NoAnswer is taken in place of the step that is due.
FairSpec == /\ Spec
            /\ WF_vars(CoordinatorStep)
            /\ WF_vars(GoOn)
            /\ \A c \in Components : WF_vars(ComponentReady(c))

-----------------------------------------------------------------------------
(* Properties *)

\* Once the roles are known each has a holder, another one than the other's,
\* and the users who were asked are among the holders, however they come and go
\* meanwhile (get_user_ids_and_roles_from_ui).
EveryRoleHeld ==
  mapping # <<>> =>
    /\ DOMAIN mapping = Roles
    /\ mapping[Role1] # mapping[Role2]
    /\ \E r \in Roles : mapping[r] = users[1]
    /\ Len(users) > 1 => \E r \in Roles : mapping[r] = users[2]

\* The configuration of the session itself is never published to nobody, nor
\* overtaken by the start of the suite: the reply to the readiness request
\* proves that the events queue is there (wait_for_testing_tool_ready,
\* amqp_create_queues_bind_and_susbcribe).
ConfigurationHeard ==
  published = "session" =>
    \/ fsm \in {"start", "running"}
    \/ fsm = "config" /\ inbox # <<>> /\ Head(inbox) = "configuration"

\* Whatever the users do and do not do, the set-up comes to an end.
SetupEnds == <>(pc \in {"running", "ended"})

\* If no signal is missed and the UI answers, the suite is started, even if no
\* user ever confirms anything.
PromptSetupStarts ==
  session.suite \in {"coap", "6lowpan"} /\ []~trouble => <>(fsm = "running")

-----------------------------------------------------------------------------
(* What a comment of the code says of it, and the code does not do *)

\* "add also a 'ALL' roles option" (ui_tasks.py:316): the adaptor survives each
\* answer that it offers.
EveryAnswerAccepted == [][pc = "role_question" => pc' # "ended"]_vars
=============================================================================
