----------------------------- MODULE SetupProofs ----------------------------
(***************************************************************************)
(* Theorems about SessionSetup, for all users, roles, components and       *)
(* bounds: whoever comes and goes, the roles have different holders and    *)
(* the session's configuration reaches the coordinator before the start of *)
(* the suite.                                                              *)
(***************************************************************************)
EXTENDS SessionSetup, TLAPS

Distinct(q) == \A i, j \in DOMAIN q : i # j => q[i] # q[j]

\* A list of users as the UI returns it: each of them once.
UserLists == {q \in Seq(Users) : Distinct(q)}

\* Where the adaptor is while no role is given, and while nothing is published.
NoRolesYet == {"session", "online", "join", "waiting", "roles", "role_question"}
NothingYet == NoRolesYet \cup {"ready", "requested", "configure"}

ListsOK ==
  /\ session \in Sessions
  /\ online \in UserLists
  /\ users \in UserLists

\* The roles are given once, after which the list of users is not read again.
RolesOK ==
  /\ pc \in NoRolesYet => mapping = <<>>
  /\ pc = "role_question" => users # <<>>
  /\ EveryRoleHeld

\* Nothing is in the coordinator's queue before the adaptor publishes, and when
\* it knows that the services are answered the queue is there.
QueueOK ==
  /\ inbox \in Seq({"configuration", "suite_start"})
  /\ pc \in NothingYet => inbox = <<>> /\ fsm = "config" /\ published = "none"
  /\ pc = "configure" => co = "up"
  /\ ConfigurationHeard

Inv == ListsOK /\ RolesOK /\ QueueOK

-----------------------------------------------------------------------------
(* Lists of users *)

LEMMA EmptyList == <<>> \in UserLists
BY DEF UserLists, Distinct

LEMMA JoinedList ==
  ASSUME NEW q \in UserLists, NEW u \in Users, ~Contains(q, u)
  PROVE  Append(q, u) \in UserLists
<1>1. q \in Seq(Users) /\ Append(q, u) \in Seq(Users)
  BY DEF UserLists
<1>2. Len(Append(q, u)) = Len(q) + 1 /\ Len(q) \in Nat
  BY <1>1
<1>3. \A k \in 1..Len(q) : Append(q, u)[k] = q[k] /\ q[k] # u
  BY <1>1 DEF Contains
<1>4. Append(q, u)[Len(q) + 1] = u
  BY <1>1
<1>5. ASSUME NEW i \in DOMAIN Append(q, u), NEW j \in DOMAIN Append(q, u), i # j
      PROVE  Append(q, u)[i] # Append(q, u)[j]
  <2>1. i \in 1..(Len(q) + 1) /\ j \in 1..(Len(q) + 1)
    BY <1>1, <1>2
  <2>2. CASE i = Len(q) + 1
    BY <1>2, <1>3, <1>4, <1>5, <2>1, <2>2
  <2>3. CASE j = Len(q) + 1
    BY <1>2, <1>3, <1>4, <1>5, <2>1, <2>3
  <2>4. CASE i \in 1..Len(q) /\ j \in 1..Len(q)
    <3>1. q[i] # q[j]
      BY <1>1, <1>5, <2>4 DEF UserLists, Distinct
    <3> QED
      BY <1>3, <2>4, <3>1
  <2> QED
    BY <1>2, <2>1, <2>2, <2>3, <2>4
<1> QED
  BY <1>1, <1>5 DEF UserLists, Distinct

LEMMA LeftList ==
  ASSUME NEW q \in UserLists, NEW k \in DOMAIN q
  PROVE  RemoveAt(q, k) \in UserLists
<1> DEFINE a == SubSeq(q, 1, k - 1)
           b == SubSeq(q, k + 1, Len(q))
           r == a \o b
           From(i) == IF i < k THEN i ELSE i + 1
<1>1. q \in Seq(Users) /\ Len(q) \in Nat /\ k \in 1..Len(q)
  BY DEF UserLists
<1>2. /\ a \in Seq(Users) /\ Len(a) = k - 1
      /\ \A i \in 1..(k - 1) : a[i] = q[i]
  BY <1>1
<1>3. /\ b \in Seq(Users) /\ Len(b) = Len(q) - k
      /\ \A i \in 1..(Len(q) - k) : b[i] = q[k + i]
  BY <1>1
<1> HIDE DEF a, b
<1>4. r \in Seq(Users) /\ Len(r) = Len(q) - 1
  BY <1>1, <1>2, <1>3
<1>5. ASSUME NEW i \in 1..(Len(q) - 1)
      PROVE  From(i) \in 1..Len(q) /\ r[i] = q[From(i)]
  <2>1. CASE i < k
    <3>1. r[i] = a[i]
      BY <1>1, <1>2, <1>3, <2>1
    <3> QED
      BY <1>1, <1>2, <2>1, <3>1
  <2>2. CASE ~(i < k)
    <3>1. r[i] = b[i - (k - 1)]
      BY <1>1, <1>2, <1>3, <2>2
    <3>2. i - (k - 1) \in 1..(Len(q) - k) /\ k + (i - (k - 1)) = i + 1
      BY <1>1, <2>2
    <3>3. b[i - (k - 1)] = q[i + 1]
      BY <1>3, <3>2
    <3> QED
      BY <1>1, <2>2, <3>1, <3>3
  <2> QED
    BY <2>1, <2>2
<1>6. ASSUME NEW i \in DOMAIN r, NEW j \in DOMAIN r, i # j
      PROVE  r[i] # r[j]
  <2>1. i \in 1..(Len(q) - 1) /\ j \in 1..(Len(q) - 1)
    BY <1>4
  <2>2. From(i) # From(j)
    BY <1>1, <1>6, <2>1
  <2>3. From(i) \in DOMAIN q /\ From(j) \in DOMAIN q
    BY <1>1, <1>5, <2>1
  <2>4. q[From(i)] # q[From(j)]
    BY <2>2, <2>3 DEF UserLists, Distinct
  <2> QED
    BY <1>5, <2>1, <2>4
<1>7. RemoveAt(q, k) = r
  BY DEF RemoveAt, a, b
<1> HIDE DEF r
<1> QED
  BY <1>4, <1>6, <1>7 DEF UserLists, Distinct

-----------------------------------------------------------------------------
(* Roles *)

LEMMA BothHeld ==
  ASSUME NEW r \in Roles, NEW x, NEW y, x # y
  PROVE  /\ DOMAIN RolesHeld(r, x, y) = Roles
         /\ RolesHeld(r, x, y)[Role1] # RolesHeld(r, x, y)[Role2]
         /\ RolesHeld(r, x, y)[r] = x
         /\ \E s \in Roles : RolesHeld(r, x, y)[s] = y
<1>1. /\ {r, OtherRole(r)} = Roles /\ OtherRole(r) # r /\ Role1 # Role2
      /\ (r = Role1 /\ OtherRole(r) = Role2) \/ (r = Role2 /\ OtherRole(r) = Role1)
  BY SetupAssumption DEF Roles, OtherRole
<1> HIDE DEF OtherRole
<1>2. RolesHeld(r, x, y)[r] = x /\ RolesHeld(r, x, y)[OtherRole(r)] = y
  BY <1>1 DEF RolesHeld
<1>3. DOMAIN RolesHeld(r, x, y) = Roles
  BY <1>1 DEF RolesHeld
<1> QED
  BY <1>1, <1>2, <1>3 DEF Roles

-----------------------------------------------------------------------------
(* The steps *)

\* Everything but joins and leaves lets the users on line alone; the adaptor
\* takes over their list as it is.
LEMMA ListsStep ==
  ASSUME ListsOK, [Next]_vars
  PROVE  ListsOK'
<1>1. CASE \E u \in Users : UserJoins(u)
  <2>1. PICK u \in Users : UserJoins(u)
    BY <1>1
  <2>2. online' \in UserLists
    BY <2>1, JoinedList DEF UserJoins, ListsOK
  <2> QED
    BY <2>1, <2>2 DEF UserJoins, ListsOK, adaptorVars
<1>2. CASE \E u \in Users : UserLeaves(u)
  <2>1. PICK u \in Users : UserLeaves(u)
    BY <1>2
  <2>2. online' \in UserLists
    BY <2>1, LeftList DEF UserLeaves, ListsOK
  <2> QED
    BY <2>1, <2>2 DEF UserLeaves, ListsOK, adaptorVars
<1>3. ASSUME session' = session, online' = online, users' \in {users, online}
      PROVE  ListsOK'
  BY <1>3 DEF ListsOK
<1>4. CASE CoordinatorStep \/ \E c \in Components : ComponentReady(c)
  BY <1>3, <1>4 DEF CoordinatorStep, ComponentReady, StartChecking, ReadySignalTimeout,
    DeclareQueues, RunCoordinator, HandleEvent, adaptorVars
<1>5. CASE GoOn
  BY <1>3, <1>5 DEF GoOn, GetSession, JoinSession, PollUsers, StopWaiting,
    GetUsersForRoles, RoleAnswered, AllRolesAnswered, RequestTestCases,
    TestCasesReceived, TestCasesTimeout, ConfigureTestingTool, BeginBootstrap,
    NextConfirmation, SendStart, EnterExecution, NotTheAdaptor
<1>6. CASE NoAnswer
  BY <1>3, <1>6 DEF NoAnswer, NoSession, NoRoles, BootstrapFails, NotTheAdaptor
<1>7. CASE UNCHANGED vars
  BY <1>3, <1>7 DEF vars, adaptorVars
<1> QED
  BY <1>1, <1>2, <1>4, <1>5, <1>6, <1>7 DEF Next

\* The question about the roles is asked of users who are still the ones that
\* get them when it is answered.
LEMMA RolesStep ==
  ASSUME ListsOK, RolesOK, [Next]_vars
  PROVE  RolesOK'
<1> USE DEF At
<1>1. ASSUME UNCHANGED <<pc, users, mapping>> PROVE RolesOK'
  BY <1>1 DEF RolesOK, EveryRoleHeld
<1>2. ASSUME mapping' = <<>>, pc' = "role_question" => users' # <<>> PROVE RolesOK'
  BY <1>2 DEF RolesOK, EveryRoleHeld
<1>3. ASSUME UNCHANGED <<users, mapping>>, pc' \notin NoRolesYet PROVE RolesOK'
  BY <1>3 DEF RolesOK, EveryRoleHeld, NoRolesYet
<1>4. CASE (\E u \in Users : UserJoins(u) \/ UserLeaves(u)) \/ CoordinatorStep
             \/ \E c \in Components : ComponentReady(c)
  BY <1>1, <1>4 DEF UserJoins, UserLeaves, CoordinatorStep, ComponentReady, StartChecking,
    ReadySignalTimeout, DeclareQueues, RunCoordinator, HandleEvent, adaptorVars
<1>5. CASE GetSession \/ JoinSession \/ PollUsers \/ StopWaiting
  <2>1. mapping = <<>> /\ mapping' = mapping
    BY <1>5 DEF GetSession, JoinSession, PollUsers, StopWaiting, RolesOK, NoRolesYet
  <2>2. pc' # "role_question"
    BY <1>5 DEF GetSession, JoinSession, PollUsers, StopWaiting
  <2> QED
    BY <1>2, <2>1, <2>2
<1>6. CASE GetUsersForRoles
  <2>0. online \in Seq(Users) /\ users' = online /\ mapping = <<>> /\ pc = "roles"
    BY <1>6 DEF GetUsersForRoles, ListsOK, RolesOK, UserLists, NoRolesYet
  <2>1. CASE online = <<>>
    BY <1>2, <1>6, <2>0, <2>1 DEF GetUsersForRoles
  <2>2. CASE Len(online) = 1 /\ session.resource \in Roles /\ online # <<>>
    <3>1. pc' = "ready" /\ mapping' = RolesHeld(session.resource, Resource, online[1])
      BY <1>6, <2>2 DEF GetUsersForRoles
    <3>2. online[1] # Resource
      BY <2>0, <2>2, SetupAssumption
    <3>3. /\ DOMAIN mapping' = Roles /\ mapping'[Role1] # mapping'[Role2]
          /\ \E r \in Roles : mapping'[r] = online[1]
      BY <2>2, <3>1, <3>2, BothHeld
    <3> QED
      BY <2>0, <2>2, <3>1, <3>3 DEF RolesOK, EveryRoleHeld, NoRolesYet
  <2>3. CASE online # <<>> /\ ~(Len(online) = 1 /\ session.resource \in Roles)
    BY <1>2, <1>6, <2>0, <2>3 DEF GetUsersForRoles
  <2> QED
    BY <2>1, <2>2, <2>3
<1>7. CASE \E r \in Roles : RoleAnswered(r)
  <2> DEFINE y == IF Len(users) > 1 THEN users[2] ELSE AutomatedIut
  <2>1. PICK r \in Roles : RoleAnswered(r)
    BY <1>7
  <2>2. /\ pc' = "ready" /\ users' = users /\ mapping' = RolesHeld(r, users[1], y)
        /\ users # <<>>
    BY <2>1 DEF RoleAnswered, RolesOK
  <2>3. users \in Seq(Users) /\ Distinct(users)
    BY DEF ListsOK, UserLists
  <2>4. users[1] # y
    <3>1. users[1] \in Users /\ 1 \in DOMAIN users
      BY <2>2, <2>3
    <3>2. CASE Len(users) > 1
      BY <2>3, <3>1, <3>2 DEF Distinct
    <3>3. CASE ~(Len(users) > 1)
      BY <3>1, <3>3, SetupAssumption
    <3> QED
      BY <3>2, <3>3
  <2>5. /\ DOMAIN mapping' = Roles /\ mapping'[Role1] # mapping'[Role2]
        /\ mapping'[r] = users[1] /\ \E s \in Roles : mapping'[s] = y
    <3> HIDE DEF y
    <3> QED
      BY <2>2, <2>4, BothHeld
  <2> QED
    BY <2>2, <2>5 DEF RolesOK, EveryRoleHeld, NoRolesYet
<1>8. CASE \/ AllRolesAnswered \/ RequestTestCases \/ TestCasesReceived \/ TestCasesTimeout
           \/ ConfigureTestingTool \/ BeginBootstrap \/ NextConfirmation \/ SendStart
           \/ EnterExecution \/ NoAnswer
  BY <1>3, <1>8 DEF AllRolesAnswered, RequestTestCases, TestCasesReceived,
    TestCasesTimeout, ConfigureTestingTool, BeginBootstrap, NextConfirmation, SendStart,
    EnterExecution, NoAnswer, NoSession, NoRoles, BootstrapFails, NoRolesYet
<1>9. CASE UNCHANGED vars
  BY <1>1, <1>9 DEF vars, adaptorVars
<1> QED
  BY <1>4, <1>5, <1>6, <1>7, <1>8, <1>9 DEF Next, GoOn

\* While nothing is published the coordinator's queue is empty; the adaptor
\* publishes the session's configuration only to a coordinator that is up, which
\* takes it before what comes later.
LEMMA QueueStep ==
  ASSUME QueueOK, [Next]_vars
  PROVE  QueueOK'
<1> USE DEF At
<1>1. ASSUME UNCHANGED <<pc, inbox, fsm, published, co>> PROVE QueueOK'
  BY <1>1 DEF QueueOK, ConfigurationHeard
<1>2. ASSUME UNCHANGED <<inbox, fsm, published, co>>, pc' # "configure",
             pc' \in NothingYet => pc \in NothingYet
      PROVE  QueueOK'
  BY <1>2 DEF QueueOK, ConfigurationHeard
<1>3. CASE (\E u \in Users : UserJoins(u) \/ UserLeaves(u))
             \/ \E c \in Components : ComponentReady(c)
  BY <1>1, <1>3 DEF UserJoins, UserLeaves, ComponentReady, adaptorVars, coordinatorVars
<1>4. CASE StartChecking \/ ReadySignalTimeout \/ DeclareQueues \/ RunCoordinator
  <2>1. UNCHANGED <<pc, inbox, fsm, published>> /\ (co = "up" => co' = "up")
    BY <1>4 DEF StartChecking, ReadySignalTimeout, DeclareQueues, RunCoordinator, adaptorVars
  <2> QED
    BY <2>1 DEF QueueOK, ConfigurationHeard
<1>5. CASE HandleEvent
  <2>1. /\ inbox # <<>> /\ inbox' = Tail(inbox) /\ UNCHANGED <<pc, published, co>>
        /\ pc \notin NothingYet
    BY <1>5 DEF HandleEvent, QueueOK, adaptorVars
  <2>2. inbox' \in Seq({"configuration", "suite_start"})
    BY <2>1 DEF QueueOK
  <2>3. ConfigurationHeard'
    <3>1. CASE published = "session" /\ fsm \in {"start", "running"}
      BY <1>5, <2>1, <3>1 DEF HandleEvent, ConfigurationHeard
    <3>2. CASE published = "session" /\ fsm = "config" /\ Head(inbox) = "configuration"
      BY <1>5, <2>1, <3>2 DEF HandleEvent, ConfigurationHeard
    <3> QED
      BY <2>1, <3>1, <3>2 DEF QueueOK, ConfigurationHeard
  <2> QED
    BY <2>1, <2>2, <2>3 DEF QueueOK, NothingYet, NoRolesYet
<1>6. CASE \/ GetSession \/ JoinSession \/ PollUsers \/ StopWaiting \/ GetUsersForRoles
           \/ (\E r \in Roles : RoleAnswered(r)) \/ AllRolesAnswered
           \/ RequestTestCases \/ NoAnswer
  BY <1>2, <1>6 DEF GetSession, JoinSession, PollUsers, StopWaiting, GetUsersForRoles,
    RoleAnswered, AllRolesAnswered, RequestTestCases, NoAnswer, NoSession, NoRoles,
    BootstrapFails, NotTheAdaptor, NothingYet, NoRolesYet
<1>7. CASE TestCasesReceived
  BY <1>7 DEF TestCasesReceived, NotTheAdaptor, QueueOK, ConfigurationHeard, NothingYet,
    NoRolesYet
<1>8. CASE TestCasesTimeout
  <2>1. CASE tries + 1 < ReadyTries
    BY <1>2, <1>8, <2>1 DEF TestCasesTimeout, NotTheAdaptor, NothingYet, NoRolesYet
  <2>2. CASE ~(tries + 1 < ReadyTries)
    <3>1. pc' = "bootstrap" /\ published' = "default" /\ inbox' = Received("configuration")
      BY <1>8, <2>2 DEF TestCasesTimeout
    <3> QED
      BY <3>1 DEF QueueOK, ConfigurationHeard, Received, NothingYet, NoRolesYet
  <2> QED
    BY <2>1, <2>2
<1>9. CASE ConfigureTestingTool
  <2>1. inbox = <<>> /\ fsm = "config" /\ co = "up"
    BY <1>9 DEF ConfigureTestingTool, QueueOK, NothingYet
  <2>2. inbox' = <<"configuration">> /\ fsm' = "config" /\ pc' = "bootstrap"
    BY <1>9, <2>1 DEF ConfigureTestingTool, NotTheAdaptor, Received
  <2> QED
    BY <2>2 DEF QueueOK, ConfigurationHeard, NothingYet, NoRolesYet
<1>10. CASE SendStart
  <2>1. /\ pc = "confirming" /\ UNCHANGED <<pc, fsm, published>>
        /\ inbox' = inbox \/ inbox' = Append(inbox, "suite_start")
    BY <1>10 DEF SendStart, NotTheAdaptor, Received
  <2>2. inbox' \in Seq({"configuration", "suite_start"})
    BY <2>1 DEF QueueOK
  <2>3. inbox # <<>> => inbox' # <<>> /\ Head(inbox') = Head(inbox)
    BY <2>1 DEF QueueOK
  <2> QED
    BY <2>1, <2>2, <2>3 DEF QueueOK, ConfigurationHeard, NothingYet, NoRolesYet
<1>11. CASE BeginBootstrap \/ NextConfirmation \/ EnterExecution
  BY <1>2, <1>11 DEF BeginBootstrap, NextConfirmation, EnterExecution, NotTheAdaptor,
    NothingYet, NoRolesYet
<1>12. CASE UNCHANGED vars
  BY <1>1, <1>12 DEF vars, adaptorVars, coordinatorVars
<1> QED
  BY <1>3, <1>4, <1>5, <1>6, <1>7, <1>8, <1>9, <1>10, <1>11, <1>12
    DEF Next, GoOn, CoordinatorStep

-----------------------------------------------------------------------------
(* The theorems *)

LEMMA InitInv == Init => Inv
<1> SUFFICES ASSUME Init PROVE Inv
  OBVIOUS
<1>1. ListsOK
  <2>1. PICK u \in Users : online = <<u>>
    BY DEF Init
  <2>2. <<u>> \in UserLists
    BY DEF UserLists, Distinct
  <2> QED
    BY <2>1, <2>2, EmptyList DEF Init, ListsOK
<1>2. RolesOK
  BY DEF Init, RolesOK, EveryRoleHeld
<1>3. QueueOK
  BY DEF Init, QueueOK, ConfigurationHeard
<1> QED
  BY <1>1, <1>2, <1>3 DEF Inv

LEMMA InvHolds == Spec => []Inv
<1>1. Inv /\ [Next]_vars => Inv'
  BY ListsStep, RolesStep, QueueStep DEF Inv
<1> QED
  BY InitInv, <1>1, PTL DEF Spec

\* Once the roles are given, each has a holder of its own and the users who were
\* asked are among them, for any number of users who join and leave while the
\* adaptor waits for its answers (get_user_ids_and_roles_from_ui).
THEOREM RolesAreHeld == Spec => []EveryRoleHeld
<1>1. Inv => EveryRoleHeld
  BY DEF Inv, RolesOK
<1> QED
  BY InvHolds, <1>1, PTL

\* The session's own configuration is taken by the coordinator before anything
\* else, for any components and any number of readiness requests
\* (wait_for_testing_tool_ready, configure_testing_tool).
THEOREM ConfigurationIsHeard == Spec => []ConfigurationHeard
<1>1. Inv => ConfigurationHeard
  BY DEF Inv, QueueOK
<1> QED
  BY InvHolds, <1>1, PTL
=============================================================================
