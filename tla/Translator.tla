----------------------------- MODULE Translator ----------------------------
(***************************************************************************)
(* The UI message translator (ioppytest/ui_adaptor/message_translators.py, *)
(* GenericBidirectonalTranslator and CoAPSessionMessageTranslator): what   *)
(* it remembers of the session, what it makes of a message for the users'  *)
(* screens, which messages call for a user, and what a reply says to the   *)
(* testing tool.  Texts, tables and colours are left out.                  *)
(*                                                                         *)
(* A message is a record: its kind, the test case and the node it names,   *)
(* and the test case of the capture it carries.                            *)
(***************************************************************************)
EXTENDS Naturals

CONSTANTS
  RoleHolder,  \* iut_role_to_user_id_mapping: node -> user
  coap_client  \* the node that every report of a stimulus names

NoTC   == 0
NoNode == "none"
Everyone == "all"

\* tt_to_ui_message_translation
Asking == {"TestCaseReady", "StepStimuliExecute", "StepVerifyExecute", "TestCaseVerdict"}

\* MESSAGES_NOT_TO_BE_ECHOED
DoNotEcho == {"SniffingGetCaptureReply", "SniffingGetCapture", "TestSuiteStart",
              "TestCaseStarted", "SessionLog", "TestingToolComponentReady",
              "UiRequestSessionConfiguration", "UiSessionConfigurationReply",
              "AgentTunStart", "TestingToolConfigured", "TestSuiteGetTestCases"}

\* Packets of the testing tool's own agent have no display.
Echoed(m) == m.kind \notin DoNotEcho \cup {"AgentTTPacket"}

-----------------------------------------------------------------------------
(* update_state *)

Nothing == [tc |-> NoTC, captures |-> {}]

\* A mutant: only what is echoed is remembered.
RememberEchoed(memory, i, m) ==
  IF Echoed(m)
  THEN [tc |-> IF m.tc # NoTC THEN m.tc ELSE memory.tc, captures |-> memory.captures]
  ELSE memory

\* The translator hears m as the i-th message.
Remember(memory, i, m) ==
  [tc       |-> IF m.tc # NoTC THEN m.tc ELSE memory.tc,
   captures |-> IF m.kind = "SniffingGetCaptureReply"
                THEN memory.captures \cup {[id |-> i, of |-> m.capture]}
                ELSE memory.captures]

-----------------------------------------------------------------------------
(* The displays: under which tag a message is filed *)

Tag(name, t) == [name |-> name, tc |-> t]
NoTag == Tag("none", NoTC)

\* tag_message, for what its handler did not tag
DefaultTag(memory) ==
  IF memory.tc = NoTC THEN Tag("logs", NoTC) ELSE Tag("testcase", memory.tc)

\* _get_ui_message_highlighted_description
Highlighted == {"TestingToolReady", "TestCaseFinished", "TestCaseStart", "TestSuiteStarted",
                "StepStimuliExecuted", "StepVerifyExecuted", "ConfigurationExecuted",
                "TestingToolTerminate"}

\* _get_ui_testing_tool_configured, _get_ui_testcases_list,
\* _get_ui_session_configuration
Overviews == {"TestSuiteGetTestCasesReply", "SessionConfiguration",
              "TestingToolConfigured"}

\* _get_ui_packet_raw, _get_ui_packet_dissected
Packets == {"PacketSniffedRaw", "PacketInjectRaw", "DissectionAutoDissect"}

\* What the handlers themselves tag.
OwnTag(memory, m) ==
  CASE m.kind \in Highlighted \cup Overviews -> Tag("testsuite", NoTC)
    [] m.kind \in Packets          -> Tag("packets", memory.tc)
    [] m.kind = "TestCaseReady"    -> Tag("testcase", m.tc)
    [] m.kind = "TestSuiteReport"  -> Tag("testsuite_report", NoTC)
    [] m.kind = "AgentTunStarted"  -> Tag("session_setup", NoTC)
    [] OTHER -> NoTag

DisplayTag(memory, m) ==
  IF OwnTag(memory, m) = NoTag THEN DefaultTag(memory) ELSE OwnTag(memory, m)

\* _generate_ui_fields_for_pcap_download: the captures a verdict comes with.  The
\* code looks for the id in the name of the file; no id of a test description
\* contains another one, so that only captures of this test case have it there.
Files(memory, m) ==
  IF m.kind = "TestCaseVerdict"
  THEN {c.id : c \in {d \in memory.captures : d.of = m.tc}}
  ELSE {}

\* _update_ui_message_rkeys
Addressee(m) == IF m.node \in DOMAIN RoleHolder THEN RoleHolder[m.node] ELSE Everyone

\* The users who are told that a request waits for u.
Others(u) ==
  LET users == {RoleHolder[n] : n \in DOMAIN RoleHolder} \ {u} IN
  IF u = Everyone THEN {} ELSE IF users = {} THEN {Everyone} ELSE users

-----------------------------------------------------------------------------
(* The replies *)

Says(kind, t, n) == [kind |-> kind, tc |-> t, node |-> n, capture |-> NoTC]

\* The messages chained to the fields of the request made from m.
Chained(memory, m) ==
  CASE m.kind = "TestCaseReady"      -> {Says("TestCaseStart", memory.tc, NoNode),
                                         Says("TestCaseSkip", m.tc, NoNode)}
    [] m.kind = "StepStimuliExecute" -> {Says("StepStimuliExecuted", NoTC, coap_client)}
    [] m.kind = "StepVerifyExecute"  -> {Says("StepVerifyExecuted", NoTC, NoNode)}
    [] m.kind = "TestCaseVerdict"    -> {Says("TestCaseSelect", m.tc, NoNode)}
=============================================================================
