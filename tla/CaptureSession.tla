--------------------------- MODULE CaptureSession --------------------------
(***************************************************************************)
(* The coordinator and the sniffer together: which packets the analysis of *)
(* a test case is made from.                                               *)
(*                                                                         *)
(* The coordinator waits for the reply to each of its calls, so the calls  *)
(* of an event are served within it.  A call that times out is served all  *)
(* the same, before the next one, and its reply ignored: like any other    *)
(* for SniffingStart and SniffingStop, no capture for SniffingGetCapture.  *)
(***************************************************************************)
EXTENDS Coordinator

VARIABLES dumper, target, files, reply,
          accepted,   \* history: the sniffer took up the last SniffingStart
          stale,      \* history: captures whose file was there before that
          disturbed   \* history: a dumper may have survived an execution

sniffer == INSTANCE Sniffer WITH Captures <- TestCases,
                                 Packets <- TestCases \cup {NoTC}

sessionVars == <<vars, dumper, target, files, reply, accepted, stale, disturbed>>

SessionTypeOK ==
  /\ sniffer!SnifferTypeOK
  /\ accepted \in BOOLEAN /\ disturbed \in BOOLEAN
  /\ stale \in SUBSET TestCases

SessionInit ==
  /\ Init
  /\ sniffer!SnifferInit
  /\ accepted = FALSE /\ disturbed = FALSE
  /\ stale = {}

\* The coordinator's event publishes or calls m.
Calls(m) == \E k \in 1..Len(out') : out'[k].msg = m

\* The user takes a test case under execution away from the coordinator
\* without its id: nothing stops the sniffer.
Interrupts ==
  /\ fsm = "waiting_for_step_executed"
  /\ \/ RestartTestcase
     \/ \E id \in TestCases \cup {NoTC, UnknownTC} : SelectTestcase(id)
     \/ SkipCurrentTestcase(NoTC)

ServeStart ==
  /\ Calls("SniffingStart")
  /\ sniffer!Start(current)
  /\ accepted' = reply'
  /\ stale' = {c \in TestCases : files[c].exists}
  /\ UNCHANGED disturbed

ServeStop ==
  /\ Calls("SniffingStop")
  /\ Calls("InteropTestCaseAnalyze") => sniffer!CanGet(current)
  /\ sniffer!Stop
  /\ disturbed' = ~reply'
  /\ UNCHANGED <<accepted, stale>>

ServeNothing ==
  /\ ~Calls("SniffingStart") /\ ~Calls("SniffingStop")
  /\ disturbed' = (disturbed \/ Interrupts)
  /\ UNCHANGED <<dumper, target, files, reply, accepted, stale>>

CoordinatorStep == Next /\ (ServeStart \/ ServeStop \/ ServeNothing)

\* What the agents send belongs to the test case under execution, if any.
Sending == IF fsm = "waiting_for_step_executed" THEN current ELSE NoTC

\* Packets that are where they belong make no difference and are not recorded.
DumperStep ==
  /\ \/ sniffer!DumperReady /\ stale' = stale \ target
     \/ Sending \notin target /\ sniffer!DumperRecords(Sending) /\ UNCHANGED stale
     \/ sniffer!DumperExits /\ UNCHANGED stale
  /\ UNCHANGED <<vars, accepted, disturbed>>

SessionNext == CoordinatorStep \/ DumperStep

SessionSpec == SessionInit /\ [][SessionNext]_sessionVars

-----------------------------------------------------------------------------
\* The capture of the current test case was recorded while it was executed,
\* from a file opened for this execution.
Fits == /\ current \notin stale
        /\ files[current].packets \subseteq {current}

\* When the sniffer took up the recording of an execution, and stopped it, what
\* the analyser gets is this execution and nothing else: no packets of another
\* test case, none of an earlier attempt (finish_testcase, on_request).
AcceptedCaptureFits ==
  [][CoordinatorStep /\ Calls("InteropTestCaseAnalyze") /\ accepted /\ reply'
       => Fits]_sessionVars

\* A recording is refused only because, since the last successful stop, an
\* execution was interrupted without one or a stop failed; stopping the sniffer
\* at the end of any later execution makes it available again.
RefusedOnlyWhenDisturbed ==
  [][CoordinatorStep /\ Calls("SniffingStart") /\ ~reply' => disturbed]_sessionVars

\* Between executions no subprocess records, unless an execution was
\* interrupted or a stop failed.
IdleBetweenExecutions ==
  ~disturbed /\ fsm \notin {"waiting_for_step_executed", "preparing_next_step"}
    => dumper = "none"

\* "Stop sniffing packets for this test case", "Get capture of test case"
\* (coordinator.py:272, 277): what is analysed is the capture of this execution.
AnalysedCaptureFits ==
  [][CoordinatorStep /\ Calls("InteropTestCaseAnalyze") => Fits]_sessionVars
=============================================================================
