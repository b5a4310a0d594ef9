------------------------------ MODULE Schedule ------------------------------
(***************************************************************************)
(* What the coordinator promises to whoever follows a session: which test  *)
(* cases are run and when, and what becomes of their verdicts.  There are  *)
(* no steps, agents, timers or messages here; Coordinator implements it    *)
(* with them (KeepsSchedule).                                              *)
(***************************************************************************)
EXTENDS Naturals

CONSTANTS
  Cases,     \* the test cases, numbers in the order of the description
  Verdicts,
  NoVerdict, \* in place of the verdict of a test case that has none
  Default,   \* the verdict such a test case gets in the final report
  Strays     \* whether messages may name test cases that do not exist

VARIABLES
  phase,     \* "unconfigured", "configured", "running" or "over"
  chosen,    \* the test cases of the session
  status,    \* status[t]: "idle", "under way", "finished" or "skipped"
  verdict,   \* verdict[t]: the verdict t has so far
  report     \* the verdicts as reported at the end

schedule == <<phase, chosen, status, verdict, report>>

ScheduleInit ==
  /\ phase = "unconfigured"
  /\ chosen = Cases
  /\ status = [t \in Cases |-> "idle"]
  /\ verdict = [t \in Cases |-> NoVerdict]
  /\ report = [t \in Cases |-> NoVerdict]

\* The session's configuration chooses test cases.
Choose(C) ==
  /\ phase = "unconfigured"
  /\ phase' = "configured"
  /\ chosen' = C
  /\ UNCHANGED <<status, verdict, report>>

With(f, t, x) == [u \in Cases |-> IF u = t THEN x ELSE f[u]]

\* With no test case under way in s, the first idle one is taken up; without
\* one the suite is over, and every test case is reported.
MoveOn(s, v) ==
  /\ \A t \in Cases : s[t] # "under way"
  /\ UNCHANGED chosen
  /\ \/ \E t \in Cases :
          /\ s[t] = "idle"
          /\ \A u \in Cases : s[u] = "idle" => t <= u
          /\ phase' = "running"
          /\ status' = With(s, t, "under way")
          /\ verdict' = v
          /\ UNCHANGED report
     \/ /\ \A t \in Cases : s[t] # "idle"
        /\ phase' = "over"
        /\ status' = s
        /\ verdict' = [t \in Cases |-> IF v[t] = NoVerdict THEN Default ELSE v[t]]
        /\ report' = verdict'

\* What was chosen will be run, the rest will not.
Start ==
  /\ phase \in {"unconfigured", "configured"}
  /\ MoveOn([t \in Cases |-> IF t \in chosen THEN "idle" ELSE "skipped"], verdict)

\* The test case under way comes to its end, with a verdict.
Finish(t, v) ==
  /\ phase = "running"
  /\ status[t] = "under way"
  /\ MoveOn(With(status, t, "finished"), With(verdict, t, v))

\* The test case under way is skipped.
Skip(t) ==
  /\ phase = "running"
  /\ status[t] = "under way"
  /\ MoveOn(With(status, t, "skipped"), verdict)

\* Another one is skipped; the one under way only in place of a stray.
SetAside(t) ==
  /\ phase = "running"
  /\ status[t] = "under way" => Strays
  /\ status' = With(status, t, "skipped")
  /\ UNCHANGED <<phase, chosen, verdict, report>>

PutBack == [t \in Cases |-> IF status[t] = "under way" THEN "idle" ELSE status[t]]

\* The user jumps to a test case, finished or skipped ones included.
Jump(t) ==
  /\ phase = "running"
  /\ status' = With(PutBack, t, "under way")
  /\ UNCHANGED <<phase, chosen, verdict, report>>

\* The user jumps to a stray, and gets the first idle test case.
JumpAstray ==
  /\ phase = "running"
  /\ Strays
  /\ MoveOn(PutBack, verdict)

ScheduleNext ==
  \/ \E C \in SUBSET Cases : Choose(C)
  \/ Start
  \/ \E t \in Cases, v \in Verdicts : Finish(t, v)
  \/ \E t \in Cases : Skip(t) \/ SetAside(t) \/ Jump(t)
  \/ JumpAstray

ScheduleSpec == ScheduleInit /\ [][ScheduleNext]_schedule
=============================================================================
