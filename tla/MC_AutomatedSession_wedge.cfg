SPECIFICATION SessionSpec
CONSTANTS
  client = client
  server = server
  NumTestCases = 2
  Script <- LongScript
  StepNode <- LongStepNode
  Lossy <- McLossy
  Agents <- McAgents
  Setups <- McSetups
  CannotRun <- McNone
  Addresses <- McAlways
  Fallible <- McNobody
  TatVerdicts = {"pass"}
  Irregular = {"wrong_answer", "no_address"}
INVARIANT
  DummyStatesAreTransient
\* The session ends.
CHECK_DEADLOCK FALSE
