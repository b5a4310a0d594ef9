SPECIFICATION SessionSpec
CONSTANTS
  NumTestCases = 2
  Script <- McScript
  Lossy <- McLossy
  Agents = {}
  TatVerdicts = {}
  Irregular = {}
INVARIANT
  IdleBetweenExecutions
PROPERTIES
  AcceptedCaptureFits
  RefusedOnlyWhenDisturbed
\* With no agent sending, nothing happens after the end of the suite.
CHECK_DEADLOCK FALSE
