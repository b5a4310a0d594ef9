SPECIFICATION FairSession
CONSTANTS
  client = client
  server = server
  NumTestCases = 2
  Script <- McScript
  StepNode <- McStepNode
  Lossy <- McLossy
  Agents <- McAgents
  Setups <- McSetups
  CannotRun <- McCannot
  Addresses <- McAddresses
  Fallible <- McFallible
  TatVerdicts = {"pass"}
  Irregular = {"wrong_answer", "no_address"}
INVARIANTS
  WaitingMeansOwed
PROPERTY
  EverybodyStops
\* The session ends.
CHECK_DEADLOCK FALSE
