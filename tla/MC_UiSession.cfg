\* Two agents, users who may click every button on their screen at any time.
SPECIFICATION SessionSpec
CONSTANTS
  NumTestCases = 2
  Script <- McScript
  Lossy <- McLossy
  Agents = {client, server}
  TatVerdicts = {"pass"}
  Irregular = {"wrong_answer"}
  MaxSame = 2
INVARIANTS
  WaitingMeansAsked
  PromptUsersNeverWedge
\* The bound on open requests stops the session.
CHECK_DEADLOCK FALSE
