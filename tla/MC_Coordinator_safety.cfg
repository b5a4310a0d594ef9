\* Every input, the irregular ones included.
SPECIFICATION Spec
CONSTANTS
  NumTestCases = 2
  Script <- McScript
  Lossy <- McLossy
  Agents = {client, server}
  TatVerdicts = {"pass", "inconclusive", "fail"}
  Irregular = {"wrong_answer", "unknown_testcase", "no_address", "no_testcase_id", "bad_value", "bad_reply"}
INVARIANTS
  TypeOK
  FsmAgreesWithTestcase
  OnlyCurrentUnderWay
  NothingCarriedOver
  StepsInOrder
  VerdictIsEarned
  NothingForgotten
  WaitsForWhatItAsked
PROPERTIES
  OnlySelectionRevives
  VerdictStands
  KeepsSchedule
CHECK_DEADLOCK FALSE
