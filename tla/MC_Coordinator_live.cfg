\* Three short test cases under fairness; every message names existing things and
\* answers what was asked.  The coordinator never stops: deadlock is checked.
SPECIFICATION FairSpec
CONSTANTS
  NumTestCases = 3
  Script <- McScript3
  Lossy <- McLossy3
  Agents = {client, server}
  TatVerdicts = {"pass"}
  Irregular = {}
INVARIANTS
  Survives
  NeverWedged
PROPERTIES
  SuiteFinishes
