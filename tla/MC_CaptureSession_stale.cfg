SPECIFICATION SessionSpec
CONSTANTS
  NumTestCases = 2
  Script <- McScript
  Lossy <- McLossy
  Agents = {}
  TatVerdicts = {}
  Irregular = {}
PROPERTY
  AnalysedCaptureFits
\* With no agent sending, nothing happens after the end of the suite.
CHECK_DEADLOCK FALSE
