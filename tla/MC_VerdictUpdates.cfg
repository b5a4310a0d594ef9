SPECIFICATION Spec
CONSTANTS
  Messages = {m1, m2}
  Silent = silent
  MaxUpdates = 3
INVARIANTS
  ValueIsWorst
  MessageExplainsValue
\* The bound on the number of calls ends every behaviour.
CHECK_DEADLOCK FALSE
