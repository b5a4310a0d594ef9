SPECIFICATION Spec
CONSTANTS
  Users = {ann, bob}
  Role1 = client
  Role2 = server
  Components = {sniffing, packetrouting}
  MaxPolls = 1
  ReadyTries = 2
  MaxMoves = 2
PROPERTY
  EveryAnswerAccepted
CHECK_DEADLOCK FALSE
