SPECIFICATION FairSpec
CONSTANTS
  Users = {ann, bob}
  Role1 = client
  Role2 = server
  Components = {sniffing, packetrouting}
  MaxPolls = 1
  ReadyTries = 2
  MaxMoves = 2
INVARIANTS
  EveryRoleHeld
  ConfigurationHeard
PROPERTIES
  SetupEnds
  PromptSetupStarts
\* The set-up ends.
CHECK_DEADLOCK FALSE
