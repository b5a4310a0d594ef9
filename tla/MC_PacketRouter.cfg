SPECIFICATION FairSpec
CONSTANTS
  client = client
  server = server
  tt = tt
  Links <- McLinks
  AgentTT = tt
  QueueLimit = 2
  PacketsToDrop = 2
  MaxPackets <- McMaxPackets
  MaxServices = 2
  MaxStarts = 2
INVARIANTS
  OrderKept
  NewestWait
  CleanStart
  DropsWereAsked
  AgentSeesAll
PROPERTY
  EveryPacketSettles
\* All packets sent and handled.
CHECK_DEADLOCK FALSE
