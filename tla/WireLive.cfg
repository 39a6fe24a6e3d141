SPECIFICATION FairSpec
CONSTANTS
  Messages = {m1}
  NoMessage = NoMessage
  MAX_PACKET_ID = 2
  KeepAlive = 2
  CommandTimeout = 1
  YieldTime = 1
  PubackTime = 1
  MaxFaults = 1
  MaxCommands = 1
PROPERTIES DeadLinkNoticed PublishReturns
