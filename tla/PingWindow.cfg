SPECIFICATION WindowSpec
CONSTANTS
  Messages = {m1}
  NoMessage = NoMessage
  MAX_PACKET_ID = 2
  KeepAlive = 3
  CommandTimeout = 1
  YieldTime = 1
  PubackTime = 1
  MaxFaults = 0
  MaxCommands = 0
PROPERTY PingGivenItsInterval
CHECK_DEADLOCK FALSE
