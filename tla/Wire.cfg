SPECIFICATION Spec
CONSTANTS
  Messages = {m1, m2}
  NoMessage = NoMessage
  MAX_PACKET_ID = 2
  KeepAlive = 2
  CommandTimeout = 1
  YieldTime = 0
  PubackTime = 1
  MaxFaults = 1
  MaxCommands = 1
SYMMETRY MessageSymmetry
INVARIANTS TypeOK SilenceNoticed
PROPERTIES AcknowledgedByItsOwn ContractKept
