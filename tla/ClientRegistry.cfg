SPECIFICATION Spec
CONSTANTS
  Clients = {c1, c2, c3}
  Devices = {d1, d2, d3}
  Messages = {m1}
  NoDevice = NoDevice
  NoClient = NoClient
  MAX_CLIENT_REGISTRY = 2
  MaxInits = 2
SYMMETRY RegistrySymmetry
INVARIANTS TypeOK RegistryFillsWithObjects
PROPERTY HandledByItsReceiver
CHECK_DEADLOCK FALSE
