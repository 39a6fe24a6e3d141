CONSTANTS
    m1 = m1
    m2 = m2
    Messages = {m1, m2}
    TooLarge = {}
    Unframed = {m2}
    NULL = NULL
    MaxDisruptions = 1
    MaxEvents = 0
SPECIFICATION FairSpec
PROPERTIES
    EventuallyHealthy
    DisconnectedAckResent
