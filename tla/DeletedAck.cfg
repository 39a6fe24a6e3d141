CONSTANTS
    m1 = m1
    m2 = m2
    Messages = {m1, m2}
    TooLarge = {}
    Unframed = {}
    NULL = NULL
    MaxDisruptions = 2
    MaxEvents = 0
SPECIFICATION Spec
PROPERTY
    DeletesOnlyPublishedAck
