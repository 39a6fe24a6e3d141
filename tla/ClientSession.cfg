CONSTANTS
    m1 = m1
    m2 = m2
    Messages = {m1, m2}
    TooLarge = {"telemetry"}
    Unframed = {"event"}
    NULL = NULL
    MaxDisruptions = 2
    MaxEvents = 1
SPECIFICATION Spec
SYMMETRY Symmetry
INVARIANTS
    TypeOK
    SubscribedWhenUsable
    ClosedSessionForgets
    RetriedAckPresent
    ConfirmedAckNotPending
    ResentOnItsTopic
PROPERTY
    AckContractKept
