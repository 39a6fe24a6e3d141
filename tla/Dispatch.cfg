CONSTANTS
    m1 = m1
    m2 = m2
    Messages = {m1, m2}
    Contents <- SomeContents
    NULL = NULL
SPECIFICATION FairSpec
INVARIANTS
    TypeOK
    BusyOnlyWhileLogging
    HandledByItsName
PROPERTY
    EveryMessageHandled
CHECK_DEADLOCK FALSE
