CONSTANTS
    MIN_RETRY_INTERVAL = 2
    MAX_RETRY_INTERVAL = 6
    Fds = {3, 4}
    CallTime = 1
    MaxTime = 28
    MaxAdjust = 1
    ULLONG_RANGE = 256
SPECIFICATION Spec
INVARIANTS
    TypeOK
    BackoffFollowsFailures
    NoOrphanSocket
    ConnectedHasTransport
PROPERTY
    AttemptsPaced
CHECK_DEADLOCK FALSE
