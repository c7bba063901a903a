SPECIFICATION LockSpec
CONSTANTS
    a1 = a1
    a2 = a2
    b = b
    c = c
    n1 = n1
    n2 = n2
    n3 = n3
    NoLock = NoLock
    Incarnation <- MCIncarnation
    Pid <- MCPid
    PidOf <- MCPidOf
    Instant = {1}
    Mortal <- Recycled
    PsAnswers = TRUE
    SerialRecovery = FALSE
PROPERTIES
    OnlyOwnOrAbandonedLockRemoved
CHECK_DEADLOCK FALSE
