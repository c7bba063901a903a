SPECIFICATION FairControlSpec
CONSTANTS
    a1 = a1
    a2 = a2
    b = b
    c = c
    n1 = n1
    n2 = n2
    n3 = n3
    NoLock = NoLock
    Incarnation <- MCIncarnation3
    Pid <- MCPid
    PidOf <- MCPidOf3
    Instant = {1}
    Mortal <- Recycled
    PsAnswers = TRUE
    SerialRecovery = TRUE
    p1 = p1
    p2 = p2
    i1 = i1
    i2 = i2
    c1 = c1
    c2 = c2
    c3 = c3
    Free = Free
    Stale = Stale
    Nothing = Nothing
    Baseline = Baseline
    Elsewhere = Elsewhere
    Process <- MCProcess
    Integration <- OneIntegration
    Members <- OneMembers
    OpId <- MCOpId
    Cautions = {"quiet", "shielded", "patient", "exclusive"}
    MaxCalls = 1
    MaxFaults = 2
PROPERTIES
    AbandonedLockCleared
    PublishedIsRecorded
CHECK_DEADLOCK FALSE
