SPECIFICATION ControlSpec
CONSTANTS
    a1 = a1
    a2 = a2
    b = b
    c = c
    n1 = n1
    n2 = n2
    n3 = n3
    NoLock = NoLock
    Incarnation <- MCIncarnation
    Pid <- MCPid
    PidOf <- MCPidOf
    Instant = {1}
    Mortal <- Recycled
    PsAnswers = FALSE
    SerialRecovery = TRUE
    p1 = p1
    p2 = p2
    i1 = i1
    i2 = i2
    c1 = c1
    c2 = c2
    c3 = c3
    Free = Free
    Stale = Stale
    Nothing = Nothing
    Baseline = Baseline
    Elsewhere = Elsewhere
    Process <- MCProcess
    Integration <- MCIntegration
    Members <- MCMembers
    OpId <- MCOpId
    Cautions = {"quiet", "shielded", "patient", "exclusive"}
    MaxCalls = 2
    MaxFaults = 2
SYMMETRY Alike
INVARIANTS
    MutualExclusion
    OneInterruption
    PublishedIsEvident
    PublishedLandingKept
    CommittedPromotionIsWhole
    LocalNeverAhead
PROPERTIES
    OnlyOwnOrAbandonedLockRemoved
    ImplementsExclusiveLock
    ImplementsAtomicPromotion
CHECK_DEADLOCK FALSE
