SPECIFICATION Spec
CONSTANTS
    p1 = p1
    p2 = p2
    i1 = i1
    i2 = i2
    c1 = c1
    c2 = c2
    c3 = c3
    Free = Free
    Stale = Stale
    Nothing = Nothing
    Baseline = Baseline
    Elsewhere = Elsewhere
    Process <- MCProcess
    Integration <- OneIntegration
    Members <- OneMembers
    OpId <- MCOpId
    Cautions = {"quiet", "shielded", "undisturbed", "patient", "exclusive"}
    MaxCalls = 1
    MaxFaults = 1
SYMMETRY Processes
INVARIANTS
    PublishedIsCommitted
CHECK_DEADLOCK FALSE
