SPECIFICATION Spec
CONSTANTS
    p1 = p1
    p2 = p2
    c1 = c1
    v1 = v1
    v2 = v2
    NoLease = NoLease
    Process = {p1, p2}
    Card = {c1}
    Candidate = {v1, v2}
    Lane = {1}
    Gates = 2
    MaxAttempts = 1
    MaxReservations = 3
SYMMETRY Symmetric
INVARIANTS
    StartedAtMostOnce
    LadderInOrder
    HeavyRunsHoldLanes
PROPERTIES
    EvidenceSettlesOnce
CHECK_DEADLOCK FALSE
