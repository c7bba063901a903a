SPECIFICATION Spec
CONSTANTS
    p1 = p1
    p2 = p2
    Process <- MCProcess
    Free = Free
    Stale = Stale
    Nothing = Nothing
    OpId = {1, 2}
    Contents = {0, 1}
    First = 0
SYMMETRY Processes
INVARIANTS
    PartialWorkHasEvidence
    OneInterruption
PROPERTIES
    SettlementIsFinal
CHECK_DEADLOCK FALSE
