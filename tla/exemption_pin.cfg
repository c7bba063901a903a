SPECIFICATION Spec
CONSTANTS
    None = None
    c1 = c1
    c2 = c2
    y1 = y1
    y2 = y2
    pA = pA
    pB = pB
    low = low
    high = high
    Cards = {c1}
    Cycles = {y1}
    Policies = {pA}
    Risks = {low}
    MaxU32 = 5
    CardLimit <- MCCardLimit
    CycleLimit <- MCCycleLimit
    ReturnReasons = {"regression"}
    FirstPolicy = pA
    FirstAuthorization = FALSE
    MaxDeclared = 0
    Mergers = {}
    MaxFacts = 1
    Movable = FALSE
    Cautions = {"named", "settled", "fresh"}
INVARIANTS
    WorkingCyclePinsProject
CHECK_DEADLOCK FALSE
