SPECIFICATION Spec
CONSTANTS
    None = None
    c1 = c1
    c2 = c2
    y1 = y1
    y2 = y2
    pA = pA
    pB = pB
    low = low
    high = high
    Cards <- MCCards
    Cycles <- MCCycles
    Policies = {pA, pB}
    Risks = {high}
    MaxU32 = 5
    CardLimit <- MCCardLimit
    CycleLimit <- MCCycleLimit
    ReturnReasons = {"regression"}
    FirstPolicy = None
    FirstAuthorization = FALSE
    MaxDeclared = 2
    Mergers = {1}
    MaxFacts = 2
    Movable = TRUE
    Cautions = {"named", "settled", "fresh", "early"}
CONSTRAINT Products
SYMMETRY Symmetric
INVARIANTS
    BudgetKept
    OpenCycleWorkable
PROPERTIES
    EscalationHolds
CHECK_DEADLOCK FALSE
