SPECIFICATION Spec
CONSTANTS
    c1 = c1
    c2 = c2
    new = new
    old = old
    x = x
    y = y
    Again = {c2}
    Cards = {c1, c2}
    Cycles = {new, old}
    OldCycles = {old}
    Areas = {x, y}
    Drafts <- MCDrafts
    Ending = {old}
    MaxRevisions <- MCMaxRevisions
    None = None
CONSTRAINT Products
INVARIANTS
    ActiveClaimsDisjoint
    DependenciesAcyclic
    PlanHonoured
    WorkIsLeased
PROPERTIES
    CardsFollowLifecycle
CHECK_DEADLOCK FALSE
