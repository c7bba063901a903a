SPECIFICATION Spec
CONSTANTS
    Cards <- MCCards
    Cycles <- MCCycles
    CycleOf <- MCCycleOf
    DependsOn <- MCDependsOn
    Joint <- MCJoint
    Groups <- MCGroups
    Conflicts <- MCConflicts
    Limit = 1
    Actors <- MCActors
    Author <- MCAuthor
    Authorizers <- MCAuthorizers
    Scenarios <- MCScenarios
INVARIANTS
    LandingsBuildOnAuthority
    LandsAsApproved
PROPERTIES
    EscalatedCycleStands
    PublishesAuthorized
CHECK_DEADLOCK FALSE
