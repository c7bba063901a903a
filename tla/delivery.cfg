SPECIFICATION Spec
CONSTANTS
    first = first
    second = second
    alone = alone
    Cards = {first, second, alone}
    Scenarios <- MCScenarios
    Authors = {first, alone}
    DependsOn <- MCDependsOn
    Locations = {"here"}
    Tallies <- MCTallies
    MaxCommits = 3
    MaxRevisions <- MCMaxRevisions
    MaxHandoffs <- MCMaxHandoffs
    MaxReviews <- MCMaxReviews
INVARIANTS
    VerdictsStand
    OpenFindingsCarried
PROPERTIES
    OnlyReviewedCommitsSelected
    DependenciesSelectedApproved
CHECK_DEADLOCK FALSE
